--------------------------- MODULE BufferPool_proofs ---------------------------
(***************************************************************************)
(* Pins, slots and loads of the buffer pool: no slot that is in use can be *)
(* evicted, and a page is in one slot only.                                *)
(***************************************************************************)
EXTENDS BufferPool, FiniteSetTheorems, SequenceTheorems, TLAPS

(***************************************************************************)
(* The inductive invariant.                                                *)
(***************************************************************************)

(* The references that wait for page p, in the order they came: in the     *)
(* shared task of the load, or taken from it by the loop that resumes      *)
(* them.                                                                   *)
WaitList(p) == IF resuming.page = p THEN resuming.waiters ELSE ongoing[p].waiters

(* A load has a slot of its own. *)
LoadsApart ==
  /\ \A p \in Pages : ongoing[p].slot = NoSlot => ongoing[p] = NoLoad
  /\ \A p, q \in Pages :
       ongoing[p].slot # NoSlot /\ ongoing[p].slot = ongoing[q].slot => p = q

(* The list of a page names references that wait for it, each once, the    *)
(* lead of the load first; a page that is being loaded has somebody who    *)
(* waits for it.                                                           *)
ListsExact ==
  \A p \in Pages :
    /\ \A i \in DOMAIN WaitList(p) :
         LET r == WaitList(p)[i] IN
         ref[r].pc = "waiting" /\ ref[r].page = p /\ (ref[r].is_lead <=> i = 1)
    /\ \A i, j \in DOMAIN WaitList(p) : WaitList(p)[i] = WaitList(p)[j] => i = j
    /\ Loading(p) <=> WaitList(p) # <<>>

(* The load whose waiters are being resumed is over, but for its lead. *)
ResumingOwnsLoad ==
  \/ resuming = NotResuming
  \/ /\ resuming.page \in Pages /\ resuming.slot \in Slots
     /\ ongoing[resuming.page].slot = resuming.slot
     /\ ongoing[resuming.page].waiters = <<>>

(* The page of a load is nowhere until the load is over. *)
LoadedPageAbsent ==
  \A p \in Pages : Loading(p) /\ resuming.page # p => page_table[p] = NoSlot

(* A slot that is being written and loaded is neither pinned nor offered.  *)
TransitUnused ==
  \A s \in Slots : InTransit(s) => slot[s].lock_count = 0 /\ ~slot[s].queued

(* At most one request is under way on such a slot, the write of the old   *)
(* page or the read of the new one, and only on such a slot.               *)
Moves(f, q, n) == f[q][n].kind # "flush"

RequestsOK(f, L) ==
  /\ \A q \in Pages : \A n \in DOMAIN f[q] :
       /\ f[q][n].kind = "evict" => \E p \in Pages : <<p, f[q][n].slot>> \in L
       /\ f[q][n].kind = "load" => <<q, f[q][n].slot>> \in L
  /\ \A q, u \in Pages : \A n \in DOMAIN f[q], m \in DOMAIN f[u] :
       Moves(f, q, n) /\ Moves(f, u, m) /\ f[q][n].slot = f[u][m].slot => q = u /\ n = m

(* The pages under way, with the slots they are loaded into.               *)
Underway ==
  {l \in Pages \X Slots : ongoing[l[1]].slot = l[2] /\ resuming.page # l[1]}

TransitRequests == RequestsOK(io, Underway)

(* The slot under the key {0, 0} is in evict_order. *)
ZeroKeyQueued ==
  zero_key # NoSlot => slot[zero_key].queued /\ ~slot[zero_key].used

(* A page in a slot has been used, unless nobody has been given it yet;    *)
(* only pages are dirty.                                                   *)
PagesUsed ==
  \A s \in Slots :
    /\ slot[s].page # NoPage /\ slot[s].lock_count = 0 /\ ~InTransit(s) => slot[s].used
    /\ slot[s].is_dirty /\ ~InTransit(s) /\ fault # "mismatch" => slot[s].page # NoPage

(* A reference holds a slot, and its page has been used. *)
HeldSlots ==
  \A r \in Refs : ref[r].pc = "held" =>
    /\ ref[r].slot \in Slots
    /\ slot[ref[r].slot].page # NoPage => slot[ref[r].slot].used

-------------------------------------------------------------------------------
(***************************************************************************)
(* Facts about pins and lists.                                             *)
(***************************************************************************)
LEMMA RefsFinite == IsFiniteSet(Refs)
<1>1. IsFiniteSet(1 .. Depth) /\ IsFiniteSet({1})
  <2>1. 1 \in Int /\ Depth \in Int
    BY PoolAssumption
  <2>2. IsFiniteSet(1 .. Depth)
    BY <2>1, FS_Interval, Zenon
  <2>3. QED
    BY <2>2, FS_Singleton
<1>2. IsFiniteSet(Tasks \ Prefetchers) /\ IsFiniteSet(Prefetchers)
  BY FS_Subset, FS_Difference, PoolAssumption
<1>3. IsFiniteSet((Tasks \ Prefetchers) \X (1 .. Depth)) /\ IsFiniteSet(Prefetchers \X {1})
  BY <1>1, <1>2, FS_Product
<1>4. QED
  BY <1>3, FS_Union DEF Refs

(* The pins references have on slot s. *)
Pins(s) == Cardinality(HoldersOf(s))

LEMMA PinsNatural ==
  ASSUME NEW s
  PROVE  /\ Pins(s) \in Nat /\ IsFiniteSet(HoldersOf(s))
         /\ Pins(s) = 0 <=> \A r \in Refs : ref[r].pc = "held" => ref[r].slot # s
<1>1. HoldersOf(s) \subseteq Refs
  BY DEF HoldersOf
<1>2. IsFiniteSet(HoldersOf(s))
  BY <1>1, RefsFinite, FS_Subset
<1>3. Pins(s) \in Nat /\ (Pins(s) = 0 <=> HoldersOf(s) = {})
  BY <1>2, FS_CardinalityType, FS_EmptySet DEF Pins
<1>4. QED
  BY <1>2, <1>3 DEF HoldersOf

(* The load whose waiters are being resumed pins its slot once. *)
LoadPins(s) == IF resuming.slot = s THEN 1 ELSE 0

PinsCounted == \A s \in Slots : slot[s].lock_count = Pins(s) + LoadPins(s)

LEMMA PinsByLoadCount ==
  ASSUME LoadsApart, ResumingOwnsLoad, NEW s \in Slots
  PROVE  Cardinality(PinsByLoad(s)) = LoadPins(s)
<1>1. CASE resuming.slot = s
  <2>1. resuming.page \in Pages /\ ongoing[resuming.page].slot = s
    BY <1>1, PoolAssumption DEF ResumingOwnsLoad, NotResuming
  <2>2. PinsByLoad(s) = {resuming.page}
    BY <2>1 DEF PinsByLoad
  <2>3. QED
    BY <1>1, <2>2, FS_Singleton DEF LoadPins
<1>2. CASE resuming.slot # s
  <2>1. PinsByLoad(s) = {}
    BY <1>2, PoolAssumption DEF PinsByLoad, ResumingOwnsLoad, NotResuming
  <2>2. QED
    BY <1>2, <2>1, FS_EmptySet DEF LoadPins
<1>3. QED
  BY <1>1, <1>2

LEMMA PinsAre ==
  LoadsApart /\ ResumingOwnsLoad => (PinsExact <=> PinsCounted)
BY PinsByLoadCount DEF PinsExact, PinsCounted, Pins

(* A reference that gets its page adds one pin. *)
LEMMA PinAdded ==
  ASSUME NEW r \in Refs, NEW s \in Slots,
         ref[r].pc # "held", ref'[r].pc = "held", ref'[r].slot = s,
         \A x \in Refs \ {r} : ref'[x] = ref[x]
  PROVE  \A x \in Slots : Pins(x)' = IF x = s THEN Pins(x) + 1 ELSE Pins(x)
<1>1. HoldersOf(s)' = HoldersOf(s) \cup {r} /\ r \notin HoldersOf(s)
  BY DEF HoldersOf
<1>2. \A x \in Slots \ {s} : HoldersOf(x)' = HoldersOf(x)
  BY DEF HoldersOf
<1>3. Cardinality(HoldersOf(s) \cup {r}) = Cardinality(HoldersOf(s)) + 1
  BY <1>1, PinsNatural, FS_AddElement
<1>4. QED
  BY <1>1, <1>2, <1>3 DEF Pins

(* A reference that goes takes its pin with it. *)
LEMMA PinRemoved ==
  ASSUME NEW r \in Refs, NEW s \in Slots,
         ref[r].pc = "held", ref[r].slot = s, ref'[r].pc # "held",
         \A x \in Refs \ {r} : ref'[x] = ref[x]
  PROVE  /\ Pins(s) > 0
         /\ \A x \in Slots : Pins(x)' = IF x = s THEN Pins(x) - 1 ELSE Pins(x)
<1>1. HoldersOf(s)' = HoldersOf(s) \ {r} /\ r \in HoldersOf(s)
  BY DEF HoldersOf
<1>2. \A x \in Slots \ {s} : HoldersOf(x)' = HoldersOf(x)
  BY DEF HoldersOf
<1>3. Cardinality(HoldersOf(s) \ {r}) = Cardinality(HoldersOf(s)) - 1
  BY <1>1, PinsNatural, FS_RemoveElement
<1>4. Pins(s) > 0
  BY PinsNatural
<1>5. QED
  BY <1>1, <1>2, <1>3, <1>4 DEF Pins

(* References that hold nothing before nor after a step do not count. *)
LEMMA PinsSame ==
  ASSUME \A r \in Refs : \/ ref'[r] = ref[r]
                         \/ ref[r].pc # "held" /\ ref'[r].pc # "held"
  PROVE  \A s \in Slots : Pins(s)' = Pins(s)
<1>1. \A s \in Slots : HoldersOf(s)' = HoldersOf(s)
  BY DEF HoldersOf
<1>2. QED
  BY <1>1 DEF Pins

(* Sequences. *)
LEMMA RemoveAtIs ==
  ASSUME NEW S, NEW s \in Seq(S), NEW n \in DOMAIN s
  PROVE  /\ RemoveAt(s, n) \in Seq(S)
         /\ Len(RemoveAt(s, n)) = Len(s) - 1
         /\ \A i \in 1 .. Len(s) - 1 : RemoveAt(s, n)[i] = IF i < n THEN s[i] ELSE s[i + 1]
<1> DEFINE a == SubSeq(s, 1, n - 1)
           b == SubSeq(s, n + 1, Len(s))
<1>1. n \in 1 .. Len(s) /\ Len(s) \in Nat
  OBVIOUS
<1>2. /\ a \in Seq(S) /\ Len(a) = n - 1
      /\ \A i \in 1 .. n - 1 : a[i] = s[i]
  BY <1>1
<1>3. /\ b \in Seq(S) /\ Len(b) = Len(s) - n
      /\ \A i \in 1 .. Len(s) - n : b[i] = s[n + i]
  BY <1>1
<1>4. RemoveAt(s, n) = a \o b
  BY DEF RemoveAt
<1> HIDE DEF a, b
<1>5. /\ a \o b \in Seq(S) /\ Len(a \o b) = Len(a) + Len(b)
      /\ \A i \in 1 .. Len(a) + Len(b) : (a \o b)[i] = IF i <= Len(a) THEN a[i] ELSE b[i - Len(a)]
  BY <1>2, <1>3, ConcatProperties
<1>6. ASSUME NEW i \in 1 .. Len(s) - 1
      PROVE  (a \o b)[i] = IF i < n THEN s[i] ELSE s[i + 1]
  <2>1. CASE i < n
    <3>1. i \in 1 .. n - 1 /\ i \in 1 .. Len(a) + Len(b) /\ i <= Len(a)
      BY <1>1, <1>2, <1>3, <2>1
    <3>2. QED
      BY <1>2, <1>5, <2>1, <3>1
  <2>2. CASE ~(i < n)
    <3>1. /\ i - (n - 1) \in 1 .. Len(s) - n /\ n + (i - (n - 1)) = i + 1
          /\ i \in 1 .. Len(a) + Len(b) /\ ~(i <= Len(a)) /\ i - Len(a) = i - (n - 1)
      <4>1. /\ n \in 1 .. Len(s) /\ Len(s) \in Nat /\ i \in 1 .. Len(s) - 1
            /\ Len(a) = n - 1 /\ Len(b) = Len(s) - n
        BY <1>1, <1>2, <1>3
      <4>2. QED
        BY ONLY <2>2, <4>1, SMTT(30)
    <3> PICK k : k = i - (n - 1)
      OBVIOUS
    <3>2. b[k] = s[n + k]
      BY <1>3, <3>1
    <3>3. (a \o b)[i] = b[k]
      BY <1>5, <3>1
    <3>4. QED
      BY <2>2, <3>1, <3>2, <3>3
  <2>3. QED
    BY <2>1, <2>2
<1>7. a \o b \in Seq(S) /\ Len(a \o b) = Len(s) - 1
  BY <1>1, <1>2, <1>3, <1>5
<1>8. QED
  BY <1>4, <1>6, <1>7, Zenon

LEMMA FrontIs ==
  ASSUME NEW S, NEW s \in Seq(S), s # <<>>
  PROVE  /\ Front(s) \in Seq(S) /\ Len(Front(s)) = Len(s) - 1
         /\ \A i \in 1 .. Len(s) - 1 : Front(s)[i] = s[i]
         /\ Len(s) \in Nat \ {0} /\ Last(s) = s[Len(s)] /\ Last(s) \in S
         /\ Front(s) = <<>> <=> Len(s) = 1
<1>1. Len(s) \in Nat \ {0}
  OBVIOUS
<1>2. Last(s) = s[Len(s)] /\ Last(s) \in S
  BY <1>1 DEF Last
<1>3. /\ Front(s) \in Seq(S) /\ Len(Front(s)) = Len(s) - 1
      /\ \A i \in 1 .. Len(s) - 1 : Front(s)[i] = s[i]
  <2> DEFINE k == Len(s) - 1
  <2>1. k \in Int /\ 1 \in Int /\ \A i \in 1 .. k : s[i] \in S
    BY <1>1
  <2>2. Front(s) = SubSeq(s, 1, k)
    BY DEF Front
  <2>3. k \in Nat
    BY <1>1
  <2> HIDE DEF k
  <2>4. /\ SubSeq(s, 1, k) \in Seq(S)
        /\ Len(SubSeq(s, 1, k)) = k
        /\ \A i \in 1 .. k : SubSeq(s, 1, k)[i] = s[i]
    BY <2>1, <2>3
  <2>5. QED
    BY <1>1, <2>2, <2>4 DEF k
<1>4. Front(s) = <<>> <=> Len(s) = 1
  BY <1>1, <1>3
<1>5. QED
  BY <1>1, <1>2, <1>3, <1>4

LEMMA AppendIs ==
  ASSUME NEW S, NEW s \in Seq(S), NEW x \in S
  PROVE  /\ Append(s, x) \in Seq(S) /\ Len(Append(s, x)) = Len(s) + 1 /\ Len(s) \in Nat
         /\ \A i \in 1 .. Len(s) : Append(s, x)[i] = s[i]
         /\ Append(s, x)[Len(s) + 1] = x
OBVIOUS

-------------------------------------------------------------------------------
(***************************************************************************)
(* What the helpers do to headers and references.                          *)
(***************************************************************************)
LEMMA ResetShape ==
  ASSUME NEW p \in Pages \cup {NoPage}
  PROVE  /\ ResetHeader(p) \in Headers
         /\ ResetHeader(p).page = p /\ ResetHeader(p).lock_count = 0
         /\ ~ResetHeader(p).is_dirty /\ ~ResetHeader(p).used /\ ~ResetHeader(p).queued
BY DEF ResetHeader, Headers

LEMMA LockShape ==
  ASSUME NEW h \in Headers
  PROVE  /\ lock_slot(h) \in Headers
         /\ lock_slot(h).page = h.page /\ lock_slot(h).lock_count = h.lock_count + 1
         /\ lock_slot(h).used <=> h.used
         /\ lock_slot(h).is_dirty <=> h.is_dirty
         /\ lock_slot(h).queued <=> h.queued /\ ~(h.lock_count = 0 /\ h.used)
<1> DEFINE b == h.queued /\ ~(h.lock_count = 0 /\ h.used)
           n == h.lock_count + 1
<1>1. lock_slot(h) = [h EXCEPT !.lock_count = n, !.queued = b]
  BY DEF lock_slot
<1>2. b \in BOOLEAN /\ n \in Nat
  BY DEF Headers
<1> HIDE DEF b, n
<1>3. /\ lock_slot(h) \in Headers
      /\ lock_slot(h).page = h.page /\ lock_slot(h).lock_count = n
      /\ lock_slot(h).used = h.used /\ lock_slot(h).is_dirty = h.is_dirty
      /\ lock_slot(h).queued = b
  BY <1>1, <1>2 DEF Headers
<1>4. QED
  BY <1>3 DEF b, n

Modes == {"const", "mut", "init"}

LEMMA ReferencedShape ==
  ASSUME NEW h \in Headers, NEW mode \in Modes
  PROVE  /\ Referenced(h, mode) \in Headers
         /\ Referenced(h, mode).page = h.page
         /\ Referenced(h, mode).lock_count = h.lock_count + 1
         /\ Referenced(h, mode).used
         /\ Referenced(h, mode).is_dirty <=> h.is_dirty \/ mode # "const"
         /\ Referenced(h, mode).queued <=> h.queued /\ ~(h.lock_count = 0 /\ h.used)
<1> DEFINE l == lock_slot(h)
<1>1. l \in Headers /\ l.page = h.page /\ l.lock_count = h.lock_count + 1
  BY LockShape
<1>2. /\ l.is_dirty <=> h.is_dirty
      /\ l.queued <=> h.queued /\ ~(h.lock_count = 0 /\ h.used)
  BY LockShape
<1>3. Referenced(h, mode) = [l EXCEPT !.used = TRUE, !.is_dirty = @ \/ mode # "const"]
  BY DEF Referenced
<1> HIDE DEF l
<1>4. /\ Referenced(h, mode) \in Headers
      /\ Referenced(h, mode).page = l.page
      /\ Referenced(h, mode).lock_count = l.lock_count
      /\ Referenced(h, mode).used
      /\ Referenced(h, mode).is_dirty <=> l.is_dirty \/ mode # "const"
      /\ Referenced(h, mode).queued <=> l.queued
  BY <1>1, <1>3 DEF Headers
<1>5. QED
  BY <1>1, <1>2, <1>4

(* The bytes after a write of page p in slot s. *)
LEMMA StoreTypes ==
  ASSUME TypeOK, NEW p \in Pages \cup {NoPage}, NEW s, Store(p, s)
  PROVE  buffer' \in [Slots -> Data] /\ disk' \in [Pages -> Data]
<1>1. Newest(p) \in Data /\ <<p, "old">> \in Data
  BY DEF Newest, Data
<1>2. \A d \in Data : Outdated(d, p) \in Data
  BY <1>1 DEF Outdated
<1>3. /\ buffer' = [x \in Slots |-> IF x = s THEN Newest(p) ELSE Outdated(buffer[x], p)]
      /\ disk' = [q \in Pages |-> Outdated(disk[q], p)]
  BY DEF Store
<1>4. buffer \in [Slots -> Data] /\ disk \in [Pages -> Data]
  BY DEF TypeOK
<1>5. QED
  BY <1>1, <1>2, <1>3, <1>4

LEMMA ConstructShape ==
  ASSUME TypeOK, NEW r \in Refs, NEW p \in Pages, NEW s \in Slots,
         NEW h \in Headers, NEW mode \in Modes, Construct(r, p, s, h, mode)
  PROVE  /\ slot' \in [Slots -> Headers]
         /\ slot'[s] = Referenced(h, mode)
         /\ \A x \in Slots \ {s} : slot'[x] = slot[x]
         /\ ref' \in [Refs -> References]
         /\ ref'[r].pc = "held" /\ ref'[r].page = p /\ ref'[r].slot = s
         /\ \A x \in Refs \ {r} : ref'[x] = ref[x]
         /\ buffer' \in [Slots -> Data] /\ disk' \in [Pages -> Data]
         /\ live' \subseteq Pages
         /\ fault' = IF h.page = p THEN fault ELSE "mismatch"
<1>1. Referenced(h, mode) \in Headers
  BY ReferencedShape
<1>2. /\ slot \in [Slots -> Headers] /\ ref \in [Refs -> References]
      /\ slot' = [slot EXCEPT ![s] = Referenced(h, mode)]
      /\ fault' = IF h.page = p THEN fault ELSE "mismatch"
  BY DEF TypeOK, Construct
<1>3. ref' = [ref EXCEPT ![r] =
         [pc |-> "held", page |-> p, slot |-> s, is_lead |-> FALSE,
          mode |-> IF mode = "init" THEN "mut" ELSE mode]]
  BY DEF Construct
<1>4. [pc |-> "held", page |-> p, slot |-> s, is_lead |-> FALSE,
       mode |-> IF mode = "init" THEN "mut" ELSE mode] \in References
  BY DEF References, Modes
<1>5. /\ buffer' \in [Slots -> Data] /\ disk' \in [Pages -> Data]
      /\ live' \subseteq Pages
  <2>1. CASE mode = "init" /\ h.page = p
    BY <2>1, StoreTypes DEF Construct, TypeOK
  <2>2. CASE ~(mode = "init" /\ h.page = p)
    BY <2>2 DEF Construct, TypeOK
  <2>3. QED
    BY <2>1, <2>2
<1>6. QED
  BY <1>1, <1>2, <1>3, <1>4, <1>5

(* What every step that constructs a reference leaves behind.              *)
LEMMA Constructed ==
  ASSUME TypeOK, NEW r \in Refs, NEW p \in Pages, NEW s \in Slots,
         NEW h \in Headers, NEW mode \in Modes, Construct(r, p, s, h, mode)
  PROVE  /\ slot' \in [Slots -> Headers] /\ slot'[s].page = h.page
         /\ \A x \in Slots \ {s} : slot'[x] = slot[x]
         /\ ref' \in [Refs -> References] /\ ref'[r].pc = "held"
         /\ \A x \in Refs \ {r} : ref'[x] = ref[x]
         /\ buffer' \in [Slots -> Data] /\ disk' \in [Pages -> Data] /\ live' \subseteq Pages
         /\ fault' \in {"none", "overflow", "mismatch"}
<1>1. slot'[s] = Referenced(h, mode) /\ fault' = IF h.page = p THEN fault ELSE "mismatch"
  BY ConstructShape
<1>2. Referenced(h, mode).page = h.page
  BY ReferencedShape
<1>3. slot'[s].page = h.page
  BY <1>1, <1>2, Zenon
<1>4. fault' \in {"none", "overflow", "mismatch"}
  BY <1>1 DEF TypeOK
<1>5. QED
  BY <1>3, <1>4, ConstructShape

LEMMA UnlockShape ==
  ASSUME TypeOK, NEW s \in Slots, NEW h \in Headers, h.lock_count > 0, unlock_slot(s, h)
  PROVE  /\ slot' \in [Slots -> Headers]
         /\ \A x \in Slots \ {s} : slot'[x] = slot[x]
         /\ slot'[s].page = h.page /\ slot'[s].lock_count = h.lock_count - 1
         /\ slot'[s].used <=> h.used
         /\ slot'[s].is_dirty <=> h.is_dirty
         /\ slot'[s].queued <=> h.lock_count = 1 /\ (h.used \/ zero_key = NoSlot)
         /\ zero_key' = IF h.lock_count = 1 /\ ~h.used /\ zero_key = NoSlot THEN s ELSE zero_key
<1>1. slot \in [Slots -> Headers]
  BY DEF TypeOK
<1> DEFINE b == h.lock_count = 1 /\ (h.used \/ zero_key = NoSlot)
           n == h.lock_count - 1
           u == [h EXCEPT !.lock_count = n, !.queued = b]
<1>2. slot' = [slot EXCEPT ![s] = u]
  BY DEF unlock_slot
<1>3. zero_key' = IF h.lock_count = 1 /\ ~h.used /\ zero_key = NoSlot THEN s ELSE zero_key
  BY DEF unlock_slot
<1>4. b \in BOOLEAN /\ n \in Nat
  BY DEF Headers
<1> HIDE DEF b, n
<1>5. /\ u \in Headers /\ u.page = h.page /\ u.lock_count = n
      /\ u.used = h.used /\ u.is_dirty = h.is_dirty /\ u.queued = b
  BY <1>4 DEF Headers
<1> HIDE DEF u
<1>6. slot' \in [Slots -> Headers] /\ slot'[s] = u /\ \A x \in Slots \ {s} : slot'[x] = slot[x]
  BY <1>1, <1>2, <1>5
<1>7. QED
  BY <1>3, <1>5, <1>6 DEF b, n

-------------------------------------------------------------------------------
(***************************************************************************)
(* Loads and those who wait for them.                                      *)
(***************************************************************************)
ListInv == LoadsApart /\ ListsExact /\ ResumingOwnsLoad

LEMMA WaitListType ==
  ASSUME TypeOK, NEW p \in Pages
  PROVE  /\ WaitList(p) \in Seq(Refs) /\ Len(WaitList(p)) \in Nat
         /\ DOMAIN WaitList(p) = 1 .. Len(WaitList(p))
         /\ WaitList(p) = <<>> <=> Len(WaitList(p)) = 0
         /\ \A i \in DOMAIN WaitList(p) : WaitList(p)[i] \in Refs
<1>1. WaitList(p) \in Seq(Refs)
  BY DEF TypeOK, WaitList
<1>2. QED
  BY <1>1

(* A load is under way in the slot it names. *)
LEMMA LoadingIs ==
  ASSUME TypeOK, LoadsApart, NEW p \in Pages
  PROVE  /\ Loading(p) <=> ongoing[p].slot \in Slots
         /\ ongoing[p] = NoLoad <=> ongoing[p].slot = NoSlot
BY PoolAssumption DEF TypeOK, LoadsApart, Loading, NoLoad

(* With an empty stack no waiters are being resumed. *)
LEMMA NobodyResumed ==
  ASSUME TypeOK, ListInv, resuming.waiters = <<>>
  PROVE  resuming = NotResuming
<1>1. ASSUME resuming.page \in Pages, ongoing[resuming.page].slot \in Slots
      PROVE  FALSE
  BY <1>1, LoadingIs DEF ListInv, ListsExact, WaitList
<1>2. QED
  BY <1>1 DEF ListInv, ResumingOwnsLoad

(* Steps that leave the loads and those who wait alone. *)
LEMMA ListsKept ==
  ASSUME TypeOK, ListInv, ongoing' = ongoing, resuming' = resuming,
         \A r \in Refs : ref[r].pc = "waiting" => ref'[r] = ref[r]
  PROVE  ListInv'
<1>1. \A p \in Pages : WaitList(p)' = WaitList(p)
  BY DEF WaitList
<1>2. LoadsApart' /\ ResumingOwnsLoad'
  BY DEF ListInv, LoadsApart, ResumingOwnsLoad
<1>3. ListsExact'
  <2> SUFFICES ASSUME NEW p \in Pages
               PROVE  /\ \A i \in DOMAIN WaitList(p) :
                           LET r == WaitList(p)[i] IN
                           ref'[r].pc = "waiting" /\ ref'[r].page = p /\ (ref'[r].is_lead <=> i = 1)
                      /\ \A i, j \in DOMAIN WaitList(p) : WaitList(p)[i] = WaitList(p)[j] => i = j
                      /\ Loading(p)' <=> WaitList(p) # <<>>
    BY <1>1 DEF ListsExact
  <2>1. \A i \in DOMAIN WaitList(p) : ref'[WaitList(p)[i]] = ref[WaitList(p)[i]]
    BY WaitListType DEF ListInv, ListsExact
  <2>2. Loading(p)' <=> Loading(p)
    BY DEF Loading
  <2>3. QED
    BY <2>1, <2>2 DEF ListInv, ListsExact
<1>4. QED
  BY <1>2, <1>3 DEF ListInv

(* Nobody waits who is free or holds a page. *)
LEMMA NotListed ==
  ASSUME TypeOK, ListInv, NEW r \in Refs, ref[r].pc # "waiting", NEW p \in Pages
  PROVE  \A i \in DOMAIN WaitList(p) : WaitList(p)[i] \in Refs \ {r}
BY WaitListType DEF ListInv, ListsExact

(* A reference joins the end of a list. *)
LEMMA ListJoined ==
  ASSUME TypeOK, ListInv, NEW r \in Refs, NEW p \in Pages, ref[r].pc # "waiting",
         Loading(p), resuming.page # p, resuming' = resuming,
         ongoing' = [ongoing EXCEPT ![p].waiters = Append(@, r)],
         ref'[r].pc = "waiting", ref'[r].page = p, ~ref'[r].is_lead,
         \A x \in Refs \ {r} : ref'[x] = ref[x]
  PROVE  ListInv'
<1>0. ongoing \in [Pages -> [slot : Slots \cup {NoSlot}, waiters : Seq(Refs), is_new : BOOLEAN]]
  BY DEF TypeOK
<1>1. /\ \A q \in Pages \ {p} : ongoing'[q] = ongoing[q]
      /\ ongoing'[p].slot = ongoing[p].slot
      /\ ongoing'[p].waiters = Append(ongoing[p].waiters, r)
  BY <1>0
<1>2. \A q \in Pages : ongoing'[q].slot = ongoing[q].slot
  BY <1>1
<1>3. LoadsApart' /\ ResumingOwnsLoad'
  <2>1. ongoing'[p].slot # NoSlot
    BY <1>2, LoadingIs, PoolAssumption DEF ListInv
  <2>2. LoadsApart'
    BY <1>1, <1>2, <2>1 DEF ListInv, LoadsApart
  <2>3. ResumingOwnsLoad'
    BY <1>1, <1>2 DEF ListInv, ResumingOwnsLoad
  <2>4. QED
    BY <2>2, <2>3
<1> DEFINE W == WaitList(p)
           n == Len(W)
<1>4. /\ W \in Seq(Refs) /\ n \in Nat
      /\ WaitList(p)' = Append(W, r)
      /\ \A q \in Pages \ {p} : WaitList(q)' = WaitList(q)
  BY <1>1, WaitListType DEF WaitList
<1>5. /\ DOMAIN WaitList(p)' = 1 .. n + 1 /\ WaitList(p)' # <<>>
      /\ \A i \in 1 .. n : WaitList(p)'[i] = W[i]
      /\ WaitList(p)'[n + 1] = r
  BY <1>4
<1>6. /\ n > 0
      /\ \A i \in 1 .. n : /\ W[i] \in Refs \ {r} /\ ref[W[i]].pc = "waiting"
                           /\ ref[W[i]].page = p /\ (ref[W[i]].is_lead <=> i = 1)
      /\ \A i, j \in 1 .. n : W[i] = W[j] => i = j
  BY WaitListType, NotListed DEF ListInv, ListsExact
<1>7. Loading(p)'
  BY <1>2, <1>3, LoadingIs, PoolAssumption DEF ListInv, Loading, NoLoad
<1>8. ASSUME NEW q \in Pages \ {p}
      PROVE  /\ \A i \in DOMAIN WaitList(q)' :
                  LET x == WaitList(q)'[i] IN
                  ref'[x].pc = "waiting" /\ ref'[x].page = q /\ (ref'[x].is_lead <=> i = 1)
             /\ \A i, j \in DOMAIN WaitList(q)' : WaitList(q)'[i] = WaitList(q)'[j] => i = j
             /\ Loading(q)' <=> WaitList(q)' # <<>>
  <2>1. \A i \in DOMAIN WaitList(q) : WaitList(q)[i] \in Refs \ {r}
    BY NotListed
  <2>2. Loading(q)' <=> Loading(q)
    BY <1>1 DEF Loading
  <2>3. QED
    BY <1>4, <2>1, <2>2 DEF ListInv, ListsExact
<1>9. /\ \A i \in DOMAIN WaitList(p)' :
           LET x == WaitList(p)'[i] IN
           ref'[x].pc = "waiting" /\ ref'[x].page = p /\ (ref'[x].is_lead <=> i = 1)
      /\ \A i, j \in DOMAIN WaitList(p)' : WaitList(p)'[i] = WaitList(p)'[j] => i = j
  BY <1>4, <1>5, <1>6
<1>10. ListsExact'
  BY <1>5, <1>7, <1>8, <1>9 DEF ListsExact
<1>11. QED
  BY <1>3, <1>10 DEF ListInv

(* A load starts with its lead alone. *)
LEMMA ListStarted ==
  ASSUME TypeOK, ListInv, NEW r \in Refs, NEW p \in Pages, ref[r].pc # "waiting",
         NEW s \in Slots, NEW new \in BOOLEAN,
         ~Loading(p), \A q \in Pages : ongoing[q].slot # s, resuming' = resuming,
         ongoing' = [ongoing EXCEPT ![p] = [slot |-> s, waiters |-> <<r>>, is_new |-> new]],
         ref'[r].pc = "waiting", ref'[r].page = p, ref'[r].is_lead,
         \A x \in Refs \ {r} : ref'[x] = ref[x]
  PROVE  ListInv' /\ resuming.page # p
<1>0. ongoing \in [Pages -> [slot : Slots \cup {NoSlot}, waiters : Seq(Refs), is_new : BOOLEAN]]
  BY DEF TypeOK
<1>1. /\ \A q \in Pages \ {p} : ongoing'[q] = ongoing[q]
      /\ ongoing'[p].slot = s /\ ongoing'[p].waiters = <<r>>
  BY <1>0
<1>2. resuming.page # p
  BY LoadingIs, PoolAssumption DEF ListInv, ResumingOwnsLoad, NotResuming
<1>3. LoadsApart' /\ ResumingOwnsLoad'
  <2>1. s # NoSlot
    BY PoolAssumption
  <2>2. LoadsApart'
    BY <1>1, <2>1 DEF ListInv, LoadsApart
  <2>3. ResumingOwnsLoad'
    BY <1>1, <1>2 DEF ListInv, ResumingOwnsLoad
  <2>4. QED
    BY <2>2, <2>3
<1>4. /\ WaitList(p)' = <<r>>
      /\ \A q \in Pages \ {p} : WaitList(q)' = WaitList(q)
  BY <1>1, <1>2 DEF WaitList
<1>5. DOMAIN <<r>> = {1} /\ <<r>>[1] = r /\ <<r>> # <<>>
  OBVIOUS
<1>6. Loading(p)'
  BY <1>1, PoolAssumption DEF Loading, NoLoad
<1>7. ASSUME NEW q \in Pages \ {p}
      PROVE  /\ \A i \in DOMAIN WaitList(q)' :
                  LET x == WaitList(q)'[i] IN
                  ref'[x].pc = "waiting" /\ ref'[x].page = q /\ (ref'[x].is_lead <=> i = 1)
             /\ \A i, j \in DOMAIN WaitList(q)' : WaitList(q)'[i] = WaitList(q)'[j] => i = j
             /\ Loading(q)' <=> WaitList(q)' # <<>>
  <2>1. \A i \in DOMAIN WaitList(q) : WaitList(q)[i] \in Refs \ {r}
    BY NotListed
  <2>2. Loading(q)' <=> Loading(q)
    BY <1>1 DEF Loading
  <2>3. QED
    BY <1>4, <2>1, <2>2 DEF ListInv, ListsExact
<1>8. ListsExact'
  BY <1>4, <1>5, <1>6, <1>7 DEF ListsExact
<1>9. QED
  BY <1>2, <1>3, <1>8 DEF ListInv

(* A load is over: the loop takes its list. *)
LEMMA ListTaken ==
  ASSUME TypeOK, ListInv, NEW p \in Pages, NEW s \in Slots,
         ongoing[p].slot = s, resuming = NotResuming, FinishLoad(p, s), ref' = ref
  PROVE  /\ ListInv' /\ resuming'.page = p /\ resuming'.slot = s
         /\ \A q \in Pages : ongoing'[q].slot = ongoing[q].slot
<1>0. ongoing \in [Pages -> [slot : Slots \cup {NoSlot}, waiters : Seq(Refs), is_new : BOOLEAN]]
  BY DEF TypeOK
<1>1. /\ \A q \in Pages \ {p} : ongoing'[q] = ongoing[q]
      /\ ongoing'[p].slot = s /\ ongoing'[p].waiters = <<>>
      /\ resuming' = [slot |-> s, page |-> p, waiters |-> ongoing[p].waiters]
  BY <1>0 DEF FinishLoad
<1>2. resuming.page # p /\ \A q \in Pages : q # p => resuming.page # q
  BY PoolAssumption DEF NotResuming
<1>3. \A q \in Pages : WaitList(q)' = WaitList(q)
  BY <1>1, <1>2 DEF WaitList
<1>4. \A q \in Pages : Loading(q)' <=> Loading(q)
  BY <1>1, LoadingIs, PoolAssumption DEF ListInv, Loading, NoLoad
<1>5. ListsExact'
  BY <1>3, <1>4 DEF ListInv, ListsExact
<1>6. LoadsApart' /\ ResumingOwnsLoad'
  BY <1>1, PoolAssumption DEF ListInv, LoadsApart, ResumingOwnsLoad
<1>7. QED
  BY <1>1, <1>5, <1>6 DEF ListInv

(* The last of the list is resumed; the load goes with its lead. *)
LEMMA ListShortened ==
  ASSUME TypeOK, ListInv, resuming.waiters # <<>>,
         NEW p, p = resuming.page, NEW r, r = Last(resuming.waiters), ref'[r].pc # "waiting",
         \A x \in Refs \ {r} : ref'[x] = ref[x],
         ongoing' = IF ref[r].is_lead THEN [ongoing EXCEPT ![resuming.page] = NoLoad] ELSE ongoing,
         resuming' = IF Front(resuming.waiters) = <<>> THEN NotResuming
                     ELSE [resuming EXCEPT !.waiters = Front(resuming.waiters)]
  PROVE  /\ ListInv' /\ r \in Refs /\ ref[r].pc = "waiting"
         /\ resuming.page \in Pages /\ resuming.slot \in Slots
         /\ ongoing[resuming.page].slot = resuming.slot
         /\ \/ /\ ref[r].is_lead /\ resuming' = NotResuming
               /\ ongoing' = [ongoing EXCEPT ![resuming.page] = NoLoad]
            \/ /\ ~ref[r].is_lead /\ ongoing' = ongoing
               /\ resuming'.page = resuming.page /\ resuming'.slot = resuming.slot
<1> DEFINE W == resuming.waiters
           n == Len(W)
<1>0. ongoing \in [Pages -> [slot : Slots \cup {NoSlot}, waiters : Seq(Refs), is_new : BOOLEAN]]
  BY DEF TypeOK
<1>1. /\ W \in Seq(Refs) /\ n \in Nat \ {0} /\ r = W[n] /\ r \in Refs
      /\ Front(W) \in Seq(Refs) /\ Len(Front(W)) = n - 1
      /\ \A i \in 1 .. n - 1 : Front(W)[i] = W[i]
      /\ Front(W) = <<>> <=> n = 1
  BY FrontIs DEF TypeOK
<1>2. /\ p \in Pages /\ resuming.slot \in Slots /\ ongoing[p].slot = resuming.slot
      /\ ongoing[p].waiters = <<>>
  BY DEF ListInv, ResumingOwnsLoad, NotResuming
<1>3. /\ \A i \in 1 .. n : /\ W[i] \in Refs /\ ref[W[i]].pc = "waiting"
                           /\ ref[W[i]].page = p /\ (ref[W[i]].is_lead <=> i = 1)
      /\ \A i, j \in 1 .. n : W[i] = W[j] => i = j
  <2>1. WaitList(p) = W /\ DOMAIN W = 1 .. n
    BY <1>1 DEF WaitList
  <2>2. QED
    BY <1>2, <2>1, WaitListType DEF ListInv, ListsExact
<1>4. ref[r].pc = "waiting" /\ ref[r].page = p /\ (ref[r].is_lead <=> n = 1)
  BY <1>1, <1>3
<1>5. \A q \in Pages \ {p} : WaitList(q) = ongoing[q].waiters
  BY DEF WaitList
<1>6. \A q \in Pages \ {p} : \A i \in DOMAIN WaitList(q) : WaitList(q)[i] \in Refs \ {r}
  BY <1>4, WaitListType DEF ListInv, ListsExact
<1>7. CASE n = 1
  <2>1. resuming' = NotResuming /\ ongoing' = [ongoing EXCEPT ![p] = NoLoad] /\ ref[r].is_lead
    BY <1>1, <1>4, <1>7
  <2>2. ongoing'[p] = NoLoad /\ \A q \in Pages \ {p} : ongoing'[q] = ongoing[q]
    BY <1>0, <1>2, <2>1
  <2>3. /\ WaitList(p)' = <<>> /\ ~Loading(p)'
        /\ \A q \in Pages \ {p} : /\ WaitList(q)' = WaitList(q)
                                  /\ Loading(q)' <=> Loading(q)
    <3>1. resuming'.page = NoPage /\ NoLoad.waiters = <<>> /\ \A q \in Pages : q # NoPage
      BY <2>1, PoolAssumption DEF NotResuming, NoLoad
    <3>2. \A q \in Pages : WaitList(q)' = ongoing'[q].waiters
      BY <3>1 DEF WaitList
    <3>3. QED
      BY <1>2, <1>5, <2>2, <3>1, <3>2 DEF Loading
  <2>4. LoadsApart' /\ ResumingOwnsLoad'
    <3>1. NoLoad.slot = NoSlot
      BY DEF NoLoad
    <3>2. LoadsApart'
      BY <1>2, <2>2, <3>1 DEF ListInv, LoadsApart
    <3>3. QED
      BY <2>1, <3>2 DEF ResumingOwnsLoad
  <2>5. ListsExact'
    <3>1. ASSUME NEW q \in Pages \ {p}
          PROVE  /\ \A i \in DOMAIN WaitList(q)' :
                      LET x == WaitList(q)'[i] IN
                      ref'[x].pc = "waiting" /\ ref'[x].page = q /\ (ref'[x].is_lead <=> i = 1)
                 /\ \A i, j \in DOMAIN WaitList(q)' : WaitList(q)'[i] = WaitList(q)'[j] => i = j
                 /\ Loading(q)' <=> WaitList(q)' # <<>>
      BY <1>6, <2>3 DEF ListInv, ListsExact
    <3>2. DOMAIN WaitList(p)' = {} /\ (Loading(p)' <=> WaitList(p)' # <<>>)
      BY <2>3
    <3>3. QED
      BY <3>1, <3>2 DEF ListsExact
  <2>6. QED
    BY <1>1, <1>2, <1>4, <2>1, <2>4, <2>5 DEF ListInv
<1>8. CASE n # 1
  <2>1. /\ ongoing' = ongoing /\ ~ref[r].is_lead
        /\ resuming' = [resuming EXCEPT !.waiters = Front(W)]
    BY <1>1, <1>4, <1>8
  <2>2. resuming'.page = p /\ resuming'.slot = resuming.slot /\ resuming'.waiters = Front(W)
    BY <2>1 DEF TypeOK
  <2>3. /\ WaitList(p)' = Front(W) /\ DOMAIN Front(W) = 1 .. n - 1 /\ Front(W) # <<>>
        /\ Loading(p)' /\ Loading(p)
        /\ \A q \in Pages \ {p} : /\ WaitList(q)' = WaitList(q)
                                  /\ Loading(q)' <=> Loading(q)
    BY <1>1, <1>2, <1>5, <1>8, <2>1, <2>2, LoadingIs DEF WaitList, Loading, ListInv
  <2>4. LoadsApart' /\ ResumingOwnsLoad'
    BY <1>2, <2>1, <2>2 DEF ListInv, LoadsApart, ResumingOwnsLoad
  <2>5. /\ \A i \in DOMAIN WaitList(p)' :
             LET x == WaitList(p)'[i] IN
             ref'[x].pc = "waiting" /\ ref'[x].page = p /\ (ref'[x].is_lead <=> i = 1)
        /\ \A i, j \in DOMAIN WaitList(p)' : WaitList(p)'[i] = WaitList(p)'[j] => i = j
    <3>1. \A i \in 1 .. n - 1 : i \in 1 .. n /\ W[i] # r
      BY <1>1, <1>3
    <3>2. \A i \in 1 .. n - 1 : W[i] \in Refs \ {r} /\ ref'[W[i]] = ref[W[i]]
      BY <1>3, <3>1
    <3>3. DOMAIN WaitList(p)' = 1 .. n - 1 /\ \A i \in 1 .. n - 1 : WaitList(p)'[i] = W[i]
      BY <1>1, <2>3
    <3>4. QED
      BY <1>3, <3>1, <3>2, <3>3
  <2>6. ListsExact'
    <3>1. ASSUME NEW q \in Pages \ {p}
          PROVE  /\ \A i \in DOMAIN WaitList(q)' :
                      LET x == WaitList(q)'[i] IN
                      ref'[x].pc = "waiting" /\ ref'[x].page = q /\ (ref'[x].is_lead <=> i = 1)
                 /\ \A i, j \in DOMAIN WaitList(q)' : WaitList(q)'[i] = WaitList(q)'[j] => i = j
                 /\ Loading(q)' <=> WaitList(q)' # <<>>
      BY <1>6, <2>3 DEF ListInv, ListsExact
    <3>2. Loading(p)' <=> WaitList(p)' # <<>>
      BY <2>3
    <3>3. QED
      BY <2>5, <3>1, <3>2 DEF ListsExact
  <2>7. QED
    BY <1>1, <1>2, <1>4, <2>1, <2>2, <2>4, <2>6 DEF ListInv
<1>9. QED
  BY <1>7, <1>8

-------------------------------------------------------------------------------
(***************************************************************************)
(* Slots.                                                                  *)
(***************************************************************************)
SlotInv ==
  /\ TransitUnused /\ ZeroKeyQueued /\ PagesUsed /\ HeldSlots
  /\ PinsCounted /\ QueuedMeansFree /\ LeaksOnlyByRemoval

LEMMA CountsNatural ==
  ASSUME TypeOK, NEW s \in Slots
  PROVE  /\ Pins(s) \in Nat /\ LoadPins(s) \in {0, 1}
         /\ slot[s] \in Headers /\ slot[s].lock_count \in Nat
BY PinsNatural DEF LoadPins, TypeOK, Headers

(* A pinned slot is in nobody's way. *)
LEMMA PinnedSlot ==
  ASSUME TypeOK, SlotInv, NEW s \in Slots,
         \/ resuming.slot = s
         \/ \E r \in Refs : ref[r].pc = "held" /\ ref[r].slot = s
  PROVE  slot[s].lock_count > 0 /\ ~slot[s].queued /\ ~InTransit(s) /\ zero_key # s
<1>1. Pins(s) \in Nat /\ LoadPins(s) \in {0, 1}
  BY CountsNatural
<1>2. Pins(s) > 0 \/ LoadPins(s) > 0
  BY <1>1, PinsNatural DEF LoadPins
<1>3. slot[s].lock_count = Pins(s) + LoadPins(s)
  BY DEF SlotInv, PinsCounted
<1>4. slot[s].lock_count > 0
  BY <1>1, <1>2, <1>3
<1>5. ~slot[s].queued /\ ~InTransit(s)
  BY <1>4 DEF SlotInv, QueuedMeansFree, TransitUnused
<1>6. QED
  BY <1>4, <1>5, PoolAssumption DEF SlotInv, ZeroKeyQueued

(* A slot in transit is not pinned. *)
LEMMA TransitSlot ==
  ASSUME TypeOK, SlotInv, NEW s \in Slots, InTransit(s)
  PROVE  /\ slot[s].lock_count = 0 /\ ~slot[s].queued /\ zero_key # s
         /\ Pins(s) = 0 /\ LoadPins(s) = 0 /\ resuming.slot # s
<1>1. Pins(s) \in Nat /\ LoadPins(s) \in {0, 1}
  BY CountsNatural
<1>2. slot[s].lock_count = Pins(s) + LoadPins(s)
  BY DEF SlotInv, PinsCounted
<1>3. slot[s].lock_count = 0 /\ ~slot[s].queued
  BY DEF SlotInv, TransitUnused
<1>4. Pins(s) = 0 /\ LoadPins(s) = 0
  BY <1>1, <1>2, <1>3
<1>5. QED
  BY <1>3, <1>4, PoolAssumption DEF SlotInv, ZeroKeyQueued, LoadPins

(* A reference is constructed to slot s, whose header was h. *)
LEMMA SlotGained ==
  ASSUME TypeOK, SlotInv, NEW r \in Refs, NEW p \in Pages, NEW s \in Slots,
         NEW h \in Headers, NEW mode \in Modes,
         Construct(r, p, s, h, mode), ref[r].pc # "held",
         ~InTransit(s), \A x \in Slots : InTransit(x)' <=> InTransit(x),
         h.queued => h.lock_count = 0 /\ h.used,
         h.lock_count = Pins(s) + LoadPins(s)',
         \A x \in Slots \ {s} : LoadPins(x)' = LoadPins(x),
         zero_key' \in {zero_key, NoSlot}, zero_key' # s
  PROVE  SlotInv'
<1>1. /\ slot'[s].page = h.page /\ slot'[s].lock_count = h.lock_count + 1
      /\ slot'[s].used /\ ~slot'[s].queued
      /\ \A x \in Slots \ {s} : slot'[x] = slot[x]
      /\ ref'[r].pc = "held" /\ ref'[r].slot = s /\ \A x \in Refs \ {r} : ref'[x] = ref[x]
      /\ fault' = IF h.page = p THEN fault ELSE "mismatch"
  BY ConstructShape, ReferencedShape
<1>2. h.lock_count \in Nat /\ slot'[s].lock_count > 0
  BY <1>1 DEF Headers
<1>3. \A x \in Slots : Pins(x)' = IF x = s THEN Pins(x) + 1 ELSE Pins(x)
  BY <1>1, PinAdded
<1>4. PinsCounted'
  <2>1. slot'[s].lock_count = Pins(s)' + LoadPins(s)'
    <3>1. Pins(s)' = Pins(s) + 1 /\ Pins(s) \in Nat /\ LoadPins(s)' \in {0, 1}
      BY <1>3, CountsNatural DEF LoadPins
    <3>2. QED
      BY <1>1, <3>1
  <2>2. \A x \in Slots \ {s} : slot'[x].lock_count = Pins(x)' + LoadPins(x)'
    BY <1>1, <1>3 DEF SlotInv, PinsCounted
  <2>3. QED
    BY <2>1, <2>2 DEF PinsCounted
<1>5. TransitUnused' /\ QueuedMeansFree'
  BY <1>1 DEF SlotInv, TransitUnused, QueuedMeansFree
<1>6. ZeroKeyQueued'
  BY <1>1 DEF SlotInv, ZeroKeyQueued, TypeOK
<1>7. PagesUsed'
  BY <1>1, <1>2, PoolAssumption DEF SlotInv, PagesUsed
<1>8. LeaksOnlyByRemoval'
  BY <1>1, <1>2 DEF SlotInv, LeaksOnlyByRemoval
<1>9. HeldSlots'
  BY <1>1 DEF SlotInv, HeldSlots
<1>10. QED
  BY <1>4, <1>5, <1>6, <1>7, <1>8, <1>9 DEF SlotInv

(* A step that does no more to headers than to mark pages clean, and       *)
(* touches no reference that holds a page.                                 *)
LEMMA SlotsKept ==
  ASSUME TypeOK, SlotInv, zero_key' = zero_key, fault' # "mismatch" => fault # "mismatch",
         \A x \in Slots :
           /\ slot'[x].page = slot[x].page /\ slot'[x].lock_count = slot[x].lock_count
           /\ slot'[x].used = slot[x].used /\ slot'[x].queued = slot[x].queued
           /\ slot'[x].is_dirty => slot[x].is_dirty,
         \A r \in Refs : \/ ref'[r] = ref[r]
                         \/ ref[r].pc # "held" /\ ref'[r].pc # "held",
         \A x \in Slots : InTransit(x)' <=> InTransit(x),
         resuming'.slot = resuming.slot
  PROVE  SlotInv'
<1>1. \A x \in Slots : Pins(x)' = Pins(x)
  BY PinsSame
<1>2. \A x \in Slots : LoadPins(x)' = LoadPins(x)
  BY DEF LoadPins
<1>3. PinsCounted'
  BY <1>1, <1>2 DEF SlotInv, PinsCounted
<1>4. HeldSlots'
  BY DEF SlotInv, HeldSlots
<1>5. ZeroKeyQueued'
  BY DEF SlotInv, ZeroKeyQueued, TypeOK
<1>6. QED
  BY <1>3, <1>4, <1>5
     DEF SlotInv, TransitUnused, PagesUsed, QueuedMeansFree, LeaksOnlyByRemoval

(* A reference goes, and unlocks its slot. *)
LEMMA SlotReleased ==
  ASSUME TypeOK, SlotInv, NEW r \in Refs, ref[r].pc = "held", NEW s, s = ref[r].slot,
         unlock_slot(s, slot[s]),
         ref'[r].pc # "held", \A x \in Refs \ {r} : ref'[x] = ref[x],
         UNCHANGED <<ongoing, resuming, fault>>
  PROVE  SlotInv' /\ slot' \in [Slots -> Headers] /\ slot'[s].page = slot[s].page
         /\ \A x \in Slots \ {s} : slot'[x] = slot[x]
<1>1. s \in Slots /\ (slot[s].page # NoPage => slot[s].used)
  BY DEF SlotInv, HeldSlots
<1>2. slot[s].lock_count > 0 /\ ~slot[s].queued /\ ~InTransit(s) /\ zero_key # s
  BY <1>1, PinnedSlot
<1>3. /\ slot[s] \in Headers /\ slot[s].lock_count \in Nat
      /\ Pins(s) \in Nat /\ LoadPins(s) \in {0, 1}
  BY <1>1, CountsNatural
<1>4. /\ slot' \in [Slots -> Headers]
      /\ \A x \in Slots \ {s} : slot'[x] = slot[x]
      /\ slot'[s].page = slot[s].page /\ slot'[s].lock_count = slot[s].lock_count - 1
      /\ slot'[s].used <=> slot[s].used
      /\ slot'[s].is_dirty <=> slot[s].is_dirty
      /\ slot'[s].queued <=> slot[s].lock_count = 1 /\ (slot[s].used \/ zero_key = NoSlot)
      /\ zero_key' = IF slot[s].lock_count = 1 /\ ~slot[s].used /\ zero_key = NoSlot
                     THEN s ELSE zero_key
  BY <1>1, <1>2, <1>3, UnlockShape
<1>5. \A x \in Slots : InTransit(x)' <=> InTransit(x)
  BY DEF InTransit
<1>6. \A x \in Slots : Pins(x)' = IF x = s THEN Pins(x) - 1 ELSE Pins(x)
  BY <1>1, PinRemoved
<1>7. PinsCounted'
  <2>1. \A x \in Slots : LoadPins(x)' = LoadPins(x)
    BY DEF LoadPins
  <2>2. slot'[s].lock_count = Pins(s)' + LoadPins(s)'
    BY <1>1, <1>3, <1>4, <1>6, <2>1 DEF SlotInv, PinsCounted
  <2>3. \A x \in Slots \ {s} : slot'[x].lock_count = Pins(x)' + LoadPins(x)'
    BY <1>4, <1>6, <2>1 DEF SlotInv, PinsCounted
  <2>4. QED
    BY <2>2, <2>3 DEF PinsCounted
<1>8. TransitUnused' /\ QueuedMeansFree'
  BY <1>1, <1>2, <1>3, <1>4, <1>5 DEF SlotInv, TransitUnused, QueuedMeansFree
<1>9. ZeroKeyQueued'
  BY <1>1, <1>2, <1>4 DEF SlotInv, ZeroKeyQueued, TypeOK
<1>10. PagesUsed'
  BY <1>1, <1>2, <1>3, <1>4, <1>5 DEF SlotInv, PagesUsed
<1>11. LeaksOnlyByRemoval'
  BY <1>1, <1>3, <1>4, <1>5 DEF SlotInv, LeaksOnlyByRemoval
<1>12. HeldSlots'
  BY <1>1, <1>4 DEF SlotInv, HeldSlots
<1>13. QED
  BY <1>4, <1>7, <1>8, <1>9, <1>10, <1>11, <1>12 DEF SlotInv

(* The page of slot s is removed. *)
LEMMA SlotVacated ==
  ASSUME TypeOK, SlotInv, NEW s \in Slots, slot[s].page # NoPage, ~InTransit(s),
         unlock_slot(s, [lock_slot(slot[s]) EXCEPT
                           !.page = NoPage, !.is_dirty = FALSE, !.used = FALSE]),
         UNCHANGED <<ref, ongoing, resuming, fault>>
  PROVE  SlotInv' /\ slot' \in [Slots -> Headers] /\ slot'[s].page = NoPage
         /\ \A x \in Slots \ {s} : slot'[x] = slot[x]
<1> DEFINE l == lock_slot(slot[s])
           h == [l EXCEPT !.page = NoPage, !.is_dirty = FALSE, !.used = FALSE]
<1>1. slot[s] \in Headers /\ slot[s].lock_count \in Nat
  BY CountsNatural
<1>2. l \in Headers /\ l.lock_count = slot[s].lock_count + 1
  BY <1>1, LockShape
<1> HIDE DEF l
<1>3. /\ h \in Headers /\ h.page = NoPage /\ ~h.is_dirty /\ ~h.used
      /\ h.lock_count = l.lock_count
  BY <1>2 DEF Headers
<1>4. unlock_slot(s, h)
  BY DEF l
<1> HIDE DEF h
<1>5. h.lock_count = slot[s].lock_count + 1 /\ h.lock_count > 0
      /\ (h.lock_count = 1 <=> slot[s].lock_count = 0)
      /\ h.lock_count - 1 = slot[s].lock_count
  BY <1>1, <1>2, <1>3
<1>6. /\ slot' \in [Slots -> Headers]
      /\ \A x \in Slots \ {s} : slot'[x] = slot[x]
      /\ slot'[s].page = NoPage /\ slot'[s].lock_count = slot[s].lock_count
      /\ ~slot'[s].used /\ ~slot'[s].is_dirty
      /\ slot'[s].queued <=> slot[s].lock_count = 0 /\ zero_key = NoSlot
      /\ zero_key' = IF slot[s].lock_count = 0 /\ zero_key = NoSlot THEN s ELSE zero_key
  BY <1>3, <1>4, <1>5, UnlockShape
<1>7. zero_key # s
  BY PoolAssumption DEF SlotInv, ZeroKeyQueued, QueuedMeansFree, PagesUsed
<1>8. \A x \in Slots : /\ InTransit(x)' <=> InTransit(x)
                       /\ Pins(x)' = Pins(x) /\ LoadPins(x)' = LoadPins(x)
  BY PinsSame DEF InTransit, LoadPins
<1>9. PinsCounted'
  BY <1>6, <1>8 DEF SlotInv, PinsCounted
<1>10. TransitUnused' /\ QueuedMeansFree'
  BY <1>6, <1>8 DEF SlotInv, TransitUnused, QueuedMeansFree
<1>11. ZeroKeyQueued'
  BY <1>6, <1>7 DEF SlotInv, ZeroKeyQueued, TypeOK
<1>12. PagesUsed'
  BY <1>6, <1>8 DEF SlotInv, PagesUsed
<1>13. LeaksOnlyByRemoval'
  BY <1>6, <1>8 DEF SlotInv, LeaksOnlyByRemoval
<1>14. HeldSlots'
  BY <1>6 DEF SlotInv, HeldSlots
<1>15. QED
  BY <1>6, <1>9, <1>10, <1>11, <1>12, <1>13, <1>14 DEF SlotInv

(* Any slot get_lru_k may choose is free. *)
LEMMA VictimFree ==
  ASSUME TypeOK, SlotInv, NEW s \in Victims
  PROVE  /\ s \in Slots /\ s # NoSlot /\ slot[s].queued /\ slot[s].lock_count = 0 /\ ~InTransit(s)
         /\ Pins(s) = 0 /\ resuming.slot # s
         /\ slot[s].is_dirty /\ fault # "mismatch" => slot[s].page \in Pages
<1>1. s \in Slots /\ slot[s].queued
  BY PoolAssumption DEF Victims, Queued, SlotInv, ZeroKeyQueued, TypeOK
<1>2. slot[s].lock_count = 0 /\ ~InTransit(s)
  BY <1>1 DEF SlotInv, QueuedMeansFree
<1>3. Pins(s) \in Nat /\ LoadPins(s) \in {0, 1} /\ slot[s] \in Headers
  BY <1>1, CountsNatural
<1>4. Pins(s) = 0 /\ LoadPins(s) = 0
  BY <1>1, <1>2, <1>3 DEF SlotInv, PinsCounted
<1>5. slot[s].is_dirty /\ fault # "mismatch" => slot[s].page \in Pages
  BY <1>1, <1>2, <1>3 DEF SlotInv, PagesUsed, Headers
<1>6. QED
  BY <1>1, <1>2, <1>4, <1>5, PoolAssumption DEF LoadPins

(* A slot is chosen for a load that has to wait. *)
LEMMA SlotTaken ==
  ASSUME TypeOK, SlotInv, NEW s \in Victims,
         slot' = [slot EXCEPT ![s].queued = FALSE],
         zero_key' = IF s = zero_key THEN NoSlot ELSE zero_key,
         \A r \in Refs : \/ ref'[r] = ref[r]
                         \/ ref[r].pc # "held" /\ ref'[r].pc # "held",
         InTransit(s)', \A x \in Slots \ {s} : InTransit(x)' <=> InTransit(x),
         UNCHANGED <<resuming, fault>>
  PROVE  SlotInv'
<1>1. s \in Slots /\ slot[s].lock_count = 0
  BY VictimFree
<1>2. /\ \A x \in Slots \ {s} : slot'[x] = slot[x]
      /\ slot'[s].lock_count = slot[s].lock_count /\ ~slot'[s].queued
      /\ slot'[s].used = slot[s].used /\ slot'[s].page = slot[s].page
  BY <1>1 DEF TypeOK, Headers
<1>3. \A x \in Slots : Pins(x)' = Pins(x) /\ LoadPins(x)' = LoadPins(x)
  BY PinsSame DEF LoadPins
<1>4. PinsCounted'
  BY <1>2, <1>3 DEF SlotInv, PinsCounted
<1>5. TransitUnused' /\ QueuedMeansFree'
  BY <1>1, <1>2 DEF SlotInv, TransitUnused, QueuedMeansFree
<1>6. ZeroKeyQueued'
  BY <1>2 DEF SlotInv, ZeroKeyQueued, TypeOK
<1>7. PagesUsed' /\ LeaksOnlyByRemoval'
  BY <1>2 DEF SlotInv, PagesUsed, LeaksOnlyByRemoval
<1>8. HeldSlots'
  BY <1>2 DEF SlotInv, HeldSlots
<1>9. QED
  BY <1>4, <1>5, <1>6, <1>7, <1>8 DEF SlotInv

(* A load into s is over. *)
LEMMA SlotLoaded ==
  ASSUME TypeOK, SlotInv, NEW s \in Slots, NEW p \in Pages, InTransit(s), ~InTransit(s)',
         slot' = [slot EXCEPT ![s] = [ResetHeader(p) EXCEPT !.lock_count = 1]],
         resuming = NotResuming, resuming'.slot = s,
         \A x \in Slots \ {s} : InTransit(x)' <=> InTransit(x),
         UNCHANGED <<zero_key, ref, fault>>
  PROVE  SlotInv' /\ slot' \in [Slots -> Headers] /\ slot'[s].page = p
         /\ \A x \in Slots \ {s} : slot'[x] = slot[x]
<1> DEFINE h == [ResetHeader(p) EXCEPT !.lock_count = 1]
<1>1. /\ h \in Headers /\ h.page = p /\ h.lock_count = 1
      /\ ~h.is_dirty /\ ~h.used /\ ~h.queued
  BY DEF ResetHeader, Headers
<1>2. slot' = [slot EXCEPT ![s] = h] /\ slot \in [Slots -> Headers]
  BY DEF TypeOK
<1> HIDE DEF h
<1>3. slot' \in [Slots -> Headers] /\ slot'[s] = h /\ \A x \in Slots \ {s} : slot'[x] = slot[x]
  BY <1>1, <1>2
<1>4. zero_key # s /\ Pins(s) = 0
  BY TransitSlot
<1>5. \A x \in Slots : Pins(x)' = Pins(x) /\ LoadPins(x) = 0
  BY PinsSame, PoolAssumption DEF LoadPins, NotResuming
<1>6. PinsCounted'
  <2>1. slot'[s].lock_count = Pins(s)' + LoadPins(s)'
    BY <1>1, <1>3, <1>4, <1>5 DEF LoadPins
  <2>2. \A x \in Slots \ {s} : LoadPins(x)' = 0 /\ Pins(x) \in Nat
    BY CountsNatural DEF LoadPins
  <2>3. \A x \in Slots \ {s} : slot'[x].lock_count = Pins(x)' + LoadPins(x)'
    BY <1>3, <1>5, <2>2 DEF SlotInv, PinsCounted
  <2>4. QED
    BY <2>1, <2>3 DEF PinsCounted
<1>7. TransitUnused' /\ QueuedMeansFree'
  BY <1>1, <1>3 DEF SlotInv, TransitUnused, QueuedMeansFree
<1>8. ZeroKeyQueued'
  BY <1>3, <1>4 DEF SlotInv, ZeroKeyQueued, TypeOK
<1>9. PagesUsed' /\ LeaksOnlyByRemoval'
  <2>1. h.lock_count # 0 /\ ~h.is_dirty
    BY <1>1
  <2>2. slot'[s] = h
    BY <1>3
  <2>3. slot'[s].lock_count # 0 /\ ~slot'[s].is_dirty
    BY <2>1, <2>2, Zenon
  <2>4. PagesUsed'
    BY <1>3, <2>3 DEF SlotInv, PagesUsed
  <2>5. LeaksOnlyByRemoval'
    BY <1>3, <2>3 DEF SlotInv, LeaksOnlyByRemoval
  <2>6. QED
    BY <2>4, <2>5
<1>10. HeldSlots'
  <2>1. \A r \in Refs : ref[r].pc = "held" => ref[r].slot # s
    BY <1>4, PinsNatural
  <2>2. QED
    BY <1>3, <2>1 DEF SlotInv, HeldSlots
<1>11. QED
  BY <1>1, <1>3, <1>6, <1>7, <1>8, <1>9, <1>10 DEF SlotInv

-------------------------------------------------------------------------------
(***************************************************************************)
(* Requests, and the pages of slots.                                       *)
(***************************************************************************)
AllRequests == [Pages -> Seq(Requests)]

LEMMA UnderwayIs ==
  ASSUME NEW p \in Pages, NEW s \in Slots
  PROVE  /\ <<p, s>> \in Underway <=> ongoing[p].slot = s /\ resuming.page # p
         /\ InTransit(s) <=> \E q \in Pages : <<q, s>> \in Underway
BY DEF Underway, InTransit

(* A request that moves a page is on a slot in transit. *)
LEMMA MovesInTransit ==
  ASSUME NEW f \in AllRequests, NEW L, RequestsOK(f, L),
         NEW q \in Pages, NEW n \in DOMAIN f[q], Moves(f, q, n)
  PROVE  f[q][n].slot \in Slots /\ \E p \in Pages : <<p, f[q][n].slot>> \in L
<1>1. f[q][n] \in Requests
  BY DEF AllRequests
<1>2. f[q][n].kind \in {"evict", "load"} /\ f[q][n].slot \in Slots
  BY <1>1 DEF Requests, Moves
<1>3. QED
  BY <1>2 DEF RequestsOK

(* A request is served: the others on the page move up. *)
Served(f, q, n) == [f EXCEPT ![q] = RemoveAt(@, n)]

LEMMA RequestServed ==
  ASSUME NEW f \in AllRequests, NEW L, RequestsOK(f, L), NEW q \in Pages, NEW n \in DOMAIN f[q],
         NEW g, g = Served(f, q, n)
  PROVE  /\ g \in AllRequests /\ RequestsOK(g, L)
         /\ Moves(f, q, n) => \A u \in Pages : \A m \in DOMAIN g[u] :
                                Moves(g, u, m) => g[u][m].slot # f[q][n].slot
<1> DEFINE old(u, m) == IF u = q /\ ~(m < n) THEN m + 1 ELSE m
<1>1. f[q] \in Seq(Requests) /\ n \in 1 .. Len(f[q]) /\ Len(f[q]) \in Nat
  BY DEF AllRequests
<1>2. /\ RemoveAt(f[q], n) \in Seq(Requests) /\ Len(RemoveAt(f[q], n)) = Len(f[q]) - 1
      /\ \A m \in 1 .. Len(f[q]) - 1 :
           RemoveAt(f[q], n)[m] = IF m < n THEN f[q][m] ELSE f[q][m + 1]
  BY <1>1, RemoveAtIs
<1>3. g[q] = RemoveAt(f[q], n) /\ \A u \in Pages \ {q} : g[u] = f[u]
  BY DEF AllRequests, Served
<1>4. g \in AllRequests
  BY <1>2 DEF AllRequests, Served
<1>5. ASSUME NEW u \in Pages, NEW m \in DOMAIN g[u]
      PROVE  /\ m \in Nat /\ old(u, m) \in DOMAIN f[u] /\ g[u][m] = f[u][old(u, m)]
             /\ u = q => old(u, m) # n
  <2>1. CASE u = q
    <3>1. m \in 1 .. Len(f[q]) - 1
      BY <1>2, <1>3, <2>1
    <3>2. g[q][m] = IF m < n THEN f[q][m] ELSE f[q][m + 1]
      BY <1>2, <1>3, <3>1
    <3>3. QED
      BY <1>1, <2>1, <3>1, <3>2
  <2>2. CASE u # q
    <3>1. g[u] = f[u] /\ f[u] \in Seq(Requests)
      BY <1>3, <2>2 DEF AllRequests
    <3>2. QED
      BY <2>2, <3>1
  <2>3. QED
    BY <2>1, <2>2
<1>6. \A u \in Pages : \A m, k \in Nat : old(u, m) = old(u, k) => m = k
  BY <1>1
<1>7. \A u \in Pages : \A m \in DOMAIN g[u] :
        /\ g[u][m].kind = "evict" => \E p \in Pages : <<p, g[u][m].slot>> \in L
        /\ g[u][m].kind = "load" => <<u, g[u][m].slot>> \in L
  <2> HIDE DEF old
  <2>1. QED
    BY <1>5 DEF RequestsOK
<1>8. \A u, v \in Pages : \A m \in DOMAIN g[u], k \in DOMAIN g[v] :
        Moves(g, u, m) /\ Moves(g, v, k) /\ g[u][m].slot = g[v][k].slot => u = v /\ m = k
  <2> SUFFICES ASSUME NEW u \in Pages, NEW v \in Pages, NEW m \in DOMAIN g[u], NEW k \in DOMAIN g[v],
                      Moves(g, u, m), Moves(g, v, k), g[u][m].slot = g[v][k].slot
               PROVE  u = v /\ m = k
    OBVIOUS
  <2> HIDE DEF old
  <2>1. /\ old(u, m) \in DOMAIN f[u] /\ g[u][m] = f[u][old(u, m)] /\ m \in Nat
        /\ old(v, k) \in DOMAIN f[v] /\ g[v][k] = f[v][old(v, k)] /\ k \in Nat
    BY <1>5
  <2>2. u = v /\ old(u, m) = old(v, k)
    BY <2>1 DEF RequestsOK, Moves
  <2>3. QED
    BY <1>6, <2>1, <2>2
<1>9. ASSUME Moves(f, q, n), NEW u \in Pages, NEW m \in DOMAIN g[u], Moves(g, u, m),
             g[u][m].slot = f[q][n].slot
      PROVE  FALSE
  <2> HIDE DEF old
  <2>1. /\ old(u, m) \in DOMAIN f[u] /\ g[u][m] = f[u][old(u, m)]
        /\ u = q => old(u, m) # n
    BY <1>5
  <2>2. u = q /\ old(u, m) = n
    BY <1>9, <2>1 DEF RequestsOK, Moves
  <2>3. QED
    BY <2>1, <2>2
<1>10. RequestsOK(g, L)
  BY ONLY <1>7, <1>8, SMT DEF RequestsOK
<1>11. QED
  BY <1>4, <1>9, <1>10

(* A request that moves a page is submitted for a slot no other is on. *)
Added(f, p, kind, s) == [f EXCEPT ![p] = Append(@, [kind |-> kind, slot |-> s])]

LEMMA RequestAdded ==
  ASSUME NEW f \in AllRequests, NEW L, RequestsOK(f, L), NEW p \in Pages, NEW s \in Slots,
         NEW kind \in {"evict", "load"},
         NEW g, g = Added(f, p, kind, s),
         \A u \in Pages : \A m \in DOMAIN f[u] : Moves(f, u, m) => f[u][m].slot # s,
         \E q \in Pages : <<q, s>> \in L, kind = "load" => <<p, s>> \in L
  PROVE  g \in AllRequests /\ RequestsOK(g, L)
<1> DEFINE e == [kind |-> kind, slot |-> s]
           N == Len(f[p]) + 1
<1>1. f[p] \in Seq(Requests) /\ e \in Requests
  BY DEF AllRequests, Requests
<1>2. e.kind = kind /\ e.slot = s
  OBVIOUS
<1>3. g = [f EXCEPT ![p] = Append(f[p], e)] /\ f \in [Pages -> Seq(Requests)]
  BY DEF AllRequests, Added
<1> HIDE DEF e
<1>4. /\ Append(f[p], e) \in Seq(Requests) /\ Len(Append(f[p], e)) = N /\ Len(f[p]) \in Nat
      /\ \A i \in 1 .. Len(f[p]) : Append(f[p], e)[i] = f[p][i]
      /\ Append(f[p], e)[N] = e
  BY <1>1, AppendIs
<1>5. /\ g[p] = Append(f[p], e) /\ \A u \in Pages \ {p} : g[u] = f[u]
      /\ g \in AllRequests
  BY <1>3, <1>4 DEF AllRequests
<1>6. DOMAIN g[p] = 1 .. N /\ DOMAIN f[p] = 1 .. Len(f[p])
  BY <1>1, <1>4, <1>5
<1>7. ASSUME NEW u \in Pages, NEW m \in DOMAIN g[u]
      PROVE  \/ m \in DOMAIN f[u] /\ g[u][m] = f[u][m]
             \/ u = p /\ m = N /\ g[u][m] = e
  <2>1. CASE u = p
    <3>1. m \in 1 .. Len(f[p]) \/ m = N
      BY <1>4, <1>6, <2>1
    <3>2. CASE m \in 1 .. Len(f[p])
      BY <1>4, <1>5, <1>6, <2>1, <3>2
    <3>3. CASE m = N
      BY <1>4, <1>5, <2>1, <3>3
    <3>4. QED
      BY <3>1, <3>2, <3>3
  <2>2. CASE u # p
    BY <1>5, <2>2
  <2>3. QED
    BY <2>1, <2>2
<1> HIDE DEF N
<1>8. \A u \in Pages : \A m \in DOMAIN g[u] :
        /\ g[u][m].kind = "evict" => \E q \in Pages : <<q, g[u][m].slot>> \in L
        /\ g[u][m].kind = "load" => <<u, g[u][m].slot>> \in L
  BY <1>2, <1>7, SMTT(30) DEF RequestsOK
<1>9. \A u, v \in Pages : \A m \in DOMAIN g[u], k \in DOMAIN g[v] :
        Moves(g, u, m) /\ Moves(g, v, k) /\ g[u][m].slot = g[v][k].slot => u = v /\ m = k
  <2> SUFFICES ASSUME NEW u \in Pages, NEW v \in Pages, NEW m \in DOMAIN g[u], NEW k \in DOMAIN g[v],
                      Moves(g, u, m), Moves(g, v, k), g[u][m].slot = g[v][k].slot
               PROVE  u = v /\ m = k
    OBVIOUS
  <2>1. \/ m \in DOMAIN f[u] /\ g[u][m] = f[u][m]
        \/ u = p /\ m = N /\ g[u][m].slot = s
    BY <1>2, <1>7
  <2>2. \/ k \in DOMAIN f[v] /\ g[v][k] = f[v][k]
        \/ v = p /\ k = N /\ g[v][k].slot = s
    BY <1>2, <1>7
  <2>3. QED
    BY <2>1, <2>2 DEF RequestsOK, Moves
<1>10. RequestsOK(g, L)
  BY ONLY <1>8, <1>9, SMT DEF RequestsOK
<1>11. QED
  BY <1>5, <1>10

(* Loads that go on keep their requests in order. *)
LEMMA RequestsStay ==
  ASSUME NEW f \in AllRequests, NEW L, NEW M, RequestsOK(f, L),
         \A q \in Pages : \A n \in DOMAIN f[q] : Moves(f, q, n) =>
           \A p \in Pages : <<p, f[q][n].slot>> \in L => <<p, f[q][n].slot>> \in M
  PROVE  RequestsOK(f, M)
<1>1. \A q \in Pages : \A n \in DOMAIN f[q] :
        /\ f[q][n].kind = "evict" => \E p \in Pages : <<p, f[q][n].slot>> \in M
        /\ f[q][n].kind = "load" => <<q, f[q][n].slot>> \in M
  BY DEF RequestsOK, Moves
<1>2. QED
  BY <1>1 DEF RequestsOK

(* Where pages are: in the slot page_table names, and nowhere while they   *)
(* are being loaded.                                                       *)
MapInv == LoadedPageAbsent /\ PageInOneSlot

PoolInv ==
  /\ TypeOK
  /\ ListInv
  /\ MapInv
  /\ TransitRequests
  /\ SlotInv

LEMMA MapKept ==
  ASSUME MapInv, page_table' = page_table, \A x \in Slots : slot'[x].page = slot[x].page,
         \A x \in Slots : InTransit(x)' <=> InTransit(x),
         \A p \in Pages : Loading(p)' /\ resuming'.page # p => Loading(p) /\ resuming.page # p
  PROVE  MapInv'
BY DEF MapInv, LoadedPageAbsent, PageInOneSlot

LEMMA RequestsKept ==
  ASSUME TypeOK, TransitRequests, io' = io,
         \A q \in Pages : \A x \in Slots : ongoing[q].slot = x /\ resuming.page # q =>
           ongoing'[q].slot = x /\ resuming'.page # q
  PROVE  TransitRequests'
<1> PICK f, L, M : f = io /\ L = Underway /\ M = Underway'
  OBVIOUS
<1>1. f \in AllRequests /\ RequestsOK(f, L)
  BY DEF TypeOK, AllRequests, TransitRequests
<1>2. L \subseteq M
  BY DEF Underway
<1>3. RequestsOK(f, M)
  BY <1>1, <1>2, RequestsStay
<1>4. QED
  BY <1>3 DEF TransitRequests

LEMMA RunsOnType ==
  ASSUME TypeOK, NEW r \in Refs, RunsOn(r)
  PROVE  current' \subseteq Tasks \ Prefetchers
<1>1. r[1] \in Tasks
  BY PoolAssumption DEF Refs
<1>2. QED
  BY <1>1 DEF TypeOK, RunsOn

(* A coroutine asks for a page with a reference that is free.              *)
LEMMA FreeAsks ==
  ASSUME NEW r \in Refs, Asks(r)
  PROVE  ref[r].pc = "free" /\ \E p \in Pages : \E mode \in Modes : Acquire(r, p, mode)
BY DEF Asks, Reference, Create, MayRequest, Modes

-------------------------------------------------------------------------------
(***************************************************************************)
(* Every step preserves the invariant: the steps that take a page.         *)
(***************************************************************************)
LEMMA HitKeeps ==
  ASSUME PoolInv, NEW r \in Refs, NEW p \in Pages, NEW mode \in Modes,
         ref[r].pc = "free", Hit(r, p, mode)
  PROVE  PoolInv'
<1> DEFINE s == page_table[p]
<1>0. TypeOK /\ ListInv /\ MapInv /\ TransitRequests /\ SlotInv
  BY DEF PoolInv
<1>1. s \in Slots /\ slot[s] \in Headers
  BY <1>0 DEF Hit, TypeOK
<1>2. slot[s].page = p /\ ~InTransit(s)
  BY <1>0, <1>1 DEF MapInv, PageInOneSlot
<1>3. slot[s].queued => slot[s].lock_count = 0 /\ slot[s].used
  BY <1>0, <1>1, <1>2, PoolAssumption DEF SlotInv, QueuedMeansFree, PagesUsed
<1>4. slot[s].lock_count = Pins(s) + LoadPins(s)
  BY <1>0, <1>1 DEF SlotInv, PinsCounted
<1>5. zero_key # s
  BY <1>0, <1>1, <1>3, PoolAssumption DEF SlotInv, ZeroKeyQueued
<1>6. Construct(r, p, s, slot[s], mode) /\ UNCHANGED <<zero_key, page_table, ongoing, io, resuming>>
  BY DEF Hit
<1> PICK z \in Slots, h \in Headers : z = s /\ h = slot[s]
  BY <1>1
<1> HIDE DEF s
<1>7. Construct(r, p, z, h, mode)
  BY <1>6
<1>8. \A x \in Slots : InTransit(x)' <=> InTransit(x)
  BY <1>6 DEF InTransit
<1>9. \A x \in Slots : LoadPins(x)' = LoadPins(x)
  BY <1>6 DEF LoadPins
<1>10. SlotInv'
  BY <1>0, <1>2, <1>3, <1>4, <1>5, <1>6, <1>7, <1>8, <1>9, SlotGained
<1>11. /\ slot' \in [Slots -> Headers] /\ slot'[z].page = h.page
       /\ \A x \in Slots \ {z} : slot'[x] = slot[x]
       /\ ref' \in [Refs -> References] /\ \A x \in Refs \ {r} : ref'[x] = ref[x]
       /\ buffer' \in [Slots -> Data] /\ disk' \in [Pages -> Data] /\ live' \subseteq Pages
       /\ fault' \in {"none", "overflow", "mismatch"}
  BY <1>0, <1>7, Constructed
<1>12. ListInv'
  BY <1>0, <1>6, <1>11, ListsKept
<1>13. MapInv'
  BY <1>0, <1>6, <1>8, <1>11, MapKept DEF Loading
<1>14. TransitRequests'
  BY <1>0, <1>6, <1>8, RequestsKept
<1>15. RunsOn(r)
  BY DEF Hit
<1>16. TypeOK'
  BY <1>0, <1>6, <1>11, <1>15, RunsOnType DEF TypeOK
<1>17. QED
  BY <1>10, <1>12, <1>13, <1>14, <1>16 DEF PoolInv

LEMMA JoinKeeps ==
  ASSUME PoolInv, NEW r \in Refs, NEW p \in Pages, NEW mode \in Modes,
         ref[r].pc = "free", Join(r, p, mode)
  PROVE  PoolInv'
<1>0. TypeOK /\ ListInv /\ MapInv /\ TransitRequests /\ SlotInv
  BY DEF PoolInv
<1>1. /\ Loading(p) /\ resuming.page # p
      /\ ongoing' = [ongoing EXCEPT ![p].waiters = Append(@, r)]
      /\ UNCHANGED <<slot, zero_key, buffer, disk, page_table, io, resuming, live, fault>>
      /\ current' = current \ {r[1]}
  BY DEF Join, Stops
<1>2. /\ ref' \in [Refs -> References] /\ ref'[r].pc = "waiting" /\ ref'[r].page = p
      /\ ~ref'[r].is_lead /\ \A x \in Refs \ {r} : ref'[x] = ref[x]
  BY <1>0 DEF Join, Waits, TypeOK, References, Modes
<1>3. ListInv'
  BY <1>0, <1>1, <1>2, ListJoined
<1>4. /\ ongoing' \in [Pages -> [slot : Slots \cup {NoSlot}, waiters : Seq(Refs),
                                 is_new : BOOLEAN]]
      /\ \A q \in Pages : ongoing'[q].slot = ongoing[q].slot
  <2> DEFINE w == Append(ongoing[p].waiters, r)
  <2>1. w \in Seq(Refs)
    BY <1>0 DEF TypeOK
  <2>2. ongoing' = [ongoing EXCEPT ![p].waiters = w]
    BY <1>1
  <2> HIDE DEF w
  <2>3. QED
    BY <1>0, <2>1, <2>2, ZenonT(60) DEF TypeOK
<1>5. \A q \in Pages \ {p} : ongoing'[q] = ongoing[q]
  BY <1>0, <1>1 DEF TypeOK
<1>6. \A x \in Slots : InTransit(x)' <=> InTransit(x)
  BY <1>1, <1>4 DEF InTransit
<1>7. SlotInv'
  BY <1>0, <1>1, <1>2, <1>6, SlotsKept
<1>8. MapInv'
  BY <1>0, <1>1, <1>5, <1>6, MapKept DEF Loading
<1>9. TransitRequests'
  BY <1>0, <1>1, <1>4, <1>6, RequestsKept
<1>10. TypeOK'
  BY <1>0, <1>1, <1>2, <1>4 DEF TypeOK
<1>11. QED
  BY <1>3, <1>7, <1>8, <1>9, <1>10 DEF PoolInv

LEMMA JoinFinishedKeeps ==
  ASSUME PoolInv, NEW r \in Refs, NEW p \in Pages, NEW mode \in Modes,
         ref[r].pc = "free", JoinFinished(r, p, mode)
  PROVE  PoolInv'
<1>0. TypeOK /\ ListInv /\ MapInv /\ TransitRequests /\ SlotInv
  BY DEF PoolInv
<1>1. resuming.slot \in Slots /\ ongoing[p].slot = resuming.slot
  BY <1>0, PoolAssumption DEF JoinFinished, ListInv, ResumingOwnsLoad, NotResuming
<1>2. /\ Construct(r, p, resuming.slot, slot[resuming.slot], mode)
      /\ RunsOn(r) /\ UNCHANGED <<zero_key, page_table, ongoing, io, resuming>>
  BY <1>1 DEF JoinFinished
<1> PICK s \in Slots, h \in Headers : s = resuming.slot /\ h = slot[s]
  BY <1>0, <1>1 DEF TypeOK
<1>3. Construct(r, p, s, h, mode)
  BY <1>2
<1>4. ~h.queued /\ ~InTransit(s) /\ zero_key # s
  BY <1>0, PinnedSlot
<1>5. h.lock_count = Pins(s) + LoadPins(s)
  BY <1>0 DEF SlotInv, PinsCounted
<1>6. \A x \in Slots : (InTransit(x)' <=> InTransit(x)) /\ LoadPins(x)' = LoadPins(x)
  BY <1>2 DEF InTransit, LoadPins
<1>7. SlotInv'
  BY <1>0, <1>2, <1>3, <1>4, <1>5, <1>6, SlotGained
<1>8. /\ slot' \in [Slots -> Headers] /\ slot'[s].page = h.page
      /\ \A x \in Slots \ {s} : slot'[x] = slot[x]
      /\ ref' \in [Refs -> References] /\ \A x \in Refs \ {r} : ref'[x] = ref[x]
      /\ buffer' \in [Slots -> Data] /\ disk' \in [Pages -> Data] /\ live' \subseteq Pages
      /\ fault' \in {"none", "overflow", "mismatch"}
  BY <1>0, <1>3, Constructed
<1>9. ListInv'
  BY <1>0, <1>2, <1>8, ListsKept
<1>10. MapInv'
  BY <1>0, <1>2, <1>6, <1>8, MapKept DEF Loading
<1>11. TransitRequests'
  BY <1>0, <1>2, <1>6, RequestsKept
<1>12. TypeOK'
  BY <1>0, <1>2, <1>8, RunsOnType DEF TypeOK
<1>13. QED
  BY <1>7, <1>9, <1>10, <1>11, <1>12 DEF PoolInv

(* Slot s is chosen: its page is in memory no more.                        *)
LEMMA PageUnmapped ==
  ASSUME TypeOK, MapInv, NEW s \in Slots, ~InTransit(s)
  PROVE  /\ Unmapped(s) \in [Pages -> Slots \cup {NoSlot}]
         /\ \A q \in Pages : /\ page_table[q] = NoSlot => Unmapped(s)[q] = NoSlot
                             /\ Unmapped(s)[q] # s
         /\ \A x \in Slots \ {s} : \A q \in Pages : Unmapped(s)[q] = x <=> page_table[q] = x
<1>1. \A q \in Pages : page_table[q] = s <=> slot[s].page = q
  BY DEF MapInv, PageInOneSlot
<1>2. page_table \in [Pages -> Slots \cup {NoSlot}]
  BY DEF TypeOK
<1>3. QED
  BY <1>1, <1>2, PoolAssumption DEF Unmapped

LEMMA LeadSuspendsKeeps ==
  ASSUME PoolInv, fault = "none", NEW r \in Refs, NEW p \in Pages, NEW mode \in Modes,
         ref[r].pc = "free", page_table[p] = NoSlot, ~Loading(p), NEW s \in Victims,
         LeadSuspends(r, p, mode, s),
         zero_key' = IF s = zero_key THEN NoSlot ELSE zero_key, resuming' = resuming
  PROVE  PoolInv'
<1>0. TypeOK /\ ListInv /\ MapInv /\ TransitRequests /\ SlotInv
  BY DEF PoolInv
<1>1. /\ s \in Slots /\ s # NoSlot /\ ~InTransit(s) /\ resuming.slot # s
      /\ slot[s].is_dirty => slot[s].page \in Pages
  BY <1>0, VictimFree
<1>2. PICK u \in Pages, kind \in {"evict", "load"} :
        /\ io' = [io EXCEPT ![u] = Append(@, [kind |-> kind, slot |-> s])]
        /\ kind = "load" => u = p
  <2>1. CASE slot[s].is_dirty
    BY <1>1, <2>1 DEF LeadSuspends, Submit
  <2>2. CASE ~slot[s].is_dirty
    BY <2>2 DEF LeadSuspends, Submit
  <2>3. QED
    BY <2>1, <2>2
<1>3. PICK new \in BOOLEAN :
        ongoing' = [ongoing EXCEPT ![p] = [slot |-> s, waiters |-> <<r>>, is_new |-> new]]
  BY DEF LeadSuspends
<1>4. /\ slot' = [slot EXCEPT ![s].queued = FALSE]
      /\ page_table' = Unmapped(s) /\ current' = current \ {r[1]}
      /\ UNCHANGED <<buffer, disk, live, fault>>
  BY DEF LeadSuspends, Stops
<1>5. /\ ref' \in [Refs -> References] /\ ref'[r].pc = "waiting" /\ ref'[r].page = p
      /\ ref'[r].is_lead /\ \A x \in Refs \ {r} : ref'[x] = ref[x]
  BY <1>0 DEF LeadSuspends, Waits, TypeOK, References, Modes
<1>6. \A q \in Pages : ongoing[q].slot # s
  <2>1. ASSUME NEW q \in Pages, ongoing[q].slot = s
        PROVE  FALSE
    BY <1>0, <1>1, <2>1, PoolAssumption DEF InTransit, ListInv, ResumingOwnsLoad, NotResuming
  <2>2. QED
    BY <2>1
<1>7. ListInv' /\ resuming.page # p
  BY <1>0, <1>1, <1>3, <1>5, <1>6, ListStarted
<1>8. /\ ongoing' \in [Pages -> [slot : Slots \cup {NoSlot}, waiters : Seq(Refs),
                                 is_new : BOOLEAN]]
      /\ ongoing'[p].slot = s /\ \A q \in Pages \ {p} : ongoing'[q] = ongoing[q]
  <2>1. <<r>> \in Seq(Refs)
    OBVIOUS
  <2>2. QED
    BY <1>0, <1>1, <1>3, <2>1 DEF TypeOK
<1>9. ongoing[p].slot = NoSlot
  BY <1>0, LoadingIs DEF ListInv, Loading
<1>10. InTransit(s)' /\ \A x \in Slots \ {s} : InTransit(x)' <=> InTransit(x)
  BY <1>7, <1>8, <1>9, PoolAssumption DEF InTransit
<1>11. SlotInv'
  BY <1>0, <1>4, <1>5, <1>10, SlotTaken
<1>12. /\ slot' \in [Slots -> Headers] /\ \A x \in Slots : slot'[x].page = slot[x].page
  <2> DEFINE h == [slot[s] EXCEPT !.queued = FALSE]
  <2>0. slot[s] \in Headers
    BY <1>0, <1>1 DEF TypeOK
  <2>1. h \in Headers /\ h.page = slot[s].page
    BY <2>0 DEF Headers
  <2>2. slot' = [slot EXCEPT ![s] = h]
    BY <1>4
  <2> HIDE DEF h
  <2>3. QED
    BY <1>0, <1>1, <2>1, <2>2 DEF TypeOK
<1>13. MapInv'
  <2>1. LoadedPageAbsent'
    BY <1>0, <1>1, <1>4, <1>8, PageUnmapped DEF MapInv, LoadedPageAbsent, Loading
  <2>2. PageInOneSlot'
    BY <1>0, <1>1, <1>4, <1>10, <1>12, PageUnmapped DEF MapInv, PageInOneSlot
  <2>3. QED
    BY <2>1, <2>2 DEF MapInv
<1>14. TransitRequests' /\ io' \in AllRequests
  <2> PICK f, g, L, M : f = io /\ g = io' /\ L = Underway /\ M = Underway'
    OBVIOUS
  <2>1. f \in AllRequests /\ RequestsOK(f, L)
    BY <1>0 DEF TypeOK, AllRequests, TransitRequests
  <2>2. L \subseteq M /\ <<p, s>> \in M
    BY <1>1, <1>7, <1>8, <1>9, PoolAssumption DEF Underway
  <2>3. \A q \in Pages : <<q, s>> \notin L
    BY <1>1, UnderwayIs
  <2>4. \A q \in Pages : \A n \in DOMAIN f[q] : Moves(f, q, n) => f[q][n].slot # s
    BY <2>1, <2>3, MovesInTransit
  <2>5. RequestsOK(f, M)
    BY <2>1, <2>2, RequestsStay
  <2>6. g = Added(f, u, kind, s) /\ (kind = "load" => <<u, s>> \in M)
    BY <1>2, <2>2 DEF Added
  <2>7. g \in AllRequests /\ RequestsOK(g, M)
    <3>1. \E q \in Pages : <<q, s>> \in M
      BY <2>2
    <3>2. s \in Slots
      BY <1>1
    <3>3. QED
      BY ONLY <2>1, <2>4, <2>5, <2>6, <3>1, <3>2, RequestAdded
  <2>8. QED
    BY <2>7 DEF TransitRequests
<1>15. TypeOK'
  BY <1>0, <1>1, <1>4, <1>5, <1>8, <1>12, <1>14, PageUnmapped DEF TypeOK, AllRequests
<1>16. QED
  BY <1>7, <1>11, <1>13, <1>14, <1>15 DEF PoolInv

LEMMA LeadAtOnceKeeps ==
  ASSUME PoolInv, NEW r \in Refs, NEW p \in Pages, NEW mode \in Modes,
         ref[r].pc = "free", page_table[p] = NoSlot, ~Loading(p), NEW s \in Victims,
         LeadAtOnce(r, p, mode, s),
         zero_key' = IF s = zero_key THEN NoSlot ELSE zero_key, resuming' = resuming
  PROVE  PoolInv'
<1>0. TypeOK /\ ListInv /\ MapInv /\ TransitRequests /\ SlotInv
  BY DEF PoolInv
<1>1. s \in Slots /\ s # NoSlot /\ ~InTransit(s) /\ Pins(s) = 0 /\ resuming.slot # s
  BY <1>0, VictimFree
<1>2. /\ Construct(r, p, s, ResetHeader(p), mode)
      /\ page_table' = [Unmapped(s) EXCEPT ![p] = s]
      /\ RunsOn(r) /\ UNCHANGED <<ongoing, io>>
  BY DEF LeadAtOnce
<1> PICK h \in Headers : h = ResetHeader(p) /\ h.page = p /\ h.lock_count = 0 /\ ~h.queued
  BY ResetShape
<1>3. Construct(r, p, s, h, mode)
  BY <1>2
<1>4. \A x \in Slots : (InTransit(x)' <=> InTransit(x)) /\ LoadPins(x)' = LoadPins(x)
  BY <1>2 DEF InTransit, LoadPins
<1>5. SlotInv'
  <2>1. LoadPins(s)' = 0 /\ zero_key' # s /\ zero_key' \in {zero_key, NoSlot}
    BY <1>1, <1>4 DEF LoadPins
  <2>2. h.lock_count = Pins(s) + LoadPins(s)'
    BY <1>1, <2>1
  <2>3. QED
    BY <1>0, <1>1, <1>3, <1>4, <2>1, <2>2, SlotGained
<1>6. /\ slot' \in [Slots -> Headers] /\ slot'[s].page = p
      /\ \A x \in Slots \ {s} : slot'[x] = slot[x]
      /\ ref' \in [Refs -> References] /\ \A x \in Refs \ {r} : ref'[x] = ref[x]
      /\ buffer' \in [Slots -> Data] /\ disk' \in [Pages -> Data] /\ live' \subseteq Pages
      /\ fault' \in {"none", "overflow", "mismatch"}
  BY <1>0, <1>1, <1>3, Constructed
<1>7. ListInv'
  BY <1>0, <1>2, <1>6, ListsKept
<1>8. /\ page_table' \in [Pages -> Slots \cup {NoSlot}] /\ page_table'[p] = s
      /\ \A q \in Pages \ {p} : page_table'[q] = Unmapped(s)[q]
  BY <1>0, <1>1, <1>2, PageUnmapped
<1>9. MapInv'
  <2>1. LoadedPageAbsent'
    BY <1>0, <1>1, <1>2, <1>8, PageUnmapped DEF MapInv, LoadedPageAbsent, Loading
  <2>2. \A q \in Pages : page_table'[q] = s <=> slot'[s].page = q /\ ~InTransit(s)'
    BY <1>0, <1>1, <1>4, <1>6, <1>8, PageUnmapped
  <2>3. ASSUME NEW x \in Slots \ {s}, NEW q \in Pages
        PROVE  page_table'[q] = x <=> slot'[x].page = q /\ ~InTransit(x)'
    <3>1. page_table[q] = x <=> slot'[x].page = q /\ ~InTransit(x)'
      BY <1>0, <1>4, <1>6 DEF MapInv, PageInOneSlot
    <3>2. page_table'[q] = x <=> page_table[q] = x
      <4>1. CASE q = p
        BY <1>8, <4>1, PoolAssumption
      <4>2. CASE q # p
        BY <1>0, <1>1, <1>8, <4>2, PageUnmapped
      <4>3. QED
        BY <4>1, <4>2
    <3>3. QED
      BY <3>1, <3>2
  <2>4. QED
    BY <2>1, <2>2, <2>3 DEF MapInv, PageInOneSlot
<1>10. TransitRequests'
  BY <1>0, <1>2, RequestsKept
<1>11. TypeOK'
  <2>1. zero_key' \in Slots \cup {NoSlot}
    BY <1>0 DEF TypeOK
  <2>2. current' \subseteq Tasks \ Prefetchers
    BY <1>0, <1>2, RunsOnType
  <2>3. QED
    BY <1>0, <1>2, <1>6, <1>8, <2>1, <2>2 DEF TypeOK
<1>12. QED
  BY <1>5, <1>7, <1>9, <1>10, <1>11 DEF PoolInv

LEMMA OverflowKeeps ==
  ASSUME PoolInv, fault = "none", NEW p \in Pages, Overflow(p)
  PROVE  PoolInv'
<1>0. TypeOK /\ ListInv /\ MapInv /\ TransitRequests /\ SlotInv
  BY DEF PoolInv
<1>1. /\ fault' = "overflow"
      /\ UNCHANGED <<slot, zero_key, buffer, disk, page_table, ongoing, io, ref, resuming,
                     current, live>>
  BY DEF Overflow
<1>2. \A x \in Slots : InTransit(x)' <=> InTransit(x)
  BY <1>1 DEF InTransit
<1>3. SlotInv'
  BY <1>0, <1>1, <1>2, SlotsKept
<1>4. ListInv' /\ MapInv' /\ TransitRequests'
  BY <1>0, <1>1, <1>2, ListsKept, MapKept, RequestsKept DEF Loading
<1>5. TypeOK'
  BY <1>0, <1>1 DEF TypeOK
<1>6. QED
  BY <1>3, <1>4, <1>5 DEF PoolInv

LEMMA AskKeeps ==
  ASSUME PoolInv, fault = "none", NEW r \in Refs, Asks(r)
  PROVE  PoolInv'
<1>1. PICK p \in Pages, mode \in Modes : ref[r].pc = "free" /\ Acquire(r, p, mode)
  BY FreeAsks
<1>2. CASE Lead(r, p, mode)
  <2>1. PICK s \in Victims :
          /\ LeadSuspends(r, p, mode, s) \/ LeadAtOnce(r, p, mode, s)
          /\ zero_key' = IF s = zero_key THEN NoSlot ELSE zero_key
    BY <1>2 DEF Lead
  <2>2. page_table[p] = NoSlot /\ ~Loading(p) /\ resuming' = resuming
    BY <1>2 DEF Lead
  <2>3. QED
    BY <1>1, <2>1, <2>2, LeadSuspendsKeeps, LeadAtOnceKeeps
<1>3. QED
  BY <1>1, <1>2, HitKeeps, JoinKeeps, JoinFinishedKeeps, OverflowKeeps DEF Acquire

-------------------------------------------------------------------------------
(***************************************************************************)
(* The disk's steps, and the resumption of those who waited.               *)
(***************************************************************************)

(* With an empty stack every load is under way.                            *)
LEMMA ServedStack ==
  ASSUME TypeOK, ListInv, NEW q \in Pages, NEW n \in DOMAIN io[q], NEW kind, Serves(q, n, kind)
  PROVE  /\ resuming = NotResuming /\ io[q][n].kind = kind /\ io[q][n].slot \in Slots
         /\ io \in AllRequests
<1>1. io[q][n] \in Requests /\ io \in AllRequests
  BY DEF TypeOK, AllRequests
<1>2. QED
  BY <1>1, NobodyResumed DEF Serves, StackEmpty, Requests

LEMMA LoadOver ==
  ASSUME PoolInv, resuming = NotResuming, NEW p \in Pages, NEW s \in Slots,
         ongoing[p].slot = s, FinishLoad(p, s), UNCHANGED <<zero_key, ref, fault>>
  PROVE  /\ ListInv' /\ MapInv' /\ SlotInv'
         /\ slot' \in [Slots -> Headers]
         /\ page_table' \in [Pages -> Slots \cup {NoSlot}]
         /\ ongoing' \in [Pages -> [slot : Slots \cup {NoSlot}, waiters : Seq(Refs),
                                    is_new : BOOLEAN]]
         /\ resuming' \in [slot : Slots \cup {NoSlot}, page : Pages \cup {NoPage},
                           waiters : Seq(Refs)]
         /\ \A q \in Pages : \A x \in Slots \ {s} : <<q, x>> \in Underway => <<q, x>> \in Underway'
<1>0. TypeOK /\ ListInv /\ MapInv /\ TransitRequests /\ SlotInv
  BY DEF PoolInv
<1>1. /\ slot' = [slot EXCEPT ![s] = [ResetHeader(p) EXCEPT !.lock_count = 1]]
      /\ page_table' = [page_table EXCEPT ![p] = s]
      /\ resuming' = [slot |-> s, page |-> p, waiters |-> ongoing[p].waiters]
      /\ ongoing' = [ongoing EXCEPT ![p].waiters = <<>>]
  BY DEF FinishLoad
<1>2. /\ ListInv' /\ resuming'.page = p /\ resuming'.slot = s
      /\ \A q \in Pages : ongoing'[q].slot = ongoing[q].slot
  BY <1>0, ListTaken
<1>3. \A q \in Pages : resuming.page # q
  BY PoolAssumption DEF NotResuming
<1>4. \A q \in Pages : ongoing[q].slot = s => q = p
  BY <1>0, PoolAssumption DEF ListInv, LoadsApart
<1>5. /\ InTransit(s) /\ ~InTransit(s)'
      /\ \A x \in Slots \ {s} : InTransit(x)' <=> InTransit(x)
  BY <1>2, <1>3, <1>4 DEF InTransit
<1>6. /\ SlotInv' /\ slot' \in [Slots -> Headers] /\ slot'[s].page = p
      /\ \A x \in Slots \ {s} : slot'[x] = slot[x]
  BY <1>0, <1>1, <1>2, <1>5, SlotLoaded
<1>7. /\ page_table' \in [Pages -> Slots \cup {NoSlot}] /\ page_table'[p] = s
      /\ \A q \in Pages \ {p} : page_table'[q] = page_table[q]
  BY <1>0, <1>1 DEF TypeOK
<1>8. page_table[p] = NoSlot /\ \A q \in Pages : page_table[q] # s
  <2>1. Loading(p)
    BY <1>0, LoadingIs DEF ListInv
  <2>2. QED
    BY <1>0, <1>3, <1>5, <2>1 DEF MapInv, LoadedPageAbsent, PageInOneSlot
<1>9. /\ ongoing' \in [Pages -> [slot : Slots \cup {NoSlot}, waiters : Seq(Refs),
                                 is_new : BOOLEAN]]
      /\ \A q \in Pages \ {p} : ongoing'[q] = ongoing[q]
  <2>0. <<>> \in Seq(Refs)
    OBVIOUS
  <2> PICK w \in Seq(Refs) : w = <<>>
    BY <2>0
  <2>1. ongoing' = [ongoing EXCEPT ![p].waiters = w]
    BY <1>1
  <2>2. QED
    BY <1>0, <2>1, ZenonT(60) DEF TypeOK
<1>10. MapInv'
  <2>1. LoadedPageAbsent'
    BY <1>0, <1>2, <1>3, <1>7, <1>9 DEF MapInv, LoadedPageAbsent, Loading
  <2>2. \A q \in Pages : page_table'[q] = s <=> slot'[s].page = q /\ ~InTransit(s)'
    BY <1>5, <1>6, <1>7, <1>8
  <2>3. ASSUME NEW x \in Slots \ {s}, NEW q \in Pages
        PROVE  page_table'[q] = x <=> slot'[x].page = q /\ ~InTransit(x)'
    <3>1. page_table[q] = x <=> slot'[x].page = q /\ ~InTransit(x)'
      BY <1>0, <1>5, <1>6 DEF MapInv, PageInOneSlot
    <3>2. page_table'[q] = x <=> page_table[q] = x
      BY <1>7, <1>8, PoolAssumption
    <3>3. QED
      BY <3>1, <3>2
  <2>4. QED
    BY <2>1, <2>2, <2>3 DEF MapInv, PageInOneSlot
<1>11. resuming' \in [slot : Slots \cup {NoSlot}, page : Pages \cup {NoPage}, waiters : Seq(Refs)]
  BY <1>0, <1>1 DEF TypeOK
<1>12. \A q \in Pages : \A x \in Slots \ {s} : <<q, x>> \in Underway => <<q, x>> \in Underway'
  BY <1>2, <1>4 DEF Underway
<1>13. QED
  BY <1>2, <1>6, <1>7, <1>9, <1>10, <1>11, <1>12

(* A request on a slot is served, and its load ends.                       *)
LEMMA LastRequest ==
  ASSUME NEW f \in AllRequests, NEW L, NEW M, RequestsOK(f, L), NEW q \in Pages,
         NEW n \in DOMAIN f[q], Moves(f, q, n), NEW s, s = f[q][n].slot,
         \A u \in Pages : \A x \in Slots \ {s} : <<u, x>> \in L => <<u, x>> \in M,
         NEW g, g = Served(f, q, n)
  PROVE  g \in AllRequests /\ RequestsOK(g, M)
<1>1. /\ g \in AllRequests /\ RequestsOK(g, L)
      /\ \A u \in Pages : \A m \in DOMAIN g[u] : Moves(g, u, m) => g[u][m].slot # s
  BY RequestServed
<1>2. \A u \in Pages : \A m \in DOMAIN g[u] : Moves(g, u, m) => g[u][m].slot \in Slots
  BY <1>1, MovesInTransit
<1>3. \A u \in Pages : \A m \in DOMAIN g[u] : Moves(g, u, m) =>
        \A p \in Pages : <<p, g[u][m].slot>> \in L => <<p, g[u][m].slot>> \in M
  <2> SUFFICES ASSUME NEW u \in Pages, NEW m \in DOMAIN g[u], Moves(g, u, m), NEW p \in Pages,
                      NEW x, x = g[u][m].slot, <<p, x>> \in L
               PROVE  <<p, x>> \in M
    BY Zenon
  <2>1. x \in Slots \ {s}
    BY <1>1, <1>2
  <2>2. QED
    BY <2>1
<1>4. QED
  BY <1>1, <1>3, RequestsStay, Zenon

LEMMA WrittenType ==
  ASSUME TypeOK, NEW q \in Pages, NEW s \in Slots, Written(q, s)
  PROVE  disk' \in [Pages -> Data]
BY DEF TypeOK, Written

LEMMA LoadReadKeeps ==
  ASSUME PoolInv, NEW q \in Pages, NEW n \in DOMAIN io[q], LoadRead(q, n)
  PROVE  PoolInv'
<1>0. TypeOK /\ ListInv /\ MapInv /\ TransitRequests /\ SlotInv
  BY DEF PoolInv
<1> PICK s : s = io[q][n].slot
  OBVIOUS
<1>1. /\ Serves(q, n, "load") /\ buffer' = [buffer EXCEPT ![s] = disk[q]]
      /\ io' = [io EXCEPT ![q] = RemoveAt(@, n)] /\ FinishLoad(q, s)
      /\ UNCHANGED <<zero_key, disk, ref, current, live, fault>>
  BY DEF LoadRead
<1>2. resuming = NotResuming /\ io[q][n].kind = "load" /\ s \in Slots /\ io \in AllRequests
  BY <1>0, <1>1, ServedStack
<1>3. ongoing[q].slot = s
  <2>1. <<q, s>> \in Underway
    BY <1>0, <1>2 DEF TransitRequests, RequestsOK
  <2>2. QED
    BY <1>2, <2>1, UnderwayIs
<1>4. /\ ListInv' /\ MapInv' /\ SlotInv'
      /\ slot' \in [Slots -> Headers]
      /\ page_table' \in [Pages -> Slots \cup {NoSlot}]
      /\ ongoing' \in [Pages -> [slot : Slots \cup {NoSlot}, waiters : Seq(Refs),
                                 is_new : BOOLEAN]]
      /\ resuming' \in [slot : Slots \cup {NoSlot}, page : Pages \cup {NoPage},
                        waiters : Seq(Refs)]
      /\ \A u \in Pages : \A x \in Slots \ {s} : <<u, x>> \in Underway => <<u, x>> \in Underway'
  BY <1>1, <1>2, <1>3, LoadOver
<1>5. TransitRequests' /\ io' \in AllRequests
  <2> PICK f, g, L, M : f = io /\ g = io' /\ L = Underway /\ M = Underway'
    OBVIOUS
  <2>1. f \in AllRequests /\ RequestsOK(f, L) /\ Moves(f, q, n)
    BY <1>0, <1>2 DEF TransitRequests, Moves
  <2>2. g \in AllRequests /\ RequestsOK(g, M)
    <3>1. \A u \in Pages : \A x \in Slots \ {s} : <<u, x>> \in L => <<u, x>> \in M
      BY <1>4
    <3>2. n \in DOMAIN f[q] /\ s = f[q][n].slot /\ g = Served(f, q, n)
      BY <1>1 DEF Served
    <3>3. QED
      BY <2>1, <3>1, <3>2, LastRequest, Zenon
  <2>3. QED
    BY <2>2 DEF TransitRequests
<1>6. buffer' \in [Slots -> Data]
  BY <1>0, <1>1, <1>2 DEF TypeOK
<1>7. TypeOK'
  BY <1>0, <1>1, <1>4, <1>5, <1>6 DEF TypeOK, AllRequests
<1>8. QED
  BY <1>4, <1>5, <1>7 DEF PoolInv

LEMMA EvictWrittenKeeps ==
  ASSUME PoolInv, NEW q \in Pages, NEW n \in DOMAIN io[q], EvictWritten(q, n)
  PROVE  PoolInv'
<1>0. TypeOK /\ ListInv /\ MapInv /\ TransitRequests /\ SlotInv
  BY DEF PoolInv
<1> PICK s : s = io[q][n].slot
  OBVIOUS
<1>1. PICK p \in Pages :
        /\ ongoing[p].slot = s
        /\ \/ /\ io' = [io EXCEPT ![q] = RemoveAt(@, n)]
              /\ buffer' = [buffer EXCEPT ![s] = Blank]
              /\ FinishLoad(p, s)
           \/ /\ io' = [[io EXCEPT ![q] = RemoveAt(@, n)] EXCEPT
                          ![p] = Append(@, [kind |-> "load", slot |-> s])]
              /\ slot' = [slot EXCEPT ![s].is_dirty = FALSE]
              /\ UNCHANGED <<buffer, page_table, ongoing, resuming>>
  BY DEF EvictWritten
<1>2. Serves(q, n, "evict") /\ Written(q, s) /\ UNCHANGED <<zero_key, ref, current, live, fault>>
  BY DEF EvictWritten
<1>3. resuming = NotResuming /\ io[q][n].kind = "evict" /\ s \in Slots /\ io \in AllRequests
  BY <1>0, <1>2, ServedStack
<1>4. disk' \in [Pages -> Data]
  BY <1>0, <1>2, <1>3, WrittenType
<1>5. CASE /\ io' = [io EXCEPT ![q] = RemoveAt(@, n)]
           /\ buffer' = [buffer EXCEPT ![s] = Blank]
           /\ FinishLoad(p, s)
  <2>1. /\ ListInv' /\ MapInv' /\ SlotInv'
        /\ slot' \in [Slots -> Headers]
        /\ page_table' \in [Pages -> Slots \cup {NoSlot}]
        /\ ongoing' \in [Pages -> [slot : Slots \cup {NoSlot}, waiters : Seq(Refs),
                                   is_new : BOOLEAN]]
        /\ resuming' \in [slot : Slots \cup {NoSlot}, page : Pages \cup {NoPage},
                          waiters : Seq(Refs)]
        /\ \A u \in Pages : \A x \in Slots \ {s} : <<u, x>> \in Underway => <<u, x>> \in Underway'
    BY <1>1, <1>2, <1>3, <1>5, LoadOver
  <2>2. TransitRequests' /\ io' \in AllRequests
    <3> PICK f, g, L, M : f = io /\ g = io' /\ L = Underway /\ M = Underway'
      OBVIOUS
    <3>1. f \in AllRequests /\ RequestsOK(f, L) /\ Moves(f, q, n)
      BY <1>0, <1>3 DEF TransitRequests, Moves
    <3>2. \A u \in Pages : \A x \in Slots \ {s} : <<u, x>> \in L => <<u, x>> \in M
      BY <2>1
    <3>3. n \in DOMAIN f[q] /\ s = f[q][n].slot /\ g = Served(f, q, n)
      BY <1>5 DEF Served
    <3>4. g \in AllRequests /\ RequestsOK(g, M)
      BY <3>1, <3>2, <3>3, LastRequest, ZenonT(40)
    <3>5. QED
      BY <3>4 DEF TransitRequests
  <2>3. buffer' \in [Slots -> Data]
    BY <1>0, <1>3, <1>5 DEF TypeOK, Blank, Data
  <2>4. TypeOK'
    BY <1>0, <1>2, <1>4, <2>1, <2>2, <2>3 DEF TypeOK, AllRequests
  <2>5. QED
    BY <2>1, <2>2, <2>4 DEF PoolInv
<1>6. CASE /\ io' = [[io EXCEPT ![q] = RemoveAt(@, n)] EXCEPT
                       ![p] = Append(@, [kind |-> "load", slot |-> s])]
           /\ slot' = [slot EXCEPT ![s].is_dirty = FALSE]
           /\ UNCHANGED <<buffer, page_table, ongoing, resuming>>
  <2>1. /\ slot' \in [Slots -> Headers]
        /\ \A x \in Slots :
             /\ slot'[x].page = slot[x].page /\ slot'[x].lock_count = slot[x].lock_count
             /\ slot'[x].used = slot[x].used /\ slot'[x].queued = slot[x].queued
             /\ slot'[x].is_dirty => slot[x].is_dirty
    <3> DEFINE h == [slot[s] EXCEPT !.is_dirty = FALSE]
    <3>1. slot[s] \in Headers
      BY <1>0, <1>3 DEF TypeOK
    <3>2. /\ h \in Headers /\ ~h.is_dirty
          /\ h.page = slot[s].page /\ h.lock_count = slot[s].lock_count
          /\ h.used = slot[s].used /\ h.queued = slot[s].queued
      BY <3>1 DEF Headers
    <3>3. slot' = [slot EXCEPT ![s] = h]
      BY <1>6
    <3> HIDE DEF h
    <3>4. slot' \in [Slots -> Headers] /\ slot'[s] = h /\ \A x \in Slots \ {s} : slot'[x] = slot[x]
      BY <1>0, <1>3, <3>2, <3>3 DEF TypeOK
    <3>5. QED
      BY <3>2, <3>4
  <2>2. \A x \in Slots : InTransit(x)' <=> InTransit(x)
    BY <1>6 DEF InTransit
  <2>3. SlotInv'
    BY <1>0, <1>2, <1>6, <2>1, <2>2, SlotsKept
  <2>4. ListInv'
    BY <1>0, <1>2, <1>6, ListsKept
  <2>5. MapInv'
    BY <1>0, <1>6, <2>1, <2>2, MapKept DEF Loading
  <2>6. TransitRequests' /\ io' \in AllRequests
    <3> PICK f, g, h, L : f = io /\ g = io' /\ h = Served(f, q, n) /\ L = Underway
      OBVIOUS
    <3>1. f \in AllRequests /\ RequestsOK(f, L) /\ Moves(f, q, n) /\ n \in DOMAIN f[q]
      BY <1>0, <1>3 DEF TransitRequests, Moves
    <3>2. /\ h \in AllRequests /\ RequestsOK(h, L)
          /\ \A u \in Pages : \A m \in DOMAIN h[u] : Moves(h, u, m) => h[u][m].slot # s
      BY <3>1, RequestServed
    <3>3. resuming.page # p
      BY <1>3, PoolAssumption DEF NotResuming
    <3>4. <<p, s>> \in L
      BY <1>1, <1>3, <3>3, UnderwayIs
    <3>5. g = Added(h, p, "load", s)
      BY <1>6 DEF Served, Added
    <3>6. g \in AllRequests /\ RequestsOK(g, L)
      BY <1>3, <3>2, <3>4, <3>5, RequestAdded
    <3>7. Underway' = L
      BY <1>6 DEF Underway
    <3>8. QED
      BY <3>6, <3>7 DEF TransitRequests
  <2>7. TypeOK'
    BY <1>0, <1>2, <1>4, <1>6, <2>1, <2>6 DEF TypeOK, AllRequests
  <2>8. QED
    BY <2>3, <2>4, <2>5, <2>6, <2>7 DEF PoolInv
<1>7. QED
  BY <1>1, <1>5, <1>6

LEMMA FlushWrittenKeeps ==
  ASSUME PoolInv, NEW q \in Pages, NEW n \in DOMAIN io[q], FlushWritten(q, n)
  PROVE  PoolInv'
<1>0. TypeOK /\ ListInv /\ MapInv /\ TransitRequests /\ SlotInv
  BY DEF PoolInv
<1>1. /\ Serves(q, n, "flush") /\ Written(q, io[q][n].slot)
      /\ io' = [io EXCEPT ![q] = RemoveAt(@, n)]
      /\ UNCHANGED <<slot, zero_key, buffer, page_table, ongoing, ref, resuming,
                     current, live, fault>>
  BY DEF FlushWritten
<1>2. disk' \in [Pages -> Data]
  BY <1>0, <1>1, ServedStack, WrittenType
<1>3. \A x \in Slots : InTransit(x)' <=> InTransit(x)
  BY <1>1 DEF InTransit
<1>4. SlotInv'
  BY <1>0, <1>1, <1>3, SlotsKept
<1>5. ListInv' /\ MapInv'
  BY <1>0, <1>1, <1>3, ListsKept, MapKept DEF Loading
<1>6. TransitRequests' /\ io' \in AllRequests
  <2> PICK f, g, L : f = io /\ g = io' /\ L = Underway
    OBVIOUS
  <2>1. f \in AllRequests /\ RequestsOK(f, L) /\ n \in DOMAIN f[q]
    BY <1>0 DEF TransitRequests, TypeOK, AllRequests
  <2>2. g = Served(f, q, n)
    BY <1>1 DEF Served
  <2>3. g \in AllRequests /\ RequestsOK(g, L)
    BY <2>1, <2>2, RequestServed
  <2>4. Underway' = L
    BY <1>1 DEF Underway
  <2>5. QED
    BY <2>3, <2>4 DEF TransitRequests
<1>7. TypeOK'
  BY <1>0, <1>1, <1>2, <1>6 DEF TypeOK, AllRequests
<1>8. QED
  BY <1>4, <1>5, <1>6, <1>7 DEF PoolInv

(* The header as the waiter finds it.                                      *)
LEMMA UnpinnedShape ==
  ASSUME TypeOK, SlotInv, NEW s \in Slots, s = resuming.slot, NEW r
  PROVE  /\ Unpinned(r) \in Headers /\ Unpinned(r).page = slot[s].page
         /\ ~Unpinned(r).queued
         /\ Unpinned(r).lock_count = Pins(s) + (IF ref[r].is_lead THEN 0 ELSE 1)
<1>1. slot[s] \in Headers /\ slot[s].lock_count \in Nat /\ Pins(s) \in Nat
  BY CountsNatural
<1>2. ~slot[s].queued /\ slot[s].lock_count = Pins(s) + 1
  BY PinnedSlot DEF SlotInv, PinsCounted, LoadPins
<1> DEFINE n == IF ref[r].is_lead THEN slot[s].lock_count - 1 ELSE slot[s].lock_count
<1>3. Unpinned(r) = [slot[s] EXCEPT !.lock_count = n]
  BY DEF Unpinned
<1>4. n \in Nat /\ n = Pins(s) + (IF ref[r].is_lead THEN 0 ELSE 1)
  BY <1>1, <1>2
<1> HIDE DEF n
<1>5. /\ Unpinned(r) \in Headers /\ Unpinned(r).page = slot[s].page
      /\ Unpinned(r).queued = slot[s].queued /\ Unpinned(r).lock_count = n
  BY <1>1, <1>3, <1>4 DEF Headers
<1>6. QED
  BY <1>2, <1>4, <1>5

LEMMA ResumeKeeps ==
  ASSUME PoolInv, Resume
  PROVE  PoolInv'
<1>0. TypeOK /\ ListInv /\ MapInv /\ TransitRequests /\ SlotInv
  BY DEF PoolInv
<1>1. resuming.waiters # <<>>
  BY DEF Resume
<1> PICK r, p, s, h : /\ r = Last(resuming.waiters) /\ p = resuming.page
                      /\ s = resuming.slot /\ h = Unpinned(r)
  OBVIOUS
<1>2. /\ Construct(r, p, s, h, ref[r].mode)
      /\ ongoing' = IF ref[r].is_lead THEN [ongoing EXCEPT ![resuming.page] = NoLoad]
                    ELSE ongoing
      /\ resuming' = IF Front(resuming.waiters) = <<>> THEN NotResuming
                     ELSE [resuming EXCEPT !.waiters = Front(resuming.waiters)]
      /\ RunsOn(r) /\ UNCHANGED <<zero_key, page_table, io>>
  BY DEF Resume, ResumeWaiter
<1>3. /\ resuming.waiters \in Seq(Refs) /\ r \in Refs
      /\ Front(resuming.waiters) \in Seq(Refs)
  BY <1>0, <1>1, FrontIs DEF TypeOK
<1>4. p \in Pages /\ s \in Slots /\ ongoing[p].slot = s
  BY <1>0, <1>1 DEF ListInv, ResumingOwnsLoad, NotResuming
<1> PICK mode \in Modes : mode = ref[r].mode
  BY <1>0, <1>3 DEF TypeOK, References, Modes
<1>5. /\ h \in Headers /\ h.page = slot[s].page /\ ~h.queued
      /\ h.lock_count = Pins(s) + (IF ref[r].is_lead THEN 0 ELSE 1)
  BY <1>0, <1>4, UnpinnedShape
<1>6. Construct(r, p, s, h, mode)
  BY <1>2
<1>7. /\ slot' \in [Slots -> Headers] /\ slot'[s].page = h.page
      /\ \A x \in Slots \ {s} : slot'[x] = slot[x]
      /\ ref' \in [Refs -> References] /\ ref'[r].pc = "held"
      /\ \A x \in Refs \ {r} : ref'[x] = ref[x]
      /\ buffer' \in [Slots -> Data] /\ disk' \in [Pages -> Data] /\ live' \subseteq Pages
      /\ fault' \in {"none", "overflow", "mismatch"}
  BY <1>0, <1>3, <1>4, <1>5, <1>6, Constructed
<1>8. /\ ListInv' /\ ref[r].pc = "waiting"
      /\ \/ /\ ref[r].is_lead /\ resuming' = NotResuming
            /\ ongoing' = [ongoing EXCEPT ![p] = NoLoad]
         \/ /\ ~ref[r].is_lead /\ ongoing' = ongoing
            /\ resuming'.page = p /\ resuming'.slot = s
  <2>1. ref'[r].pc # "waiting"
    BY <1>7
  <2>2. QED
    BY <1>0, <1>1, <1>2, <1>7, <2>1, ListShortened
<1>9. /\ ongoing' \in [Pages -> [slot : Slots \cup {NoSlot}, waiters : Seq(Refs),
                                 is_new : BOOLEAN]]
      /\ \A q \in Pages \ {p} : ongoing'[q] = ongoing[q]
      /\ resuming'.page \in {p, NoPage}
      /\ ongoing'[p].slot \in {s, NoSlot} /\ (ongoing'[p].slot = s => resuming'.page = p)
  <2>0. <<>> \in Seq(Refs)
    OBVIOUS
  <2>1. NoLoad \in [slot : Slots \cup {NoSlot}, waiters : Seq(Refs), is_new : BOOLEAN]
        /\ NoLoad.slot = NoSlot /\ NotResuming.page = NoPage
    BY <2>0 DEF NoLoad, NotResuming
  <2>2. ongoing \in [Pages -> [slot : Slots \cup {NoSlot}, waiters : Seq(Refs), is_new : BOOLEAN]]
    BY <1>0 DEF TypeOK
  <2>3. CASE ref[r].is_lead
    <3>1. resuming'.page = NoPage /\ ongoing' = [ongoing EXCEPT ![p] = NoLoad]
      BY <1>8, <2>1, <2>3
    <3> HIDE DEF NoLoad
    <3>2. /\ ongoing' \in [Pages -> [slot : Slots \cup {NoSlot}, waiters : Seq(Refs),
                                      is_new : BOOLEAN]]
          /\ ongoing'[p] = NoLoad /\ \A q \in Pages \ {p} : ongoing'[q] = ongoing[q]
      BY <1>4, <2>1, <2>2, <3>1
    <3>3. ongoing'[p].slot = NoSlot /\ s # NoSlot
      BY <1>4, <2>1, <3>2, PoolAssumption
    <3>4. QED
      BY <3>1, <3>2, <3>3
  <2>4. CASE ~ref[r].is_lead
    BY <1>4, <1>8, <2>2, <2>4
  <2>5. QED
    BY <2>3, <2>4
<1>10. \A q \in Pages : \A x \in Slots :
         /\ ongoing[q].slot = x /\ resuming.page # q
            <=> ongoing'[q].slot = x /\ resuming'.page # q
  BY <1>4, <1>9, PoolAssumption
<1>11. \A x \in Slots : InTransit(x)' <=> InTransit(x)
  BY <1>10 DEF InTransit
<1>12. ~InTransit(s) /\ zero_key # s
  BY <1>0, <1>4, PinnedSlot
<1>13. /\ LoadPins(s)' = IF ref[r].is_lead THEN 0 ELSE 1
       /\ \A x \in Slots \ {s} : LoadPins(x)' = LoadPins(x)
  BY <1>4, <1>8, PoolAssumption DEF LoadPins, NotResuming
<1>14. SlotInv'
  <2>1. h.lock_count = Pins(s) + LoadPins(s)'
    BY <1>5, <1>13
  <2>2. ref[r].pc # "held" /\ zero_key' = zero_key
    BY <1>2, <1>8
  <2>3. QED
    BY <1>0, <1>3, <1>4, <1>5, <1>6, <1>11, <1>12, <1>13, <2>1, <2>2, SlotGained
<1>15. MapInv'
  <2>1. \A x \in Slots : slot'[x].page = slot[x].page
    BY <1>5, <1>7
  <2>2. \A q \in Pages : Loading(q)' /\ resuming'.page # q => Loading(q) /\ resuming.page # q
    <3>1. CASE ref[r].is_lead
      <4>1. ongoing'[p] = NoLoad
        BY <1>0, <1>4, <1>8, <3>1 DEF TypeOK
      <4>2. QED
        BY <1>9, <4>1 DEF Loading
    <3>2. CASE ~ref[r].is_lead
      BY <1>8, <1>9, <3>2 DEF Loading
    <3>3. QED
      BY <3>1, <3>2
  <2>3. QED
    BY <1>0, <1>2, <1>11, <2>1, <2>2, MapKept
<1>16. TransitRequests'
  BY <1>0, <1>2, <1>10, RequestsKept
<1>17. TypeOK'
  <2>1. resuming' \in [slot : Slots \cup {NoSlot}, page : Pages \cup {NoPage},
                       waiters : Seq(Refs)]
    <3>0. <<>> \in Seq(Refs)
      OBVIOUS
    <3>1. NotResuming \in [slot : Slots \cup {NoSlot}, page : Pages \cup {NoPage},
                           waiters : Seq(Refs)]
      BY <3>0 DEF NotResuming
    <3>2. QED
      BY <1>0, <1>2, <1>3, <3>1 DEF TypeOK
  <2>2. current' \subseteq Tasks \ Prefetchers
    BY <1>0, <1>2, <1>3, RunsOnType
  <2>3. QED
    BY <1>0, <1>2, <1>7, <1>9, <2>1, <2>2 DEF TypeOK
<1>18. QED
  BY <1>8, <1>14, <1>15, <1>16, <1>17 DEF PoolInv

-------------------------------------------------------------------------------
(***************************************************************************)
(* What coroutines do with their references, the flush, and a restart.     *)
(***************************************************************************)
LEMMA ReleaseKeeps ==
  ASSUME PoolInv, NEW r \in Refs, ref[r].pc = "held",
         unlock_slot(ref[r].slot, slot[ref[r].slot]), ref' = [ref EXCEPT ![r] = FreeRef],
         UNCHANGED <<buffer, disk, page_table, ongoing, io, resuming, live, fault>>,
         current' \subseteq Tasks \ Prefetchers
  PROVE  PoolInv'
<1>0. TypeOK /\ ListInv /\ MapInv /\ TransitRequests /\ SlotInv
  BY DEF PoolInv
<1> PICK s : s = ref[r].slot
  OBVIOUS
<1>1. s \in Slots
  BY <1>0 DEF SlotInv, HeldSlots
<1>2. /\ ref' \in [Refs -> References] /\ ref'[r].pc = "free"
      /\ \A x \in Refs \ {r} : ref'[x] = ref[x]
  BY <1>0 DEF TypeOK, FreeRef, References
<1>3. unlock_slot(s, slot[s])
  OBVIOUS
<1>4. /\ SlotInv' /\ slot' \in [Slots -> Headers] /\ slot'[s].page = slot[s].page
      /\ \A x \in Slots \ {s} : slot'[x] = slot[x]
  <2>1. ref'[r].pc # "held"
    BY <1>2
  <2>2. QED
    BY <1>0, <1>2, <1>3, <2>1, SlotReleased
<1>5. ListInv'
  BY <1>0, <1>2, ListsKept
<1>6. MapInv' /\ TransitRequests'
  <2>1. \A x \in Slots : InTransit(x)' <=> InTransit(x)
    BY DEF InTransit
  <2>2. MapInv'
    BY <1>0, <1>4, <2>1, MapKept DEF Loading
  <2>3. QED
    BY <1>0, <2>2, RequestsKept
<1>7. zero_key' \in Slots \cup {NoSlot}
  BY <1>0, <1>1, <1>3 DEF unlock_slot, TypeOK
<1>8. TypeOK'
  BY <1>0, <1>2, <1>4, <1>7 DEF TypeOK
<1>9. QED
  BY <1>4, <1>5, <1>6, <1>8 DEF PoolInv

LEMMA DropKeeps ==
  ASSUME PoolInv, NEW r \in Refs, Drop(r) \/ Finish(r) \/ EndPrefetch(r)
  PROVE  PoolInv'
<1>1. current \subseteq Tasks \ Prefetchers
  BY DEF PoolInv, TypeOK
<1>2. CASE Drop(r)
  BY <1>1, <1>2, ReleaseKeeps DEF Drop, Release
<1>3. CASE Finish(r)
  BY <1>1, <1>3, ReleaseKeeps DEF Finish, Release
<1>4. CASE EndPrefetch(r)
  <2>1. current' = current \/ current' = {t \in Tasks : AwaitsPrefetch(t)}
    BY <1>4 DEF EndPrefetch
  <2>2. current' \subseteq Tasks \ Prefetchers
    BY <1>1, <2>1 DEF AwaitsPrefetch
  <2>3. QED
    BY <1>4, <2>2, ReleaseKeeps DEF EndPrefetch
<1>5. QED
  BY <1>2, <1>3, <1>4

LEMMA WriteKeeps ==
  ASSUME PoolInv, NEW r \in Refs, Write(r)
  PROVE  PoolInv'
<1>0. TypeOK /\ ListInv /\ MapInv /\ TransitRequests /\ SlotInv
  BY DEF PoolInv
<1>1. /\ Store(ref[r].page, ref[r].slot)
      /\ UNCHANGED <<slot, zero_key, page_table, ongoing, io, ref, resuming,
                     current, live, fault>>
  BY DEF Write
<1>2. ref[r].page \in Pages \cup {NoPage}
  BY <1>0 DEF TypeOK, References
<1>3. buffer' \in [Slots -> Data] /\ disk' \in [Pages -> Data]
  BY <1>0, <1>1, <1>2, StoreTypes
<1>4. \A x \in Slots : InTransit(x)' <=> InTransit(x)
  BY <1>1 DEF InTransit
<1>5. SlotInv'
  BY <1>0, <1>1, <1>4, SlotsKept
<1>6. ListInv' /\ MapInv' /\ TransitRequests'
  BY <1>0, <1>1, <1>4, ListsKept, MapKept, RequestsKept DEF Loading
<1>7. TypeOK'
  BY <1>0, <1>1, <1>3 DEF TypeOK
<1>8. QED
  BY <1>5, <1>6, <1>7 DEF PoolInv

LEMMA StutterKeeps ==
  ASSUME PoolInv, UNCHANGED <<slot, zero_key, buffer, disk, page_table, ongoing, io, ref,
                              resuming, live, fault>>,
         current' \subseteq Tasks \ Prefetchers
  PROVE  PoolInv'
<1>0. TypeOK /\ ListInv /\ MapInv /\ TransitRequests /\ SlotInv
  BY DEF PoolInv
<1>1. \A x \in Slots : InTransit(x)' <=> InTransit(x)
  BY DEF InTransit
<1>2. SlotInv'
  BY <1>0, <1>1, SlotsKept
<1>3. ListInv' /\ MapInv' /\ TransitRequests'
  BY <1>0, <1>1, ListsKept, MapKept, RequestsKept DEF Loading
<1>4. TypeOK'
  BY <1>0 DEF TypeOK
<1>5. QED
  BY <1>2, <1>3, <1>4 DEF PoolInv

LEMMA RemovePageKeeps ==
  ASSUME PoolInv, NEW t \in Tasks, NEW p \in Pages, RemovePage(t, p)
  PROVE  PoolInv'
<1>0. TypeOK /\ ListInv /\ MapInv /\ TransitRequests /\ SlotInv
  BY DEF PoolInv
<1>1. /\ live' \subseteq Pages
      /\ UNCHANGED <<buffer, disk, ongoing, io, ref, resuming, current, fault>>
  BY <1>0 DEF RemovePage, TypeOK
<1>2. \A x \in Slots : InTransit(x)' <=> InTransit(x)
  BY <1>1 DEF InTransit
<1>3. ListInv' /\ TransitRequests'
  BY <1>0, <1>1, ListsKept, RequestsKept
<1>4. CASE UNCHANGED <<slot, zero_key, page_table>>
  <2>1. SlotInv'
    BY <1>0, <1>1, <1>2, <1>4, SlotsKept
  <2>2. MapInv'
    BY <1>0, <1>1, <1>2, <1>4, MapKept DEF Loading
  <2>3. TypeOK'
    BY <1>0, <1>1, <1>4 DEF TypeOK
  <2>4. QED
    BY <1>3, <2>1, <2>2, <2>3 DEF PoolInv
<1>5. CASE \E s \in Slots :
             /\ page_table[p] = s
             /\ page_table' = [page_table EXCEPT ![p] = NoSlot]
             /\ unlock_slot(s, [lock_slot(slot[s]) EXCEPT
                                  !.page = NoPage, !.is_dirty = FALSE, !.used = FALSE])
  <2>1. PICK s \in Slots :
          /\ page_table[p] = s
          /\ page_table' = [page_table EXCEPT ![p] = NoSlot]
          /\ unlock_slot(s, [lock_slot(slot[s]) EXCEPT
                               !.page = NoPage, !.is_dirty = FALSE, !.used = FALSE])
    BY <1>5
  <2>2. slot[s].page = p /\ slot[s].page # NoPage /\ ~InTransit(s)
    BY <1>0, <2>1, PoolAssumption DEF MapInv, PageInOneSlot
  <2>3. /\ SlotInv' /\ slot' \in [Slots -> Headers] /\ slot'[s].page = NoPage
        /\ \A x \in Slots \ {s} : slot'[x] = slot[x]
    BY <1>0, <1>1, <2>1, <2>2, SlotVacated
  <2>4. /\ page_table' \in [Pages -> Slots \cup {NoSlot}] /\ page_table'[p] = NoSlot
        /\ \A q \in Pages \ {p} : page_table'[q] = page_table[q]
    BY <1>0, <2>1 DEF TypeOK
  <2>5. MapInv'
    <3>1. LoadedPageAbsent'
      BY <1>0, <1>1, <2>4 DEF MapInv, LoadedPageAbsent, Loading
    <3>2. PageInOneSlot'
      BY <1>0, <1>2, <2>1, <2>2, <2>3, <2>4, PoolAssumption DEF MapInv, PageInOneSlot
    <3>3. QED
      BY <3>1, <3>2 DEF MapInv
  <2>6. zero_key' \in Slots \cup {NoSlot}
    BY <1>0, <2>1 DEF unlock_slot, TypeOK
  <2>7. TypeOK'
    BY <1>0, <1>1, <2>3, <2>4, <2>6 DEF TypeOK
  <2>8. QED
    BY <1>3, <2>3, <2>5, <2>7 DEF PoolInv
<1>6. QED
  BY <1>4, <1>5 DEF RemovePage

LEMMA FlushAllKeeps ==
  ASSUME PoolInv, FlushAll
  PROVE  PoolInv'
<1>0. TypeOK /\ ListInv /\ MapInv /\ TransitRequests /\ SlotInv
  BY DEF PoolInv
<1>1. /\ io' = [p \in Pages |->
           IF page_table[p] # NoSlot /\ slot[page_table[p]].is_dirty
           THEN Append(io[p], [kind |-> "flush", slot |-> page_table[p]]) ELSE io[p]]
      /\ slot' = [s \in Slots |-> [slot[s] EXCEPT !.is_dirty = FALSE]]
      /\ UNCHANGED <<zero_key, buffer, disk, page_table, ongoing, ref, resuming, current,
                     live, fault>>
  BY DEF FlushAll
<1>2. \A x \in Slots : InTransit(x)' <=> InTransit(x)
  BY <1>1 DEF InTransit
<1>3. /\ slot' \in [Slots -> Headers]
      /\ \A x \in Slots :
           /\ slot'[x].page = slot[x].page /\ slot'[x].lock_count = slot[x].lock_count
           /\ slot'[x].used = slot[x].used /\ slot'[x].queued = slot[x].queued
           /\ slot'[x].is_dirty => slot[x].is_dirty
  <2> DEFINE h(x) == [slot[x] EXCEPT !.is_dirty = FALSE]
  <2>1. ASSUME NEW x \in Slots
        PROVE  /\ h(x) \in Headers /\ ~h(x).is_dirty
               /\ h(x).page = slot[x].page /\ h(x).lock_count = slot[x].lock_count
               /\ h(x).used = slot[x].used /\ h(x).queued = slot[x].queued
    <3>1. slot[x] \in Headers
      BY <1>0 DEF TypeOK
    <3>2. QED
      BY <3>1 DEF Headers
  <2>2. slot' = [x \in Slots |-> h(x)]
    BY <1>1
  <2> HIDE DEF h
  <2>3. slot' \in [Slots -> Headers] /\ \A x \in Slots : slot'[x] = h(x)
    BY <2>1, <2>2
  <2>4. QED
    BY <2>1, <2>3
<1>4. SlotInv'
  BY <1>0, <1>1, <1>2, <1>3, SlotsKept
<1>5. ListInv' /\ MapInv'
  BY <1>0, <1>1, <1>2, <1>3, ListsKept, MapKept DEF Loading
<1>6. \A u \in Pages :
        /\ io'[u] \in Seq(Requests)
        /\ \A m \in DOMAIN io'[u] :
             (m \in DOMAIN io[u] /\ io'[u][m] = io[u][m]) \/ io'[u][m].kind = "flush"
  <2> SUFFICES ASSUME NEW u \in Pages
               PROVE  /\ io'[u] \in Seq(Requests)
                      /\ \A m \in DOMAIN io'[u] :
                           \/ m \in DOMAIN io[u] /\ io'[u][m] = io[u][m]
                           \/ io'[u][m].kind = "flush"
    OBVIOUS
  <2>1. io[u] \in Seq(Requests)
    BY <1>0 DEF TypeOK
  <2>2. CASE io'[u] = io[u]
    BY <2>1, <2>2
  <2>3. CASE page_table[u] # NoSlot /\ io'[u] = Append(io[u], [kind |-> "flush", slot |-> page_table[u]])
    <3>1. PICK e : e = [kind |-> "flush", slot |-> page_table[u]]
      OBVIOUS
    <3>2. e \in Requests /\ e.kind = "flush"
      BY <1>0, <2>3, <3>1 DEF TypeOK, Requests
    <3>3. io'[u] = Append(io[u], e)
      BY <2>3, <3>1
    <3>4. /\ Append(io[u], e) \in Seq(Requests) /\ Len(Append(io[u], e)) = Len(io[u]) + 1
          /\ Len(io[u]) \in Nat
          /\ \A i \in 1 .. Len(io[u]) : Append(io[u], e)[i] = io[u][i]
          /\ Append(io[u], e)[Len(io[u]) + 1] = e
      BY <2>1, <3>2, AppendIs
    <3>5. DOMAIN io'[u] = 1 .. Len(io[u]) + 1 /\ DOMAIN io[u] = 1 .. Len(io[u])
      BY <2>1, <3>3, <3>4
    <3>6. ASSUME NEW m \in DOMAIN io'[u], m \notin DOMAIN io[u]
          PROVE  m = Len(io[u]) + 1
      BY <3>4, <3>5, <3>6
    <3>7. QED
      BY <3>2, <3>3, <3>4, <3>5, <3>6
  <2>4. io'[u] = IF page_table[u] # NoSlot /\ slot[page_table[u]].is_dirty
                 THEN Append(io[u], [kind |-> "flush", slot |-> page_table[u]]) ELSE io[u]
    BY <1>1
  <2>5. QED
    BY <2>2, <2>3, <2>4
<1>7. TransitRequests' /\ io' \in [Pages -> Seq(Requests)]
  <2>1. io' \in [Pages -> Seq(Requests)]
    BY <1>1, <1>6
  <2> PICK f, g, L : f = io /\ g = io' /\ L = Underway
    OBVIOUS
  <2>2. RequestsOK(f, L)
    BY <1>0 DEF TransitRequests
  <2>3. \A u \in Pages : \A m \in DOMAIN g[u] :
          (m \in DOMAIN f[u] /\ g[u][m] = f[u][m]) \/ g[u][m].kind = "flush"
    BY <1>6
  <2>4. RequestsOK(g, L)
    <3>1. \A u \in Pages : \A m \in DOMAIN g[u] :
            /\ g[u][m].kind = "evict" => \E p \in Pages : <<p, g[u][m].slot>> \in L
            /\ g[u][m].kind = "load" => <<u, g[u][m].slot>> \in L
      BY <2>2, <2>3, SMTT(30) DEF RequestsOK
    <3>2. \A u, v \in Pages : \A m \in DOMAIN g[u], k \in DOMAIN g[v] :
            Moves(g, u, m) /\ Moves(g, v, k) /\ g[u][m].slot = g[v][k].slot => u = v /\ m = k
      BY <2>2, <2>3 DEF RequestsOK, Moves
    <3>3. QED
      BY ONLY <3>1, <3>2, SMT DEF RequestsOK
  <2>5. Underway' = L
    BY <1>1 DEF Underway
  <2>6. QED
    BY <2>1, <2>4, <2>5 DEF TransitRequests
<1>8. TypeOK'
  BY <1>0, <1>1, <1>3, <1>7 DEF TypeOK
<1>9. QED
  BY <1>4, <1>5, <1>7, <1>8 DEF PoolInv

(* An empty pool that nobody uses.                                         *)
Unused ==
  /\ slot = EmptyPool /\ zero_key = slot_0
  /\ page_table = [p \in Pages |-> NoSlot]
  /\ \A p \in Pages : ongoing[p] = NoLoad
  /\ resuming = NotResuming
  /\ \A r \in Refs : ref[r].pc = "free"
  /\ \A p \in Pages : DOMAIN io[p] = {}

LEMMA UnusedInv == Unused => ListInv /\ MapInv /\ TransitRequests /\ SlotInv
<1> SUFFICES ASSUME Unused
             PROVE  ListInv /\ MapInv /\ TransitRequests /\ SlotInv
  OBVIOUS
<1>1. /\ NoLoad.slot = NoSlot /\ NoLoad.waiters = <<>> /\ NotResuming.slot = NoSlot
      /\ NotResuming.page = NoPage /\ NotResuming.waiters = <<>>
      /\ NoSlot \notin Slots /\ NoPage \notin Pages /\ slot_0 \in Slots
  BY PoolAssumption DEF NoLoad, NotResuming
<1>2. \A s \in Slots : /\ slot[s].page = NoPage /\ slot[s].lock_count = 0 /\ ~slot[s].is_dirty
                       /\ ~slot[s].used /\ slot[s].queued
  <2>1. \A s \in Slots : slot[s] = [ResetHeader(NoPage) EXCEPT !.queued = TRUE]
    BY DEF Unused, EmptyPool
  <2>2. QED
    BY <2>1 DEF ResetHeader
<1>3. \A p \in Pages : ongoing[p].slot = NoSlot /\ WaitList(p) = <<>> /\ ~Loading(p)
  BY <1>1 DEF Unused, WaitList, Loading
<1>4. \A s \in Slots : ~InTransit(s)
  BY <1>1, <1>3 DEF InTransit
<1>5. \A s \in Slots : Pins(s) = 0 /\ LoadPins(s) = 0
  BY <1>1, PinsNatural DEF Unused, LoadPins
<1>6. DOMAIN <<>> = {}
  OBVIOUS
<1>7. ListInv
  BY <1>1, <1>3, <1>6 DEF Unused, ListInv, LoadsApart, ListsExact, ResumingOwnsLoad
<1>8. MapInv
  BY <1>1, <1>2, <1>3 DEF Unused, MapInv, LoadedPageAbsent, PageInOneSlot
<1>9. TransitRequests
  BY DEF Unused, TransitRequests, RequestsOK
<1>10. SlotInv
  BY <1>1, <1>2, <1>4, <1>5
     DEF Unused, SlotInv, TransitUnused, ZeroKeyQueued, PagesUsed, HeldSlots, PinsCounted,
         QueuedMeansFree, LeaksOnlyByRemoval
<1>11. QED
  BY <1>7, <1>8, <1>9, <1>10

LEMMA UnusedNext == Unused' => (ListInv /\ MapInv /\ TransitRequests /\ SlotInv)'
BY UnusedInv, PTL

LEMMA EmptyPoolType == EmptyPool \in [Slots -> Headers]
<1>1. [ResetHeader(NoPage) EXCEPT !.queued = TRUE] \in Headers
  BY DEF ResetHeader, Headers
<1>2. QED
  BY <1>1 DEF EmptyPool

LEMMA ReopenKeeps ==
  ASSUME PoolInv, Reopen
  PROVE  PoolInv'
<1>0. TypeOK /\ ListInv /\ MapInv /\ TransitRequests /\ SlotInv
  BY DEF PoolInv
<1>1. /\ slot' = EmptyPool /\ zero_key' = slot_0
      /\ buffer' = [s \in Slots |-> Blank]
      /\ page_table' = [p \in Pages |-> NoSlot]
      /\ UNCHANGED <<disk, ongoing, io, ref, resuming, current, live, fault>>
      /\ ~Flushing
  BY DEF Reopen
<1>2. \A r \in Refs : ref[r].pc = "free"
  BY PoolAssumption DEF Reopen, AllIdle, Idle, Refs
<1>3. \A p \in Pages : WaitList(p) = <<>>
  BY <1>0, <1>2, WaitListType DEF ListInv, ListsExact
<1>4. \A p \in Pages : ongoing[p] = NoLoad
  BY <1>0, <1>3 DEF ListInv, ListsExact, Loading
<1>5. resuming = NotResuming
  BY <1>0, <1>4, PoolAssumption DEF ListInv, ResumingOwnsLoad, NoLoad
<1>6. \A p \in Pages : DOMAIN io[p] = {}
  <2>1. ASSUME NEW p \in Pages, NEW n \in DOMAIN io[p]
        PROVE  FALSE
    <3>1. io[p][n] \in Requests
      BY <1>0 DEF TypeOK
    <3>2. io[p][n].kind # "flush"
      BY <1>1 DEF Flushing
    <3>3. Underway = {}
      BY <1>4, PoolAssumption DEF Underway, NoLoad
    <3>4. QED
      BY <1>0, <3>1, <3>2, <3>3 DEF TransitRequests, RequestsOK, Requests
  <2>2. QED
    BY <2>1
<1>7. Unused'
  BY <1>1, <1>2, <1>4, <1>5, <1>6 DEF Unused
<1>8. TypeOK'
  BY <1>0, <1>1, EmptyPoolType, PoolAssumption DEF TypeOK, Blank, Data
<1>9. QED
  BY <1>7, <1>8, UnusedNext DEF PoolInv

-------------------------------------------------------------------------------
(***************************************************************************)
(* The theorems.                                                           *)
(***************************************************************************)
LEMMA PoolInit == Init => PoolInv
<1> SUFFICES ASSUME Init
             PROVE  PoolInv
  OBVIOUS
<1>0. <<>> \in Seq(Refs) /\ <<>> \in Seq(Requests) /\ DOMAIN <<>> = {}
  OBVIOUS
<1>1. Unused
  BY <1>0 DEF Init, Unused, FreeRef
<1>2. TypeOK
  <2>1. /\ slot \in [Slots -> Headers] /\ zero_key \in Slots \cup {NoSlot}
        /\ page_table \in [Pages -> Slots \cup {NoSlot}]
        /\ current \subseteq Tasks \ Prefetchers
        /\ live \subseteq Pages /\ fault \in {"none", "overflow", "mismatch"}
    BY EmptyPoolType, PoolAssumption DEF Init
  <2>2. buffer \in [Slots -> Data] /\ disk \in [Pages -> Data]
    BY DEF Init, Blank, Newest, Data
  <2>3. NoLoad \in [slot : Slots \cup {NoSlot}, waiters : Seq(Refs), is_new : BOOLEAN]
    BY <1>0 DEF NoLoad
  <2>4. NotResuming \in [slot : Slots \cup {NoSlot}, page : Pages \cup {NoPage},
                         waiters : Seq(Refs)]
    BY <1>0 DEF NotResuming
  <2>5. io \in [Pages -> Seq(Requests)]
    BY <1>0 DEF Init
  <2>6. ref \in [Refs -> References]
    BY DEF Init, FreeRef, References
  <2>7. QED
    BY <2>1, <2>2, <2>3, <2>4, <2>5, <2>6 DEF Init, TypeOK
<1>3. QED
  BY <1>1, <1>2, UnusedInv DEF PoolInv

LEMMA PoolNext == PoolInv /\ [Next]_vars => PoolInv'
<1> SUFFICES ASSUME PoolInv, [Next]_vars
             PROVE  PoolInv'
  OBVIOUS
<1>1. CASE UNCHANGED vars
  BY <1>1, StutterKeeps DEF vars, PoolInv, TypeOK
<1>2. ASSUME fault = "none", NEW r \in Refs,
             Asks(r) \/ Drop(r) \/ Finish(r) \/ Write(r) \/ EndPrefetch(r)
      PROVE  PoolInv'
  BY <1>2, AskKeeps, DropKeeps, WriteKeeps
<1>3. ASSUME NEW t \in Tasks, AwaitPrefetch(t)
      PROVE  PoolInv'
  BY <1>3, StutterKeeps DEF AwaitPrefetch
<1>4. ASSUME NEW t \in Tasks, NEW p \in Pages, RemovePage(t, p)
      PROVE  PoolInv'
  BY <1>4, RemovePageKeeps
<1>5. ASSUME NEW q \in Pages, NEW n \in DOMAIN io[q],
             EvictWritten(q, n) \/ LoadRead(q, n) \/ FlushWritten(q, n)
      PROVE  PoolInv'
  BY <1>5, EvictWrittenKeeps, LoadReadKeeps, FlushWrittenKeeps
<1>6. CASE Resume \/ FlushAll \/ Reopen
  BY <1>6, ResumeKeeps, FlushAllKeeps, ReopenKeeps
<1>7. QED
  BY <1>1, <1>2, <1>3, <1>4, <1>5, <1>6 DEF Next, Step, Aborted

(* The invariant holds of every behaviour: the pool's operations, in any   *)
(* order the coroutines and the disk allow, keep slots, pins, loads and    *)
(* requests in step with one another.                                      *)
THEOREM PoolInvCorrect == Spec => []PoolInv
<1>1. QED
  BY PoolInit, PoolNext, PTL DEF Spec

(* Every variable has its type, and no pin count goes below zero.          *)
THEOREM PoolTypes == Spec => []TypeOK
<1>1. PoolInv => TypeOK
  BY DEF PoolInv
<1>2. QED
  BY <1>1, PoolInvCorrect, PTL

(* page_table and the headers agree: acquire_page_in_slot finds a page     *)
(* where get_lru_k and evict_and_load have left it, and in one slot only.  *)
THEOREM PagesApart == Spec => []PageInOneSlot
<1>1. PoolInv => PageInOneSlot
  BY DEF PoolInv, MapInv
<1>2. QED
  BY <1>1, PoolInvCorrect, PTL

(* lock_slot and unlock_slot balance: a slot is pinned once for each       *)
(* reference to it and once for a load whose lead is still to be resumed.  *)
THEOREM PinsBalance == Spec => []PinsExact
<1>1. PoolInv => PinsExact
  BY PinsAre DEF PoolInv, ListInv, SlotInv
<1>2. QED
  BY <1>1, PoolInvCorrect, PTL

(* get_lru_k never takes a slot that is pinned, or that an eviction still  *)
(* writes from or loads into.                                              *)
THEOREM VictimsFree == Spec => []QueuedMeansFree
<1>1. PoolInv => QueuedMeansFree
  BY DEF PoolInv, SlotInv
<1>2. QED
  BY <1>1, PoolInvCorrect, PTL

(* No slot is lost to evict_order but by the removal of its page: then two *)
(* slots with an empty history share the key {0, 0}.                       *)
THEOREM LeaksExplained == Spec => []LeaksOnlyByRemoval
<1>1. PoolInv => LeaksOnlyByRemoval
  BY DEF PoolInv, SlotInv
<1>2. QED
  BY <1>1, PoolInvCorrect, PTL

-------------------------------------------------------------------------------
(***************************************************************************)
(* Without prefetches nobody finds another page in his slot: whoever waits *)
(* for a page keeps it from being removed.                                 *)
(***************************************************************************)

(* The page that has been loaded stays in its slot until the last of those *)
(* who waited for it is resumed.                                           *)
Placed ==
  /\ fault # "mismatch"
  /\ resuming # NotResuming => slot[resuming.slot].page = resuming.page

LEMMA PlacedKept ==
  ASSUME Placed, resuming' = resuming, fault' # "mismatch",
         resuming # NotResuming => slot'[resuming.slot].page = slot[resuming.slot].page
  PROVE  Placed'
BY DEF Placed

(* A load being resumed is in a slot, and somebody waits for its page.     *)
LEMMA ResumedWaited ==
  ASSUME PoolInv, resuming # NotResuming
  PROVE  /\ resuming.slot \in Slots /\ resuming.page \in Pages
         /\ \E r \in Refs : ref[r].pc = "waiting" /\ ref[r].page = resuming.page
         /\ ~InTransit(resuming.slot) /\ ~slot[resuming.slot].queued
<1>0. TypeOK /\ ListInv /\ SlotInv
  BY DEF PoolInv
<1>1. resuming.slot \in Slots /\ resuming.page \in Pages
      /\ ongoing[resuming.page].slot = resuming.slot
  BY <1>0 DEF ListInv, ResumingOwnsLoad
<1> PICK p \in Pages : p = resuming.page
  BY <1>1
<1>2. WaitList(p) # <<>>
  BY <1>0, <1>1, LoadingIs DEF ListInv, ListsExact
<1>3. 1 \in DOMAIN WaitList(p)
  BY <1>0, <1>2, WaitListType
<1>4. ref[WaitList(p)[1]].pc = "waiting" /\ ref[WaitList(p)[1]].page = p /\ WaitList(p)[1] \in Refs
  BY <1>0, <1>3, WaitListType DEF ListInv, ListsExact
<1>5. QED
  BY <1>0, <1>1, <1>4, PinnedSlot

LEMMA PlacedAsks ==
  ASSUME PoolInv, Placed, fault = "none", NEW r \in Refs, Asks(r)
  PROVE  Placed'
<1>0. TypeOK /\ ListInv /\ MapInv /\ SlotInv
  BY DEF PoolInv
<1>1. PICK p \in Pages, mode \in Modes : ref[r].pc = "free" /\ Acquire(r, p, mode)
  BY FreeAsks
<1>2. ASSUME NEW s \in Slots, NEW h \in Headers, Construct(r, p, s, h, mode),
             h.page = p, h.page = slot[s].page \/ resuming.slot # s, resuming' = resuming
      PROVE  Placed'
  <2>1. /\ slot'[s].page = h.page /\ \A x \in Slots \ {s} : slot'[x] = slot[x]
        /\ fault' = fault
    BY <1>0, <1>2, Constructed, ConstructShape
  <2>2. QED
    BY <1>2, <2>1, ResumedWaited, PlacedKept DEF Placed
<1>3. CASE Hit(r, p, mode)
  <2>1. page_table[p] \in Slots
    BY <1>0, <1>3 DEF Hit, TypeOK
  <2>2. slot[page_table[p]] \in Headers /\ slot[page_table[p]].page = p
    BY <1>0, <2>1 DEF TypeOK, MapInv, PageInOneSlot
  <2>3. QED
    BY <1>2, <1>3, <2>1, <2>2 DEF Hit
<1>4. CASE Join(r, p, mode)
  BY <1>4, PlacedKept DEF Join, Placed
<1>5. CASE JoinFinished(r, p, mode)
  <2>1. resuming # NotResuming /\ page_table[p] = NoSlot /\ resuming.page = p
    BY <1>5, PoolAssumption DEF JoinFinished, NotResuming
  <2>2. resuming.slot \in Slots /\ ~InTransit(resuming.slot) /\ slot[resuming.slot].page = p
    BY <2>1, ResumedWaited DEF Placed
  <2>3. FALSE
    BY <1>0, <2>1, <2>2, PoolAssumption DEF MapInv, PageInOneSlot
  <2>4. QED
    BY <2>3
<1>6. CASE Lead(r, p, mode)
  <2>1. PICK s \in Victims : LeadSuspends(r, p, mode, s) \/ LeadAtOnce(r, p, mode, s)
    BY <1>6 DEF Lead
  <2>2. s \in Slots /\ resuming.slot # s /\ resuming' = resuming
    BY <1>0, <1>6, VictimFree DEF Lead
  <2>3. CASE LeadAtOnce(r, p, mode, s)
    BY <1>2, <2>2, <2>3, ResetShape DEF LeadAtOnce
  <2>4. CASE LeadSuspends(r, p, mode, s)
    <3>1. fault' = fault /\ slot' = [slot EXCEPT ![s].queued = FALSE]
      BY <2>4 DEF LeadSuspends
    <3>2. \A x \in Slots \ {s} : slot'[x] = slot[x]
      BY <1>0, <3>1 DEF TypeOK
    <3>3. QED
      BY <2>2, <3>1, <3>2, ResumedWaited, PlacedKept DEF Placed
  <2>5. QED
    BY <2>1, <2>3, <2>4
<1>7. CASE Overflow(p)
  BY <1>7, PlacedKept DEF Overflow
<1>8. QED
  BY <1>1, <1>3, <1>4, <1>5, <1>6, <1>7 DEF Acquire

LEMMA PlacedServes ==
  ASSUME PoolInv, Placed, NEW q \in Pages, NEW n \in DOMAIN io[q],
         EvictWritten(q, n) \/ LoadRead(q, n) \/ FlushWritten(q, n)
  PROVE  Placed'
<1>0. TypeOK /\ ListInv
  BY DEF PoolInv
<1>1. resuming = NotResuming /\ io[q][n].slot \in Slots
  BY <1>0, ServedStack DEF EvictWritten, LoadRead, FlushWritten
<1>2. fault' = fault
  BY DEF EvictWritten, LoadRead, FlushWritten
<1>3. CASE resuming' = resuming
  BY <1>1, <1>2, <1>3 DEF Placed
<1>4. CASE \E p \in Pages : FinishLoad(p, io[q][n].slot)
  <2>1. PICK p \in Pages, s \in Slots : FinishLoad(p, s)
    BY <1>1, <1>4
  <2>2. slot'[s] = [ResetHeader(p) EXCEPT !.lock_count = 1]
    BY <1>0, <2>1 DEF FinishLoad, TypeOK
  <2>3. slot'[s].page = p
    BY <2>2 DEF ResetHeader
  <2>4. resuming'.slot = s /\ resuming'.page = p
    BY <2>1 DEF FinishLoad
  <2>5. QED
    BY <1>2, <2>3, <2>4 DEF Placed
<1>5. QED
  BY <1>3, <1>4 DEF EvictWritten, LoadRead, FlushWritten

LEMMA PlacedResumes ==
  ASSUME PoolInv, Placed, Resume
  PROVE  Placed'
<1>0. TypeOK /\ ListInv /\ SlotInv
  BY DEF PoolInv
<1>1. resuming.waiters # <<>> /\ resuming # NotResuming
  BY DEF Resume, NotResuming
<1> PICK r, p, s, h : /\ r = Last(resuming.waiters) /\ p = resuming.page
                      /\ s = resuming.slot /\ h = Unpinned(r)
  OBVIOUS
<1>2. r \in Refs /\ p \in Pages /\ s \in Slots
  BY <1>0, <1>1, FrontIs, ResumedWaited DEF TypeOK
<1>3. h \in Headers /\ h.page = p
  BY <1>0, <1>1, <1>2, UnpinnedShape DEF Placed
<1>4. /\ Construct(r, p, s, h, ref[r].mode) /\ ref[r].mode \in Modes
      /\ resuming' = NotResuming \/ (resuming'.slot = s /\ resuming'.page = p)
  <2>1. /\ Construct(r, p, s, h, ref[r].mode)
        /\ resuming' = IF Front(resuming.waiters) = <<>> THEN NotResuming
                       ELSE [resuming EXCEPT !.waiters = Front(resuming.waiters)]
    BY DEF Resume, ResumeWaiter
  <2>2. ref[r].mode \in Modes
    BY <1>0, <1>2 DEF TypeOK, References, Modes
  <2>3. QED
    BY <1>0, <2>1, <2>2 DEF TypeOK
<1>5. slot'[s].page = h.page /\ fault' = fault
  BY <1>0, <1>2, <1>3, <1>4, Constructed, ConstructShape
<1>6. QED
  BY <1>3, <1>4, <1>5 DEF Placed

LEMMA PlacedReleases ==
  ASSUME PoolInv, Placed, NEW r \in Refs, Drop(r) \/ Finish(r) \/ EndPrefetch(r)
  PROVE  Placed'
<1>0. TypeOK /\ SlotInv
  BY DEF PoolInv
<1>1. /\ ref[r].pc = "held" /\ unlock_slot(ref[r].slot, slot[ref[r].slot])
      /\ ref' = [ref EXCEPT ![r] = FreeRef]
      /\ UNCHANGED <<ongoing, resuming, fault>>
  BY DEF Drop, Finish, EndPrefetch, Release
<1> PICK s : s = ref[r].slot
  OBVIOUS
<1>2. ref'[r].pc # "held" /\ \A x \in Refs \ {r} : ref'[x] = ref[x]
  BY <1>0, <1>1 DEF TypeOK, FreeRef
<1>3. slot'[s].page = slot[s].page /\ \A x \in Slots \ {s} : slot'[x] = slot[x]
  BY <1>0, <1>1, <1>2, SlotReleased
<1>4. QED
  BY <1>1, <1>3, ResumedWaited, PlacedKept DEF Placed

LEMMA PlacedRemoves ==
  ASSUME Prefetchers = {}, PoolInv, Placed, NEW t \in Tasks, NEW p \in Pages, RemovePage(t, p)
  PROVE  Placed'
<1>0. TypeOK /\ MapInv /\ SlotInv
  BY DEF PoolInv
<1>1. /\ UNCHANGED <<ref, ongoing, resuming, fault>>
      /\ \A r \in Refs : ref[r].page = p => ref[r].pc = "held"
  BY DEF RemovePage
<1>2. resuming # NotResuming => resuming.page # p
  BY <1>1, ResumedWaited
<1>3. CASE UNCHANGED slot
  BY <1>1, <1>3, PlacedKept DEF Placed
<1>4. CASE \E s \in Slots :
             /\ page_table[p] = s
             /\ unlock_slot(s, [lock_slot(slot[s]) EXCEPT
                                  !.page = NoPage, !.is_dirty = FALSE, !.used = FALSE])
  <2>1. PICK s \in Slots :
          /\ page_table[p] = s
          /\ unlock_slot(s, [lock_slot(slot[s]) EXCEPT
                               !.page = NoPage, !.is_dirty = FALSE, !.used = FALSE])
    BY <1>4
  <2>2. slot[s].page = p /\ slot[s].page # NoPage /\ ~InTransit(s)
    BY <1>0, <2>1, PoolAssumption DEF MapInv, PageInOneSlot
  <2>3. \A x \in Slots \ {s} : slot'[x] = slot[x]
    BY <1>0, <1>1, <2>1, <2>2, SlotVacated
  <2>4. resuming # NotResuming => resuming.slot # s
    BY <1>2, <2>2 DEF Placed
  <2>5. QED
    BY <1>1, <2>3, <2>4, ResumedWaited, PlacedKept DEF Placed
<1>5. QED
  BY <1>3, <1>4 DEF RemovePage

LEMMA PlacedNext ==
  ASSUME Prefetchers = {}
  PROVE  PoolInv /\ Placed /\ [Next]_vars => Placed'
<1> SUFFICES ASSUME PoolInv, Placed, [Next]_vars
             PROVE  Placed'
  OBVIOUS
<1>1. CASE UNCHANGED vars
  BY <1>1 DEF vars, Placed
<1>2. ASSUME fault = "none", NEW r \in Refs,
             Asks(r) \/ Drop(r) \/ Finish(r) \/ Write(r) \/ EndPrefetch(r)
      PROVE  Placed'
  <2>1. CASE Write(r)
    BY <2>1, PlacedKept DEF Write, Placed
  <2>2. QED
    BY <1>2, <2>1, PlacedAsks, PlacedReleases
<1>3. ASSUME NEW t \in Tasks, AwaitPrefetch(t)
      PROVE  Placed'
  BY <1>3, PlacedKept DEF AwaitPrefetch, Placed
<1>4. ASSUME NEW t \in Tasks, NEW p \in Pages, RemovePage(t, p)
      PROVE  Placed'
  BY <1>4, PlacedRemoves
<1>5. ASSUME NEW q \in Pages, NEW n \in DOMAIN io[q],
             EvictWritten(q, n) \/ LoadRead(q, n) \/ FlushWritten(q, n)
      PROVE  Placed'
  BY <1>5, PlacedServes
<1>6. CASE Resume
  BY <1>6, PlacedResumes
<1>7. CASE FlushAll
  <2>1. \A s \in Slots : slot'[s].page = slot[s].page
    BY <1>7 DEF FlushAll, PoolInv, TypeOK, Headers
  <2>2. UNCHANGED <<resuming, fault>>
    BY <1>7 DEF FlushAll
  <2>3. QED
    BY <2>1, <2>2, ResumedWaited, PlacedKept DEF Placed
<1>8. CASE Reopen
  <2>1. \A r \in Refs : ref[r].pc = "free"
    BY <1>8, PoolAssumption DEF Reopen, AllIdle, Idle, Refs
  <2>2. resuming = NotResuming
    BY <2>1, ResumedWaited
  <2>3. QED
    BY <1>8, <2>2 DEF Reopen, Placed
<1>9. QED
  BY <1>1, <1>2, <1>3, <1>4, <1>5, <1>6, <1>7, <1>8 DEF Next, Step, Aborted

(* Without prefetches the assertion in the constructor of a reference      *)
(* never fails.                                                            *)
THEOREM SlotsAsPromised ==
  ASSUME Prefetchers = {}
  PROVE  Spec => []NoMismatch
<1>1. Init => Placed
  BY DEF Init, Placed
<1>2. PoolInv /\ Placed /\ [Next]_vars => Placed'
  BY PlacedNext
<1>3. Placed => NoMismatch
  BY DEF Placed, NoMismatch
<1>4. QED
  BY <1>1, <1>2, <1>3, PoolInvCorrect, PTL DEF Spec

-----------------------------------------------------------------------------
(***************************************************************************)
(* The bytes of pages: with a disk that serves the requests on one page in *)
(* order, no version of a page is lost or read after a newer one was       *)
(* written.  The invariant above is taken for granted.                     *)
(***************************************************************************)

(***************************************************************************)
(* Who waits is on a list.                                                 *)
(***************************************************************************)
Listed(r) == \E i \in DOMAIN WaitList(ref[r].page) : WaitList(ref[r].page)[i] = r

(* Nobody waits for a page that is not being loaded, or that has come.     *)
WaitersListed ==
  \A r \in Refs : ref[r].pc = "waiting" => ref[r].page \in Pages /\ Listed(r)

LEMMA ListedKept ==
  ASSUME WaitersListed, \A p \in Pages : WaitList(p)' = WaitList(p),
         \A r \in Refs : ref'[r].pc = "waiting" => ref'[r] = ref[r]
  PROVE  WaitersListed'
<1> SUFFICES ASSUME NEW r \in Refs, ref'[r].pc = "waiting"
             PROVE  ref'[r].page \in Pages /\ Listed(r)'
  BY DEF WaitersListed
<1> PICK p : p = ref[r].page
  OBVIOUS
<1>1. ref'[r] = ref[r] /\ p \in Pages /\ \E i \in DOMAIN WaitList(p) : WaitList(p)[i] = r
  BY DEF WaitersListed, Listed
<1>2. ref'[r].page = p /\ WaitList(p)' = WaitList(p)
  BY <1>1
<1>3. \E i \in DOMAIN WaitList(p)' : WaitList(p)'[i] = r
  BY <1>1, <1>2
<1>4. QED
  BY <1>1, <1>2, <1>3 DEF Listed

(* What a constructed reference is.                                        *)
LEMMA RefGained ==
  ASSUME TypeOK, NEW r \in Refs, NEW p, NEW s, NEW h, NEW mode, Construct(r, p, s, h, mode)
  PROVE  /\ ref'[r].pc = "held" /\ ref'[r].page = p /\ ref'[r].slot = s
         /\ ref'[r].mode = IF mode = "init" THEN "mut" ELSE mode
         /\ \A x \in Refs \ {r} : ref'[x] = ref[x]
BY DEF Construct, TypeOK

LEMMA ListedAsks ==
  ASSUME PoolInv, WaitersListed, NEW r \in Refs, Asks(r)
  PROVE  WaitersListed'
<1>0. TypeOK /\ ListInv
  BY DEF PoolInv
<1>1. PICK p \in Pages, mode \in Modes : ref[r].pc = "free" /\ Acquire(r, p, mode)
  BY FreeAsks
<1>2. ASSUME NEW s, NEW h, Construct(r, p, s, h, mode), UNCHANGED <<ongoing, resuming>>
      PROVE  WaitersListed'
  <2>1. \A q \in Pages : WaitList(q)' = WaitList(q)
    BY <1>2 DEF WaitList
  <2>2. QED
    BY <1>0, <1>2, <2>1, RefGained, ListedKept
<1>3. ASSUME NEW lead, Waits(r, p, mode, lead), NEW w, WaitList(p)' = w,
             \E i \in DOMAIN w : w[i] = r, \A i \in DOMAIN WaitList(p) : i \in DOMAIN w /\ w[i] = WaitList(p)[i],
             \A q \in Pages \ {p} : WaitList(q)' = WaitList(q)
      PROVE  WaitersListed'
  <2>1. /\ ref'[r].pc = "waiting" /\ ref'[r].page = p
        /\ \A x \in Refs \ {r} : ref'[x] = ref[x]
    BY <1>0, <1>3 DEF Waits, TypeOK
  <2> SUFFICES ASSUME NEW x \in Refs, ref'[x].pc = "waiting", NEW q, q = ref'[x].page
               PROVE  q \in Pages /\ \E i \in DOMAIN WaitList(q)' : WaitList(q)'[i] = x
    BY DEF WaitersListed, Listed
  <2>2. CASE x = r
    BY <1>3, <2>1, <2>2
  <2>3. CASE x # r
    <3>1. q \in Pages /\ \E i \in DOMAIN WaitList(q) : WaitList(q)[i] = x
      BY <2>1, <2>3 DEF WaitersListed, Listed
    <3>2. QED
      BY <1>3, <3>1
  <2>4. QED
    BY <2>2, <2>3
<1>4. CASE Hit(r, p, mode)
  BY <1>2, <1>4 DEF Hit
<1>5. CASE JoinFinished(r, p, mode)
  BY <1>2, <1>5 DEF JoinFinished
<1>6. CASE Join(r, p, mode)
  <2>1. /\ Waits(r, p, mode, FALSE) /\ resuming' = resuming /\ resuming.page # p
        /\ ongoing' = [ongoing EXCEPT ![p].waiters = Append(@, r)]
    BY <1>6 DEF Join
  <2>2. /\ ongoing'[p].waiters = Append(ongoing[p].waiters, r)
        /\ \A q \in Pages \ {p} : ongoing'[q] = ongoing[q]
    BY <1>0, <2>1 DEF TypeOK
  <2>3. /\ WaitList(p) \in Seq(Refs) /\ WaitList(p)' = Append(WaitList(p), r)
        /\ \A q \in Pages \ {p} : WaitList(q)' = WaitList(q)
    BY <1>0, <2>1, <2>2, WaitListType DEF WaitList
  <2> PICK v, w : v = WaitList(p) /\ w = Append(v, r)
    OBVIOUS
  <2>4. (\E i \in DOMAIN w : w[i] = r) /\ \A i \in DOMAIN v : i \in DOMAIN w /\ w[i] = v[i]
    <3>1. /\ w \in Seq(Refs) /\ Len(w) = Len(v) + 1 /\ Len(v) \in Nat
          /\ \A i \in 1 .. Len(v) : w[i] = v[i]
          /\ w[Len(v) + 1] = r
      BY <2>3, AppendIs
    <3>2. DOMAIN w = 1 .. Len(v) + 1 /\ DOMAIN v = 1 .. Len(v)
      BY <2>3, <3>1
    <3>3. QED
      BY <3>1, <3>2
  <2>5. QED
    BY <1>3, <2>1, <2>3, <2>4
<1>7. CASE Lead(r, p, mode)
  <2>1. PICK s \in Victims : LeadSuspends(r, p, mode, s) \/ LeadAtOnce(r, p, mode, s)
    BY <1>7 DEF Lead
  <2>2. ~Loading(p) /\ resuming' = resuming
    BY <1>7 DEF Lead
  <2>3. CASE LeadAtOnce(r, p, mode, s)
    BY <1>2, <2>2, <2>3 DEF LeadAtOnce
  <2>4. CASE LeadSuspends(r, p, mode, s)
    <3>1. /\ Waits(r, p, mode, TRUE)
          /\ ongoing' = [ongoing EXCEPT ![p] = [slot |-> s, waiters |-> <<r>>, is_new |-> mode = "init"]]
      BY <2>4 DEF LeadSuspends
    <3>2. /\ ongoing'[p].waiters = <<r>>
          /\ \A q \in Pages \ {p} : ongoing'[q] = ongoing[q]
      BY <1>0, <3>1 DEF TypeOK
    <3>3. WaitList(p) = <<>> /\ resuming.page # p
      BY <1>0, <2>2, LoadingIs, PoolAssumption
         DEF ListInv, ListsExact, ResumingOwnsLoad, NotResuming
    <3>4. WaitList(p)' = <<r>> /\ \A q \in Pages \ {p} : WaitList(q)' = WaitList(q)
      BY <2>2, <3>2, <3>3 DEF WaitList
    <3>5. DOMAIN <<>> = {} /\ 1 \in DOMAIN <<r>> /\ <<r>>[1] = r
      OBVIOUS
    <3> PICK w : w = <<r>>
      OBVIOUS
    <3>6. QED
      BY <1>3, <3>1, <3>3, <3>4, <3>5
  <2>5. QED
    BY <2>1, <2>3, <2>4
<1>8. CASE Overflow(p)
  BY <1>8, ListedKept DEF Overflow, WaitList
<1>9. QED
  BY <1>1, <1>4, <1>5, <1>6, <1>7, <1>8 DEF Acquire

(* The loop takes the list of a finished load as it is.                    *)
LEMMA ListHanded ==
  ASSUME PoolInv, resuming = NotResuming, NEW p \in Pages, NEW s, FinishLoad(p, s)
  PROVE  \A q \in Pages : WaitList(q)' = WaitList(q)
<1>1. ongoing \in [Pages -> [slot : Slots \cup {NoSlot}, waiters : Seq(Refs), is_new : BOOLEAN]]
  BY DEF PoolInv, TypeOK
<1>2. /\ resuming'.page = p /\ resuming'.waiters = ongoing[p].waiters
      /\ \A q \in Pages \ {p} : ongoing'[q] = ongoing[q]
  BY <1>1 DEF FinishLoad
<1>3. \A q \in Pages : resuming.page # q
  BY PoolAssumption DEF NotResuming
<1>4. QED
  BY <1>2, <1>3 DEF WaitList

(* What one turn of the loop does to the lists.                            *)
LEMMA ListLeft ==
  ASSUME PoolInv, Resume, NEW r, r = Last(resuming.waiters)
  PROVE  /\ r \in Refs /\ ref[r].pc = "waiting" /\ ref[r].page = resuming.page
         /\ ref'[r].pc = "held" /\ \A x \in Refs \ {r} : ref'[x] = ref[x]
         /\ \A p \in Pages : \A i \in DOMAIN WaitList(p) :
              WaitList(p)[i] # r => i \in DOMAIN WaitList(p)' /\ WaitList(p)'[i] = WaitList(p)[i]
<1>0. TypeOK /\ ListInv
  BY DEF PoolInv
<1>1. resuming.waiters # <<>> /\ resuming # NotResuming
  BY DEF Resume, NotResuming
<1> PICK p, W : p = resuming.page /\ W = resuming.waiters
  OBVIOUS
<1>2. /\ p \in Pages /\ ongoing[p].waiters = <<>> /\ WaitList(p) = W
  BY <1>0, <1>1 DEF ListInv, ResumingOwnsLoad, WaitList
<1>3. /\ W \in Seq(Refs) /\ W # <<>> /\ r = W[Len(W)] /\ r \in Refs /\ Len(W) \in Nat \ {0}
      /\ Front(W) \in Seq(Refs) /\ Len(Front(W)) = Len(W) - 1
      /\ \A i \in 1 .. Len(W) - 1 : Front(W)[i] = W[i]
      /\ Front(W) = <<>> <=> Len(W) = 1
  <2>1. W \in Seq(Refs) /\ W # <<>> /\ r = Last(W)
    BY <1>0, <1>1 DEF TypeOK
  <2>2. QED
    BY <2>1, FrontIs
<1>4. DOMAIN W = 1 .. Len(W) /\ Len(W) \in DOMAIN W
  BY <1>3
<1>5. ref[r].pc = "waiting" /\ ref[r].page = p /\ (ref[r].is_lead <=> Len(W) = 1)
  BY <1>0, <1>2, <1>3, <1>4 DEF ListInv, ListsExact
<1>6. /\ Construct(r, p, resuming.slot, Unpinned(r), ref[r].mode)
      /\ ongoing' = IF ref[r].is_lead THEN [ongoing EXCEPT ![p] = NoLoad] ELSE ongoing
      /\ resuming' = IF Front(W) = <<>> THEN NotResuming ELSE [resuming EXCEPT !.waiters = Front(W)]
  BY DEF Resume, ResumeWaiter
<1>7. ref'[r].pc = "held" /\ \A x \in Refs \ {r} : ref'[x] = ref[x]
  BY <1>0, <1>3, <1>6, RefGained
<1>8. \A q \in Pages \ {p} : WaitList(q) = ongoing[q].waiters /\ ongoing'[q] = ongoing[q]
                             /\ resuming'.page # q
  BY <1>0, <1>6, PoolAssumption DEF WaitList, TypeOK, NotResuming
<1>9. \A q \in Pages \ {p} : WaitList(q)' = WaitList(q)
  BY <1>8 DEF WaitList
<1>10. ASSUME NEW i \in DOMAIN W, W[i] # r
       PROVE  i \in DOMAIN WaitList(p)' /\ WaitList(p)'[i] = W[i]
  <2>1. i \in 1 .. Len(W) - 1 /\ Len(W) # 1 /\ DOMAIN Front(W) = 1 .. Len(W) - 1
    BY <1>3, <1>4, <1>10
  <2>2. resuming'.page = p /\ resuming'.waiters = Front(W)
    BY <1>0, <1>3, <1>6, <2>1 DEF TypeOK
  <2>3. WaitList(p)' = Front(W)
    BY <2>2 DEF WaitList
  <2>4. QED
    BY <1>3, <2>1, <2>3
<1>11. ASSUME NEW q \in Pages, NEW i \in DOMAIN WaitList(q), WaitList(q)[i] # r
       PROVE  i \in DOMAIN WaitList(q)' /\ WaitList(q)'[i] = WaitList(q)[i]
  <2>1. CASE q = p
    BY <1>2, <1>10, <1>11, <2>1
  <2>2. CASE q # p
    BY <1>9, <1>11, <2>2
  <2>3. QED
    BY <2>1, <2>2
<1>12. QED
  BY <1>3, <1>5, <1>7, <1>11

LEMMA ListedResumes ==
  ASSUME PoolInv, WaitersListed, Resume
  PROVE  WaitersListed'
<1> PICK r : r = Last(resuming.waiters)
  OBVIOUS
<1>1. /\ r \in Refs /\ ref'[r].pc = "held" /\ \A x \in Refs \ {r} : ref'[x] = ref[x]
      /\ \A p \in Pages : \A i \in DOMAIN WaitList(p) :
           WaitList(p)[i] # r => i \in DOMAIN WaitList(p)' /\ WaitList(p)'[i] = WaitList(p)[i]
  BY ListLeft
<1> SUFFICES ASSUME NEW x \in Refs, ref'[x].pc = "waiting", NEW q, q = ref'[x].page
             PROVE  q \in Pages /\ \E i \in DOMAIN WaitList(q)' : WaitList(q)'[i] = x
  BY DEF WaitersListed, Listed
<1>2. x # r /\ ref'[x] = ref[x]
  BY <1>1
<1>3. q \in Pages /\ \E i \in DOMAIN WaitList(q) : WaitList(q)[i] = x
  BY <1>2 DEF WaitersListed, Listed
<1>4. QED
  BY <1>1, <1>2, <1>3

(* Steps that leave the loads alone and make nobody wait.                  *)
LEMMA ListedRest ==
  ASSUME PoolInv, WaitersListed, UNCHANGED <<ongoing, resuming>>,
         \A r \in Refs : ref'[r].pc = "waiting" => ref'[r] = ref[r]
  PROVE  WaitersListed'
BY ListedKept DEF WaitList

(* A reference that goes leaves the others as they are.                    *)
LEMMA RefReleased ==
  ASSUME TypeOK, NEW r \in Refs, Drop(r) \/ Finish(r) \/ EndPrefetch(r)
  PROVE  /\ ref[r].pc = "held" /\ ref'[r] = FreeRef /\ \A x \in Refs \ {r} : ref'[x] = ref[x]
         /\ unlock_slot(ref[r].slot, slot[ref[r].slot])
         /\ UNCHANGED <<buffer, disk, page_table, ongoing, io, resuming, live, fault>>
BY DEF Drop, Finish, EndPrefetch, Release, TypeOK

LEMMA ListedNext == PoolInv /\ WaitersListed /\ [Next]_vars => WaitersListed'
<1> SUFFICES ASSUME PoolInv, WaitersListed, [Next]_vars
             PROVE  WaitersListed'
  OBVIOUS
<1>0. TypeOK /\ ListInv
  BY DEF PoolInv
<1>1. CASE UNCHANGED vars
  BY <1>1, ListedRest DEF vars
<1>2. ASSUME NEW r \in Refs, Asks(r) \/ Drop(r) \/ Finish(r) \/ Write(r) \/ EndPrefetch(r)
      PROVE  WaitersListed'
  <2>1. CASE Write(r)
    BY <2>1, ListedRest DEF Write
  <2>2. CASE Drop(r) \/ Finish(r) \/ EndPrefetch(r)
    BY <1>0, <2>2, RefReleased, ListedRest DEF FreeRef
  <2>3. QED
    BY <1>2, <2>1, <2>2, ListedAsks
<1>3. ASSUME NEW t \in Tasks, NEW p \in Pages, AwaitPrefetch(t) \/ RemovePage(t, p)
      PROVE  WaitersListed'
  BY <1>3, ListedRest DEF AwaitPrefetch, RemovePage
<1>4. ASSUME NEW t \in Tasks, AwaitPrefetch(t)
      PROVE  WaitersListed'
  BY <1>4, ListedRest DEF AwaitPrefetch
<1>5. ASSUME NEW q \in Pages, NEW n \in DOMAIN io[q],
             EvictWritten(q, n) \/ LoadRead(q, n) \/ FlushWritten(q, n)
      PROVE  WaitersListed'
  <2>1. resuming = NotResuming /\ ref' = ref
    BY <1>0, <1>5, ServedStack DEF EvictWritten, LoadRead, FlushWritten
  <2>2. CASE UNCHANGED <<ongoing, resuming>>
    BY <2>1, <2>2, ListedRest
  <2>3. CASE \E p \in Pages : FinishLoad(p, io[q][n].slot)
    BY <2>1, <2>3, ListHanded, ListedKept
  <2>4. QED
    BY <1>5, <2>2, <2>3 DEF EvictWritten, LoadRead, FlushWritten
<1>6. CASE FlushAll \/ Reopen
  BY <1>6, ListedRest DEF FlushAll, Reopen
<1>7. QED
  BY <1>1, <1>2, <1>3, <1>4, <1>5, <1>6, ListedResumes DEF Next, Step, Aborted

(* Whoever waits for a page is on the list of its load, or of the loop     *)
(* that resumes the waiters of a finished one: a coroutine that suspended  *)
(* in acquire_page_in_slot is never forgotten.                             *)
THEOREM NobodyForgotten == Spec => []WaitersListed
<1>1. Init => WaitersListed
  BY DEF Init, FreeRef, WaitersListed
<1>2. QED
  BY <1>1, ListedNext, PoolInvCorrect, PTL DEF Spec

-------------------------------------------------------------------------------
(***************************************************************************)
(* Who may write a page has it in his slot, and it is marked dirty.        *)
(***************************************************************************)
MayWrite(r) == ref[r].pc = "held" /\ ref[r].mode # "const"

WritersInv ==
  /\ \A r \in Refs : r[1] \in Prefetchers => ref[r].mode = "const"
  /\ fault # "mismatch" =>
       \A r \in Refs : MayWrite(r) =>
         /\ ref[r].page \in Pages
         /\ slot[ref[r].slot].page = ref[r].page /\ slot[ref[r].slot].is_dirty

LEMMA WritersKept ==
  ASSUME WritersInv, fault' # "mismatch" => fault # "mismatch",
         \A r \in Refs : r[1] \in Prefetchers => ref'[r].mode = "const",
         \A r \in Refs : MayWrite(r)' => ref'[r] = ref[r],
         \A r \in Refs : MayWrite(r) /\ MayWrite(r)' =>
           /\ slot'[ref[r].slot].page = slot[ref[r].slot].page
           /\ slot[ref[r].slot].is_dirty => slot'[ref[r].slot].is_dirty
  PROVE  WritersInv'
<1> SUFFICES ASSUME fault' # "mismatch", NEW r \in Refs, MayWrite(r)'
             PROVE  /\ ref'[r].page \in Pages
                    /\ slot'[ref'[r].slot].page = ref'[r].page /\ slot'[ref'[r].slot].is_dirty
  BY DEF WritersInv
<1>1. ref'[r] = ref[r] /\ MayWrite(r)
  BY DEF MayWrite
<1>2. QED
  BY <1>1 DEF WritersInv

LEMMA WritersGained ==
  ASSUME TypeOK, WritersInv, NEW r \in Refs, NEW p \in Pages, NEW s \in Slots,
         NEW h \in Headers, NEW mode \in Modes, Construct(r, p, s, h, mode),
         r[1] \in Prefetchers => mode = "const",
         \/ h.page = slot[s].page /\ (slot[s].is_dirty => h.is_dirty)
         \/ \A x \in Refs : ref[x].pc = "held" => ref[x].slot # s,
         fault # "mismatch"
  PROVE  WritersInv'
<1>1. /\ slot'[s] = Referenced(h, mode) /\ \A x \in Slots \ {s} : slot'[x] = slot[x]
      /\ fault' = IF h.page = p THEN fault ELSE "mismatch"
  BY ConstructShape
<1>2. /\ ref'[r].page = p /\ ref'[r].slot = s
      /\ ref'[r].mode = IF mode = "init" THEN "mut" ELSE mode
      /\ \A x \in Refs \ {r} : ref'[x] = ref[x]
  BY RefGained
<1>3. slot'[s].page = h.page /\ (slot'[s].is_dirty <=> h.is_dirty \/ mode # "const")
  <2> PICK g : g = Referenced(h, mode)
    OBVIOUS
  <2>1. g.page = h.page /\ (g.is_dirty <=> h.is_dirty \/ mode # "const")
    BY ReferencedShape
  <2>2. slot'[s] = g
    BY <1>1
  <2>3. QED
    BY <2>1, <2>2
<1>4. \A x \in Refs : x[1] \in Prefetchers => ref'[x].mode = "const"
  BY <1>2 DEF WritersInv
<1>5. ASSUME fault' # "mismatch", NEW x \in Refs, MayWrite(x)'
      PROVE  /\ ref'[x].page \in Pages
             /\ slot'[ref'[x].slot].page = ref'[x].page /\ slot'[ref'[x].slot].is_dirty
  <2>1. CASE x = r
    BY <1>1, <1>2, <1>3, <1>5, <2>1 DEF MayWrite
  <2>2. CASE x # r
    <3>1. ref'[x] = ref[x] /\ MayWrite(x)
      BY <1>2, <1>5, <2>2 DEF MayWrite
    <3>2. ref[x].page \in Pages /\ slot[ref[x].slot].page = ref[x].page /\ slot[ref[x].slot].is_dirty
      BY <3>1 DEF WritersInv
    <3>3. CASE ref[x].slot = s
      BY <1>3, <3>1, <3>2, <3>3 DEF MayWrite
    <3>4. CASE ref[x].slot # s
      <4>1. slot'[ref[x].slot] = slot[ref[x].slot]
        BY <3>4 DEF Construct, TypeOK
      <4>2. QED
        BY <3>1, <3>2, <4>1
    <3>5. QED
      BY <3>3, <3>4
  <2>3. QED
    BY <2>1, <2>2
<1>6. QED
  BY <1>4, <1>5 DEF WritersInv

(* What a coroutine may ask for.                                           *)
LEMMA AsksFor ==
  ASSUME NEW r \in Refs, Asks(r)
  PROVE  \E p \in Pages, mode \in Modes :
           /\ ref[r].pc = "free" /\ MayRequest(r) /\ Acquire(r, p, mode)
           /\ r[1] \in Prefetchers => mode = "const"
           /\ mode = "init" =>
                /\ p \notin live
                /\ \A x \in Refs : ~(/\ ref[x].pc = "waiting" /\ ref[x].page = p
                                     /\ ref[x].mode = "init")
           /\ mode # "init" => p \in live
BY DEF Asks, Reference, Create, MayRequest, Modes

LEMMA WritersAsk ==
  ASSUME PoolInv, WritersInv, fault = "none", NEW r \in Refs, Asks(r)
  PROVE  WritersInv'
<1>0. TypeOK /\ ListInv /\ MapInv /\ SlotInv
  BY DEF PoolInv
<1>1. PICK p \in Pages, mode \in Modes :
        /\ ref[r].pc = "free" /\ Acquire(r, p, mode)
        /\ r[1] \in Prefetchers => mode = "const"
  BY AsksFor
<1>2. ASSUME NEW s \in Slots, Construct(r, p, s, slot[s], mode)
      PROVE  WritersInv'
  <2> PICK h \in Headers : h = slot[s]
    BY <1>0 DEF TypeOK
  <2>1. Construct(r, p, s, h, mode)
    BY <1>2
  <2>2. QED
    BY <1>0, <1>1, <2>1, WritersGained
<1>3. ASSUME NEW lead, Waits(r, p, mode, lead), fault' = fault,
             \A x \in Slots : slot'[x].page = slot[x].page /\ slot'[x].is_dirty = slot[x].is_dirty
      PROVE  WritersInv'
  <2>1. /\ ref'[r].pc = "waiting" /\ ref'[r].mode = mode
        /\ \A x \in Refs \ {r} : ref'[x] = ref[x]
    BY <1>0, <1>3 DEF Waits, TypeOK
  <2>2. \A x \in Refs : x[1] \in Prefetchers => ref'[x].mode = "const"
    BY <1>1, <2>1 DEF WritersInv
  <2>3. \A x \in Refs : MayWrite(x)' => ref'[x] = ref[x]
    BY <2>1 DEF MayWrite
  <2>4. \A x \in Refs : MayWrite(x) => ref[x].slot \in Slots
    BY <1>0 DEF MayWrite, SlotInv, HeldSlots
  <2>5. QED
    BY <1>3, <2>2, <2>3, <2>4, WritersKept
<1>4. CASE Hit(r, p, mode)
  BY <1>0, <1>2, <1>4 DEF Hit, TypeOK
<1>5. CASE JoinFinished(r, p, mode)
  <2>1. ongoing[p].slot \in Slots
    BY <1>0, <1>5, PoolAssumption DEF JoinFinished, ListInv, ResumingOwnsLoad, NotResuming
  <2>2. QED
    BY <1>2, <1>5, <2>1 DEF JoinFinished
<1>6. CASE Join(r, p, mode)
  BY <1>3, <1>6 DEF Join
<1>7. CASE Lead(r, p, mode)
  <2>1. PICK s \in Victims : LeadSuspends(r, p, mode, s) \/ LeadAtOnce(r, p, mode, s)
    BY <1>7 DEF Lead
  <2>2. s \in Slots /\ Pins(s) = 0
    BY <1>0, VictimFree
  <2>3. CASE LeadAtOnce(r, p, mode, s)
    <3> PICK h \in Headers : h = ResetHeader(p)
      BY ResetShape
    <3>1. Construct(r, p, s, h, mode)
      BY <2>3 DEF LeadAtOnce
    <3>2. \A x \in Refs : ref[x].pc = "held" => ref[x].slot # s
      BY <2>2, PinsNatural
    <3>3. QED
      BY <1>0, <1>1, <2>2, <3>1, <3>2, WritersGained
  <2>4. CASE LeadSuspends(r, p, mode, s)
    <3>1. Waits(r, p, mode, TRUE) /\ fault' = fault /\ slot' = [slot EXCEPT ![s].queued = FALSE]
      BY <2>4 DEF LeadSuspends
    <3>2. \A x \in Slots : slot'[x].page = slot[x].page /\ slot'[x].is_dirty = slot[x].is_dirty
      BY <1>0, <2>2, <3>1 DEF TypeOK, Headers
    <3>3. QED
      BY <1>3, <3>1, <3>2
  <2>5. QED
    BY <2>1, <2>3, <2>4
<1>8. CASE Overflow(p)
  BY <1>8, WritersKept DEF Overflow, WritersInv
<1>9. QED
  BY <1>1, <1>4, <1>5, <1>6, <1>7, <1>8 DEF Acquire

(* A request that moves a page is on a slot nobody has.                    *)
LEMMA ServedSlot ==
  ASSUME PoolInv, NEW q \in Pages, NEW n \in DOMAIN io[q], NEW s, s = io[q][n].slot,
         EvictWritten(q, n) \/ LoadRead(q, n)
  PROVE  /\ s \in Slots /\ InTransit(s) /\ resuming = NotResuming
         /\ \A r \in Refs : ref[r].pc = "held" => ref[r].slot # s
         /\ \A p \in Pages : page_table[p] # s
         /\ \A x \in Slots \ {s} : slot'[x] = slot[x]
         /\ UNCHANGED <<zero_key, ref, current, live, fault>>
<1>0. TypeOK /\ ListInv /\ MapInv /\ TransitRequests /\ SlotInv
  BY DEF PoolInv
<1>1. /\ resuming = NotResuming /\ s \in Slots
      /\ io[q][n].kind \in {"evict", "load"}
  BY <1>0, ServedStack DEF EvictWritten, LoadRead
<1>2. \E p \in Pages : <<p, s>> \in Underway
  BY <1>0, <1>1 DEF TransitRequests, RequestsOK
<1>3. InTransit(s)
  BY <1>1, <1>2, UnderwayIs
<1>4. Pins(s) = 0
  BY <1>0, <1>1, <1>3, TransitSlot
<1>5. \A r \in Refs : ref[r].pc = "held" => ref[r].slot # s
  BY <1>4, PinsNatural
<1>6. \A p \in Pages : page_table[p] # s
  BY <1>0, <1>1, <1>3 DEF MapInv, PageInOneSlot
<1>7. \A x \in Slots \ {s} : slot'[x] = slot[x]
  BY <1>0 DEF EvictWritten, LoadRead, FinishLoad, TypeOK
<1>8. QED
  BY <1>1, <1>3, <1>5, <1>6, <1>7 DEF EvictWritten, LoadRead

LEMMA WritersServe ==
  ASSUME PoolInv, WritersInv, NEW q \in Pages, NEW n \in DOMAIN io[q],
         EvictWritten(q, n) \/ LoadRead(q, n) \/ FlushWritten(q, n)
  PROVE  WritersInv'
<1>0. SlotInv
  BY DEF PoolInv
<1>1. CASE FlushWritten(q, n)
  BY <1>1, WritersKept DEF FlushWritten, WritersInv
<1>2. CASE EvictWritten(q, n) \/ LoadRead(q, n)
  <2> PICK s : s = io[q][n].slot
    OBVIOUS
  <2>1. /\ \A r \in Refs : ref[r].pc = "held" => ref[r].slot # s
        /\ \A x \in Slots \ {s} : slot'[x] = slot[x]
        /\ UNCHANGED <<ref, fault>>
    BY <1>2, ServedSlot
  <2>2. \A r \in Refs : MayWrite(r) => slot'[ref[r].slot] = slot[ref[r].slot]
    BY <1>0, <2>1 DEF MayWrite, SlotInv, HeldSlots
  <2>3. QED
    BY <2>1, <2>2, WritersKept DEF WritersInv
<1>3. QED
  BY <1>1, <1>2

LEMMA WritersResume ==
  ASSUME PoolInv, WritersInv, fault = "none", Resume
  PROVE  WritersInv'
<1>0. TypeOK /\ ListInv /\ SlotInv
  BY DEF PoolInv
<1>1. resuming.waiters # <<>> /\ resuming # NotResuming
  BY DEF Resume, NotResuming
<1> PICK r, p, s, h : /\ r = Last(resuming.waiters) /\ p = resuming.page
                      /\ s = resuming.slot /\ h = Unpinned(r)
  OBVIOUS
<1>2. r \in Refs /\ p \in Pages /\ s \in Slots
  BY <1>0, <1>1, FrontIs, ResumedWaited DEF TypeOK
<1>3. slot[s] \in Headers
  BY <1>0, <1>2 DEF TypeOK
<1>4. h \in Headers /\ h.page = slot[s].page /\ (h.is_dirty <=> slot[s].is_dirty)
  <2>1. h \in Headers
    BY <1>0, <1>2, UnpinnedShape
  <2>2. h.page = slot[s].page
    BY <1>0, <1>2, UnpinnedShape
  <2>3. h.is_dirty = slot[s].is_dirty
    BY <1>3 DEF Unpinned, Headers
  <2>4. QED
    BY <2>1, <2>2, <2>3
<1>5. PICK mode \in Modes : mode = ref[r].mode
  BY <1>0, <1>2 DEF TypeOK, References, Modes
<1>6. Construct(r, p, s, h, mode)
  BY <1>5 DEF Resume, ResumeWaiter
<1>7. r[1] \in Prefetchers => mode = "const"
  BY <1>2, <1>5 DEF WritersInv
<1>8. QED
  BY <1>0, <1>2, <1>4, <1>6, <1>7, WritersGained

(* A slot keeps its page and stays dirty when a pin goes.                  *)
LEMMA SlotUnpinned ==
  ASSUME PoolInv, NEW r \in Refs, Drop(r) \/ Finish(r) \/ EndPrefetch(r)
  PROVE  \A x \in Slots : /\ slot'[x].page = slot[x].page
                          /\ slot'[x].is_dirty <=> slot[x].is_dirty
<1>0. TypeOK /\ SlotInv
  BY DEF PoolInv
<1>1. ref[r].pc = "held" /\ unlock_slot(ref[r].slot, slot[ref[r].slot])
  BY <1>0, RefReleased
<1> PICK s, h : s = ref[r].slot /\ h = slot[s]
  OBVIOUS
<1>2. s \in Slots /\ h \in Headers
  BY <1>0, <1>1 DEF SlotInv, HeldSlots, TypeOK
<1>3. h.lock_count > 0
  BY <1>0, <1>1, <1>2, PinnedSlot
<1>4. unlock_slot(s, h)
  BY <1>1
<1>5. /\ slot'[s].page = h.page /\ (slot'[s].is_dirty <=> h.is_dirty)
      /\ \A x \in Slots \ {s} : slot'[x] = slot[x]
  BY <1>0, <1>2, <1>3, <1>4, UnlockShape
<1>6. QED
  BY <1>5

LEMMA WritersRelease ==
  ASSUME PoolInv, WritersInv, NEW r \in Refs, Drop(r) \/ Finish(r) \/ EndPrefetch(r)
  PROVE  WritersInv'
<1>0. TypeOK /\ SlotInv
  BY DEF PoolInv
<1>1. /\ ref'[r] = FreeRef /\ \A x \in Refs \ {r} : ref'[x] = ref[x]
      /\ fault' = fault
  BY <1>0, RefReleased
<1>2. \A x \in Refs : MayWrite(x) => ref[x].slot \in Slots
  BY <1>0 DEF MayWrite, SlotInv, HeldSlots
<1>3. \A x \in Refs : x[1] \in Prefetchers => ref'[x].mode = "const"
  BY <1>1 DEF WritersInv, FreeRef
<1>4. \A x \in Refs : MayWrite(x)' => ref'[x] = ref[x]
  BY <1>1 DEF MayWrite, FreeRef
<1>5. QED
  BY <1>1, <1>2, <1>3, <1>4, SlotUnpinned, WritersKept

(* The slot of a page that is removed, and the rest of the pool.           *)
LEMMA PageRemoved ==
  ASSUME PoolInv, NEW t \in Tasks, NEW p \in Pages, RemovePage(t, p)
  PROVE  /\ \A x \in Slots : slot[x].page # p \/ InTransit(x) => slot'[x] = slot[x]
         /\ \A q \in Pages \ {p} : page_table'[q] = page_table[q]
         /\ page_table'[p] = NoSlot
<1>0. TypeOK /\ MapInv
  BY DEF PoolInv
<1>1. CASE page_table[p] = NoSlot /\ UNCHANGED <<slot, zero_key, page_table>>
  BY <1>1
<1>2. CASE \E s \in Slots :
             /\ page_table[p] = s
             /\ page_table' = [page_table EXCEPT ![p] = NoSlot]
             /\ unlock_slot(s, [lock_slot(slot[s]) EXCEPT
                                  !.page = NoPage, !.is_dirty = FALSE, !.used = FALSE])
  <2>1. PICK s \in Slots :
          /\ page_table[p] = s
          /\ page_table' = [page_table EXCEPT ![p] = NoSlot]
          /\ \E h : unlock_slot(s, h)
    BY <1>2
  <2>2. slot[s].page = p /\ ~InTransit(s)
    BY <1>0, <2>1, PoolAssumption DEF MapInv, PageInOneSlot
  <2>3. \A x \in Slots \ {s} : slot'[x] = slot[x]
    BY <1>0, <2>1 DEF unlock_slot, TypeOK
  <2>4. QED
    BY <1>0, <2>1, <2>2, <2>3 DEF TypeOK
<1>3. QED
  BY <1>1, <1>2 DEF RemovePage

LEMMA WritersRemove ==
  ASSUME PoolInv, WritersInv, fault = "none", NEW t \in Tasks, NEW p \in Pages, RemovePage(t, p)
  PROVE  WritersInv'
<1>0. SlotInv
  BY DEF PoolInv
<1>1. /\ UNCHANGED <<ref, fault>>
      /\ \A r \in Refs : ref[r].page = p /\ r[1] \notin Prefetchers => ref[r].mode = "const"
  BY DEF RemovePage
<1>2. \A r \in Refs : MayWrite(r) => ref[r].slot \in Slots /\ slot[ref[r].slot].page # p
  BY <1>0, <1>1 DEF WritersInv, MayWrite, SlotInv, HeldSlots
<1>3. \A r \in Refs : MayWrite(r) => slot'[ref[r].slot] = slot[ref[r].slot]
  BY <1>2, PageRemoved
<1>4. QED
  BY <1>1, <1>3, WritersKept DEF WritersInv

(* When no coroutine is under way nobody holds or waits for anything.      *)
LEMMA IdleRefs == AllIdle => \A r \in Refs : ref[r].pc = "free"
BY PoolAssumption DEF AllIdle, Idle, Refs

LEMMA WritersNext == PoolInv /\ WritersInv /\ [Next]_vars => WritersInv'
<1> SUFFICES ASSUME PoolInv, WritersInv, [Next]_vars
             PROVE  WritersInv'
  OBVIOUS
<1>1. CASE UNCHANGED vars
  BY <1>1, WritersKept DEF vars, WritersInv
<1>2. ASSUME fault = "none", NEW r \in Refs,
             Asks(r) \/ Drop(r) \/ Finish(r) \/ Write(r) \/ EndPrefetch(r)
      PROVE  WritersInv'
  <2>1. CASE Write(r)
    BY <2>1, WritersKept DEF Write, WritersInv
  <2>2. QED
    BY <1>2, <2>1, WritersAsk, WritersRelease
<1>3. ASSUME NEW t \in Tasks, AwaitPrefetch(t)
      PROVE  WritersInv'
  BY <1>3, WritersKept DEF AwaitPrefetch, WritersInv
<1>4. ASSUME fault = "none", NEW t \in Tasks, NEW p \in Pages, RemovePage(t, p)
      PROVE  WritersInv'
  BY <1>4, WritersRemove
<1>5. ASSUME NEW q \in Pages, NEW n \in DOMAIN io[q],
             EvictWritten(q, n) \/ LoadRead(q, n) \/ FlushWritten(q, n)
      PROVE  WritersInv'
  BY <1>5, WritersServe
<1>6. CASE fault = "none" /\ Resume
  BY <1>6, WritersResume
<1>7. CASE FlushAll \/ Reopen
  <2>1. UNCHANGED <<ref, fault>> /\ AllIdle
    BY <1>7 DEF FlushAll, Reopen
  <2>2. \A r \in Refs : ~MayWrite(r)
    BY <2>1, IdleRefs DEF MayWrite
  <2>3. \A r \in Refs : ~MayWrite(r)'
    BY <2>1, <2>2 DEF MayWrite
  <2>4. QED
    BY <2>1, <2>2, <2>3, WritersKept DEF WritersInv
<1>8. QED
  BY <1>1, <1>2, <1>3, <1>4, <1>5, <1>6, <1>7 DEF Next, Step, Aborted

(* A page that may be written is marked dirty from the moment its          *)
(* reference is constructed until the reference goes: an eviction or a     *)
(* flush never takes it for clean.                                         *)
THEOREM WritersAreMarked == Spec => []WritersInv
<1>1. Init => WritersInv
  BY DEF Init, FreeRef, WritersInv, MayWrite
<1>2. QED
  BY <1>1, WritersNext, PoolInvCorrect, PTL DEF Spec

-------------------------------------------------------------------------------
(***************************************************************************)
(* Requests of the disk, one by one.                                       *)
(***************************************************************************)
LEMMA ServedIs ==
  ASSUME NEW f \in AllRequests, NEW q \in Pages, NEW n \in DOMAIN f[q], NEW g, g = Served(f, q, n)
  PROVE  /\ g \in AllRequests /\ \A u \in Pages \ {q} : g[u] = f[u]
         /\ n \in Nat \ {0} /\ Len(f[q]) \in Nat
         /\ DOMAIN g[q] = 1 .. Len(f[q]) - 1 /\ DOMAIN f[q] = 1 .. Len(f[q])
         /\ \A m \in DOMAIN g[q] : g[q][m] = IF m < n THEN f[q][m] ELSE f[q][m + 1]
<1>1. f[q] \in Seq(Requests) /\ n \in 1 .. Len(f[q]) /\ Len(f[q]) \in Nat
  BY DEF AllRequests
<1>2. /\ RemoveAt(f[q], n) \in Seq(Requests) /\ Len(RemoveAt(f[q], n)) = Len(f[q]) - 1
      /\ \A m \in 1 .. Len(f[q]) - 1 :
           RemoveAt(f[q], n)[m] = IF m < n THEN f[q][m] ELSE f[q][m + 1]
  BY <1>1, RemoveAtIs
<1>3. g[q] = RemoveAt(f[q], n) /\ \A u \in Pages \ {q} : g[u] = f[u]
  BY DEF AllRequests, Served
<1>4. g \in AllRequests
  BY <1>2 DEF AllRequests, Served
<1>5. DOMAIN g[q] = 1 .. Len(f[q]) - 1 /\ DOMAIN f[q] = 1 .. Len(f[q])
  BY <1>1, <1>2, <1>3
<1>6. \A m \in DOMAIN g[q] : g[q][m] = IF m < n THEN f[q][m] ELSE f[q][m + 1]
  BY <1>2, <1>3, <1>5
<1>7. n \in Nat \ {0} /\ Len(f[q]) \in Nat
  BY <1>1
<1>8. QED
  BY <1>3, <1>4, <1>5, <1>6, <1>7, Zenon

Kinds == {"evict", "load", "flush"}

LEMMA AddedIs ==
  ASSUME NEW f \in AllRequests, NEW p \in Pages, NEW kind \in Kinds,
         NEW s \in Slots, NEW g, g = Added(f, p, kind, s)
  PROVE  /\ g \in AllRequests /\ \A u \in Pages \ {p} : g[u] = f[u]
         /\ Len(f[p]) \in Nat
         /\ DOMAIN g[p] = 1 .. Len(f[p]) + 1 /\ DOMAIN f[p] = 1 .. Len(f[p])
         /\ \A m \in DOMAIN f[p] : g[p][m] = f[p][m]
         /\ g[p][Len(f[p]) + 1].kind = kind /\ g[p][Len(f[p]) + 1].slot = s
<1> DEFINE e == [kind |-> kind, slot |-> s]
<1>1. f[p] \in Seq(Requests) /\ e \in Requests
  BY DEF AllRequests, Requests, Kinds
<1>2. e.kind = kind /\ e.slot = s
  OBVIOUS
<1>3. g = [f EXCEPT ![p] = Append(f[p], e)] /\ f \in [Pages -> Seq(Requests)]
  BY DEF AllRequests, Added
<1> HIDE DEF e
<1>4. /\ Append(f[p], e) \in Seq(Requests) /\ Len(Append(f[p], e)) = Len(f[p]) + 1
      /\ Len(f[p]) \in Nat
      /\ \A i \in 1 .. Len(f[p]) : Append(f[p], e)[i] = f[p][i]
      /\ Append(f[p], e)[Len(f[p]) + 1] = e
  BY <1>1, AppendIs
<1>5. /\ g[p] = Append(f[p], e) /\ \A u \in Pages \ {p} : g[u] = f[u]
      /\ g \in AllRequests
  BY <1>3, <1>4 DEF AllRequests
<1>6. DOMAIN g[p] = 1 .. Len(f[p]) + 1 /\ DOMAIN f[p] = 1 .. Len(f[p])
  BY <1>1, <1>4, <1>5
<1>7. QED
  BY <1>2, <1>4, <1>5, <1>6

(* Requests that write what a flush found.                                 *)
Flushes(f) == \E p \in Pages : \E n \in DOMAIN f[p] : f[p][n].kind = "flush"

LEMMA FlushesServed ==
  ASSUME NEW f \in AllRequests, NEW q \in Pages, NEW n \in DOMAIN f[q], NEW g, g = Served(f, q, n)
  PROVE  /\ g \in AllRequests
         /\ \A u \in Pages : \A m \in DOMAIN g[u] : \E k \in DOMAIN f[u] : g[u][m] = f[u][k]
         /\ Flushes(g) => Flushes(f)
<1>1. ASSUME NEW u \in Pages, NEW m \in DOMAIN g[u]
      PROVE  \E k \in DOMAIN f[u] : g[u][m] = f[u][k]
  <2>1. CASE u = q
    <3>1. /\ m \in 1 .. Len(f[q]) - 1 /\ DOMAIN f[q] = 1 .. Len(f[q]) /\ Len(f[q]) \in Nat
          /\ g[q][m] = f[q][m] \/ g[q][m] = f[q][m + 1]
      BY <2>1, ServedIs
    <3>2. m \in DOMAIN f[q] /\ m + 1 \in DOMAIN f[q]
      BY <3>1
    <3>3. QED
      BY <2>1, <3>1, <3>2
  <2>2. CASE u # q
    BY <2>2, ServedIs
  <2>3. QED
    BY <2>1, <2>2
<1>2. g \in AllRequests
  BY ServedIs
<1>3. QED
  BY <1>1, <1>2 DEF Flushes

LEMMA FlushesAdded ==
  ASSUME NEW f \in AllRequests, NEW p \in Pages, NEW op \in {"evict", "load"},
         NEW s \in Slots, NEW g, g = Added(f, p, op, s), Flushes(g)
  PROVE  Flushes(f)
<1>0. op \in Kinds /\ op # "flush"
  BY DEF Kinds
<1>1. PICK u \in Pages : \E m \in DOMAIN g[u] : g[u][m].kind = "flush"
  BY DEF Flushes
<1>2. PICK m \in DOMAIN g[u] : g[u][m].kind = "flush"
  BY <1>1
<1>3. CASE u # p
  <2>1. g[u] = f[u]
    BY <1>0, <1>3, AddedIs
  <2>2. QED
    BY <1>2, <2>1 DEF Flushes
<1>4. CASE u = p
  <2>1. /\ m \in 1 .. Len(f[p]) + 1 /\ DOMAIN f[p] = 1 .. Len(f[p]) /\ Len(f[p]) \in Nat
        /\ g[p][Len(f[p]) + 1].kind = op /\ \A k \in DOMAIN f[p] : g[p][k] = f[p][k]
    <3>1. m \in DOMAIN g[p]
      BY <1>2, <1>4
    <3>2. /\ DOMAIN g[p] = 1 .. Len(f[p]) + 1 /\ DOMAIN f[p] = 1 .. Len(f[p]) /\ Len(f[p]) \in Nat
          /\ g[p][Len(f[p]) + 1].kind = op /\ \A k \in DOMAIN f[p] : g[p][k] = f[p][k]
      BY <1>0, AddedIs
    <3>3. QED
      BY <3>1, <3>2
  <2>2. m # Len(f[p]) + 1
    BY <1>0, <1>2, <1>4, <2>1
  <2>3. m \in DOMAIN f[p]
    BY <2>1, <2>2
  <2>4. QED
    BY <1>2, <1>4, <2>1, <2>3 DEF Flushes
<1>5. QED
  BY <1>3, <1>4

-------------------------------------------------------------------------------
(***************************************************************************)
(* While flush_all waits for its writes nothing else happens.              *)
(***************************************************************************)
FlushInv ==
  Flushes(io) =>
    /\ AllIdle
    /\ \A s \in Slots : ~slot[s].is_dirty
    /\ \A q \in Pages : \A n \in DOMAIN io[q] :
         io[q][n].kind = "flush" => page_table[q] = io[q][n].slot

LEMMA FlushingIs == Flushing <=> Flushes(io)
BY DEF Flushing, Flushes

LEMMA FlushingIsNext == Flushing' <=> Flushes(io)'
BY FlushingIs, PTL

(* With nobody under way no page is.                                       *)
LEMMA IdlePool ==
  ASSUME PoolInv, AllIdle
  PROVE  /\ resuming.waiters = <<>> /\ \A p \in Pages : ongoing[p].slot = NoSlot
         /\ \A q \in Pages : \A n \in DOMAIN io[q] : io[q][n].kind = "flush"
<1>0. TypeOK /\ ListInv /\ TransitRequests
  BY DEF PoolInv
<1>1. \A r \in Refs : ref[r].pc = "free"
  BY IdleRefs
<1>2. \A p \in Pages : WaitList(p) = <<>>
  <2> SUFFICES ASSUME NEW p \in Pages, WaitList(p) # <<>>
               PROVE  FALSE
    OBVIOUS
  <2>1. 1 \in DOMAIN WaitList(p)
    BY <1>0, WaitListType
  <2>2. WaitList(p)[1] \in Refs /\ ref[WaitList(p)[1]].pc = "waiting"
    BY <1>0, <2>1, WaitListType DEF ListInv, ListsExact
  <2>3. QED
    BY <1>1, <2>2
<1>3. \A p \in Pages : ongoing[p].slot = NoSlot
  BY <1>0, <1>2, LoadingIs DEF ListInv, ListsExact, Loading
<1>4. resuming.waiters = <<>>
  BY <1>0, <1>3, PoolAssumption DEF ListInv, ResumingOwnsLoad, NotResuming
<1>5. Underway = {}
  BY <1>3, PoolAssumption DEF Underway
<1>6. ASSUME NEW q \in Pages, NEW n \in DOMAIN io[q]
      PROVE  io[q][n].kind = "flush"
  <2>1. io[q][n] \in Requests
    BY <1>0 DEF TypeOK
  <2>2. QED
    BY <1>0, <1>5, <2>1 DEF TransitRequests, RequestsOK, Requests
<1>7. QED
  BY <1>3, <1>4, <1>6

(* During a flush only its writes are left to happen.                      *)
LEMMA FlushAlone ==
  ASSUME PoolInv, FlushInv, Flushes(io), Next
  PROVE  UNCHANGED vars \/ \E q \in Pages : \E n \in DOMAIN io[q] : FlushWritten(q, n)
<1>1. AllIdle /\ \A s \in Slots : ~slot[s].is_dirty
  BY DEF FlushInv
<1>2. current = {} /\ \A r \in Refs : ref[r].pc = "free"
  BY <1>1, IdleRefs DEF AllIdle
<1>3. resuming.waiters = <<>> /\ \A p \in Pages : ongoing[p].slot = NoSlot
      /\ \A q \in Pages : \A n \in DOMAIN io[q] : io[q][n].kind = "flush"
  BY <1>1, IdlePool
<1>4. \A r \in Refs : ~MayRequest(r)
  BY <1>2, FlushingIs DEF MayRequest
<1>5. ASSUME NEW r \in Refs, Asks(r) \/ Drop(r) \/ Finish(r) \/ Write(r) \/ EndPrefetch(r)
      PROVE  FALSE
  BY <1>2, <1>4, <1>5 DEF Asks, Reference, Create, Drop, Finish, Release, Write, EndPrefetch
<1>6. ASSUME NEW t \in Tasks, NEW p \in Pages, AwaitPrefetch(t) \/ RemovePage(t, p)
      PROVE  FALSE
  BY <1>2, <1>6 DEF AwaitPrefetch, RemovePage
<1>7. ASSUME NEW q \in Pages, NEW n \in DOMAIN io[q], EvictWritten(q, n) \/ LoadRead(q, n)
      PROVE  FALSE
  BY <1>3, <1>7 DEF EvictWritten, LoadRead, Serves
<1>8. ASSUME NEW t \in Tasks, AwaitPrefetch(t)
      PROVE  FALSE
  BY <1>2, <1>8 DEF AwaitPrefetch
<1>9. ~Resume /\ ~FlushAll /\ ~Reopen
  BY <1>1, <1>3, FlushingIs DEF Resume, FlushAll, Reopen
<1>10. QED
  BY <1>5, <1>6, <1>7, <1>8, <1>9 DEF Next, Step, Aborted

(* Only a flush writes for a flush.                                        *)
LEMMA NoFlushStarts ==
  ASSUME PoolInv, ~Flushes(io), Next, ~FlushAll
  PROVE  ~Flushes(io')
<1>0. TypeOK /\ ListInv /\ SlotInv
  BY DEF PoolInv
<1> PICK f, g : f = io /\ g = io'
  OBVIOUS
<1>1. f \in AllRequests /\ ~Flushes(f)
  BY <1>0 DEF TypeOK, AllRequests
<1>2. CASE g = f
  BY <1>1, <1>2
<1>3. CASE \E p \in Pages, kind \in {"evict", "load"}, s \in Slots : g = Added(f, p, kind, s)
  BY <1>1, <1>3, FlushesAdded
<1>4. CASE \E q \in Pages : \E n \in DOMAIN f[q] :
             \/ g = Served(f, q, n)
             \/ \E p \in Pages, s \in Slots : g = Added(Served(f, q, n), p, "load", s)
  <2>1. PICK q \in Pages : \E n \in DOMAIN f[q] :
             \/ g = Served(f, q, n)
             \/ \E p \in Pages, s \in Slots : g = Added(Served(f, q, n), p, "load", s)
    BY <1>4
  <2>2. PICK n \in DOMAIN f[q] :
             \/ g = Served(f, q, n)
             \/ \E p \in Pages, s \in Slots : g = Added(Served(f, q, n), p, "load", s)
    BY <2>1
  <2> PICK h : h = Served(f, q, n)
    OBVIOUS
  <2>3. h \in AllRequests /\ ~Flushes(h)
    BY <1>1, FlushesServed
  <2>4. CASE g = h
    BY <2>3, <2>4
  <2>5. CASE \E p \in Pages, s \in Slots : g = Added(h, p, "load", s)
    BY <2>3, <2>5, FlushesAdded
  <2>6. QED
    BY <2>2, <2>4, <2>5
<1>5. ASSUME NEW q \in Pages, NEW n \in DOMAIN io[q],
             EvictWritten(q, n) \/ LoadRead(q, n) \/ FlushWritten(q, n)
      PROVE  ~Flushes(io')
  <2> PICK s : s = io[q][n].slot
    OBVIOUS
  <2>1. s \in Slots
    BY <1>0, <1>5, ServedStack DEF EvictWritten, LoadRead, FlushWritten
  <2>2. \/ io' = [io EXCEPT ![q] = RemoveAt(@, n)]
        \/ \E p \in Pages : io' = [[io EXCEPT ![q] = RemoveAt(@, n)] EXCEPT
                                     ![p] = Append(@, [kind |-> "load", slot |-> s])]
    BY <1>5 DEF EvictWritten, LoadRead, FlushWritten
  <2>3. g = Served(f, q, n) \/ \E p \in Pages : g = Added(Served(f, q, n), p, "load", s)
    BY <2>2 DEF Served, Added
  <2>4. QED
    BY <1>4, <2>1, <2>3
<1>6. ASSUME fault = "none", NEW r \in Refs, Asks(r)
      PROVE  ~Flushes(io')
  <2>1. PICK p \in Pages, mode \in Modes : Acquire(r, p, mode)
    BY <1>6, FreeAsks
  <2>2. CASE io' = io
    BY <1>2, <2>2
  <2>3. CASE Lead(r, p, mode) /\ io' # io
    <3>1. PICK s \in Victims : LeadSuspends(r, p, mode, s)
      BY <2>3 DEF Lead, LeadAtOnce
    <3>2. s \in Slots /\ (slot[s].is_dirty => slot[s].page \in Pages)
      BY <1>0, <1>6, VictimFree
    <3>3. \/ slot[s].is_dirty /\ g = Added(f, slot[s].page, "evict", s)
          \/ g = Added(f, p, "load", s)
      BY <3>1 DEF LeadSuspends, Submit, Added
    <3>4. QED
      BY <1>3, <3>2, <3>3
  <2>4. QED
    BY <2>1, <2>2, <2>3 DEF Acquire, Hit, Join, JoinFinished, Overflow
<1>7. QED
  BY <1>2, <1>5, <1>6 DEF Next, Step, Aborted, vars, Drop, Finish, Release, Write, EndPrefetch,
       AwaitPrefetch, RemovePage, Resume, ResumeWaiter, Reopen

LEMMA FlushStarts ==
  ASSUME PoolInv, FlushInv, FlushAll
  PROVE  FlushInv' /\ ~Flushes(io)
<1>0. TypeOK
  BY DEF PoolInv
<1>1. ~Flushes(io)
  BY DEF FlushAll, FlushInv
<1>2. /\ AllIdle /\ UNCHANGED <<ref, current, page_table>>
      /\ slot' = [s \in Slots |-> [slot[s] EXCEPT !.is_dirty = FALSE]]
      /\ io' = [p \in Pages |->
           IF page_table[p] # NoSlot /\ slot[page_table[p]].is_dirty
           THEN Append(io[p], [kind |-> "flush", slot |-> page_table[p]]) ELSE io[p]]
  BY DEF FlushAll
<1>3. AllIdle'
  BY <1>2 DEF AllIdle, Idle
<1>4. ASSUME NEW s \in Slots
      PROVE  ~slot'[s].is_dirty
  <2>1. slot[s] \in Headers
    BY <1>0 DEF TypeOK
  <2>2. QED
    BY <1>2, <2>1 DEF Headers
<1>5. ASSUME NEW q \in Pages, NEW n \in DOMAIN io'[q]
      PROVE  page_table[q] = io'[q][n].slot
  <2>1. DOMAIN io[q] = {}
    BY <1>1, <1>2, IdlePool DEF Flushes
  <2>2. page_table[q] \in Slots /\ slot[page_table[q]].is_dirty
    BY <1>0, <1>2, <1>5, <2>1 DEF TypeOK
  <2>3. io'[q] = Append(io[q], [kind |-> "flush", slot |-> page_table[q]])
    BY <1>2, <2>2, PoolAssumption
  <2> PICK a, e : a = io[q] /\ e = [kind |-> "flush", slot |-> page_table[q]]
    OBVIOUS
  <2>4. a \in Seq(Requests) /\ e \in Requests /\ e.slot = page_table[q]
    BY <1>0, <2>2 DEF TypeOK, Requests
  <2>5. Append(a, e) \in Seq(Requests) /\ Len(a) = 0 /\ Len(Append(a, e)) = 1 /\ Append(a, e)[1] = e
    <3>1. DOMAIN a = 1 .. Len(a) /\ Len(a) \in Nat
      BY <2>4
    <3>2. Len(a) = 0
      <4>1. Len(a) # 0 => 1 \in 1 .. Len(a)
        BY ONLY <3>1, SMT
      <4>2. 1 \notin DOMAIN a
        BY <2>1
      <4>3. QED
        BY <3>1, <4>1, <4>2, Zenon
    <3>3. /\ Append(a, e) \in Seq(Requests) /\ Len(Append(a, e)) = Len(a) + 1
          /\ Append(a, e)[Len(a) + 1] = e
      BY <2>4, AppendIs
    <3>4. Len(a) + 1 = 1
      BY <3>2
    <3>5. QED
      BY <3>2, <3>3, <3>4
  <2>6. n = 1
    BY <1>5, <2>3, <2>5
  <2>7. QED
    BY <2>3, <2>4, <2>5, <2>6
<1>6. QED
  BY <1>1, <1>2, <1>3, <1>4, <1>5 DEF FlushInv

LEMMA FlushNext == PoolInv /\ FlushInv /\ [Next]_vars => FlushInv'
<1> SUFFICES ASSUME PoolInv, FlushInv, [Next]_vars
             PROVE  FlushInv'
  OBVIOUS
<1>1. CASE UNCHANGED vars
  BY <1>1 DEF FlushInv, AllIdle, Idle, vars
<1>2. CASE Next /\ ~Flushes(io)
  BY <1>2, NoFlushStarts, FlushStarts DEF FlushInv
<1>3. CASE Next /\ Flushes(io)
  <2>1. CASE \E q \in Pages : \E n \in DOMAIN io[q] : FlushWritten(q, n)
    <3>1. PICK q \in Pages : \E n \in DOMAIN io[q] : FlushWritten(q, n)
      BY <2>1
    <3>2. PICK n \in DOMAIN io[q] : FlushWritten(q, n)
      BY <3>1
    <3>3. UNCHANGED <<slot, page_table, ref, current>>
          /\ io' = [io EXCEPT ![q] = RemoveAt(@, n)]
      BY <3>2 DEF FlushWritten
    <3> PICK f, g : f = io /\ g = io'
      OBVIOUS
    <3>4. f \in AllRequests /\ g = Served(f, q, n)
      BY <3>3 DEF PoolInv, TypeOK, AllRequests, Served
    <3>5. \A u \in Pages : \A m \in DOMAIN g[u] : \E k \in DOMAIN f[u] : g[u][m] = f[u][k]
      BY <3>4, FlushesServed
    <3>6. AllIdle' /\ \A s \in Slots : ~slot'[s].is_dirty
      BY <1>3, <3>3 DEF FlushInv, AllIdle, Idle
    <3>7. \A u \in Pages : \A k \in DOMAIN f[u] :
            f[u][k].kind = "flush" => page_table'[u] = f[u][k].slot
      BY <1>3, <3>3 DEF FlushInv
    <3>8. \A u \in Pages : \A m \in DOMAIN g[u] :
            g[u][m].kind = "flush" => page_table'[u] = g[u][m].slot
      BY <3>5, <3>7
    <3>9. QED
      BY <3>6, <3>8 DEF FlushInv
  <2>2. QED
    BY <1>1, <1>3, <2>1, FlushAlone
<1>4. QED
  BY <1>1, <1>2, <1>3

(* flush_all is alone with its writes: until they have been done no        *)
(* coroutine runs, no page moves and none becomes dirty.                   *)
THEOREM FlushUndisturbed == Spec => []FlushInv
<1>1. Init => FlushInv
  BY DEF Init, FlushInv, Flushes
<1>2. QED
  BY <1>1, FlushNext, PoolInvCorrect, PTL DEF Spec

-------------------------------------------------------------------------------
(***************************************************************************)
(* A page that is being created is nobody's until it has been initialised. *)
(***************************************************************************)
AwaitsNew(r) == ref[r].pc = "waiting" /\ ref[r].mode = "init"

NewInv ==
  /\ \A r \in Refs : AwaitsNew(r) => ref[r].page \notin live
  /\ \A r, x \in Refs : AwaitsNew(r) /\ AwaitsNew(x) /\ ref[r].page = ref[x].page => r = x
  /\ \A p \in Pages, r \in Refs :
       ongoing[p].is_new /\ ref[r].pc = "waiting" /\ ref[r].page = p /\ ref[r].is_lead
         => ref[r].mode = "init"

LEMMA NewKept ==
  ASSUME NewInv, live' \subseteq live,
         \A r \in Refs : ref'[r].pc = "waiting" => ref'[r] = ref[r],
         \A p \in Pages : ongoing'[p].is_new => ongoing[p].is_new
  PROVE  NewInv'
BY DEF NewInv, AwaitsNew

(* A page that is loaded without being read is not live.                   *)
LEMMA NewNotLive ==
  ASSUME PoolInv, NewInv, NEW p \in Pages, ongoing[p].slot \in Slots, ongoing[p].is_new
  PROVE  p \notin live
<1>0. TypeOK /\ ListInv
  BY DEF PoolInv
<1>1. WaitList(p) # <<>>
  BY <1>0, LoadingIs DEF ListInv, ListsExact
<1>2. 1 \in DOMAIN WaitList(p) /\ WaitList(p)[1] \in Refs
  BY <1>0, <1>1, WaitListType
<1> PICK r \in Refs : r = WaitList(p)[1]
  BY <1>2
<1>3. ref[r].pc = "waiting" /\ ref[r].page = p /\ ref[r].is_lead
  BY <1>0, <1>2 DEF ListInv, ListsExact
<1>4. QED
  BY <1>3 DEF NewInv, AwaitsNew

LEMMA NobodyWaits ==
  ASSUME PoolInv, WaitersListed, NEW p \in Pages, ~Loading(p), NEW r \in Refs,
         ref[r].pc = "waiting"
  PROVE  ref[r].page # p
<1>0. TypeOK /\ ListInv
  BY DEF PoolInv
<1>1. WaitList(p) = <<>>
  BY <1>0 DEF ListInv, ListsExact
<1>2. DOMAIN <<>> = {}
  OBVIOUS
<1>3. QED
  BY <1>1, <1>2 DEF WaitersListed, Listed

LEMMA NewGained ==
  ASSUME TypeOK, NewInv, NEW r \in Refs, NEW p, NEW s, NEW h, NEW mode, Construct(r, p, s, h, mode),
         mode = "init" => \A x \in Refs \ {r} : AwaitsNew(x) => ref[x].page # p,
         \A q \in Pages : ongoing'[q].is_new => ongoing[q].is_new
  PROVE  NewInv'
<1>1. ref'[r].pc = "held" /\ \A x \in Refs \ {r} : ref'[x] = ref[x]
  BY RefGained
<1>2. live' = live \/ (mode = "init" /\ live' = live \cup {p})
  <2>1. CASE mode = "init" /\ h.page = p
    BY <2>1 DEF Construct
  <2>2. CASE ~(mode = "init" /\ h.page = p)
    BY <2>2 DEF Construct
  <2>3. QED
    BY <2>1, <2>2
<1>3. QED
  BY <1>1, <1>2 DEF NewInv, AwaitsNew

LEMMA NewAsk ==
  ASSUME PoolInv, WaitersListed, NewInv, NEW r \in Refs, Asks(r)
  PROVE  NewInv'
<1>0. TypeOK
  BY DEF PoolInv
<1>1. PICK p \in Pages, mode \in Modes :
        /\ ref[r].pc = "free" /\ Acquire(r, p, mode)
        /\ mode = "init" =>
             /\ p \notin live
             /\ \A x \in Refs : ~(/\ ref[x].pc = "waiting" /\ ref[x].page = p
                                  /\ ref[x].mode = "init")
  BY AsksFor
<1>2. ASSUME NEW s, NEW h, Construct(r, p, s, h, mode), ongoing' = ongoing
      PROVE  NewInv'
  BY <1>0, <1>1, <1>2, NewGained DEF AwaitsNew
<1>3. ASSUME NEW lead, Waits(r, p, mode, lead), live' = live
      PROVE  /\ ref'[r].pc = "waiting" /\ ref'[r].page = p /\ ref'[r].mode = mode
             /\ ref'[r].is_lead = lead /\ \A x \in Refs \ {r} : ref'[x] = ref[x]
             /\ \A x \in Refs : AwaitsNew(x)' => ref'[x].page \notin live'
             /\ \A x, y \in Refs :
                  AwaitsNew(x)' /\ AwaitsNew(y)' /\ ref'[x].page = ref'[y].page => x = y
  <2>1. /\ ref'[r].pc = "waiting" /\ ref'[r].page = p /\ ref'[r].mode = mode
        /\ ref'[r].is_lead = lead /\ \A x \in Refs \ {r} : ref'[x] = ref[x]
    BY <1>0, <1>3 DEF Waits, TypeOK
  <2>2. \A x \in Refs : AwaitsNew(x)' => ref'[x].page \notin live'
    BY <1>1, <1>3, <2>1 DEF NewInv, AwaitsNew
  <2>3. \A x, y \in Refs :
          AwaitsNew(x)' /\ AwaitsNew(y)' /\ ref'[x].page = ref'[y].page => x = y
    BY <1>1, <2>1 DEF NewInv, AwaitsNew
  <2>4. QED
    BY <2>1, <2>2, <2>3
<1>4. CASE Hit(r, p, mode)
  BY <1>2, <1>4 DEF Hit
<1>5. CASE JoinFinished(r, p, mode)
  BY <1>2, <1>5 DEF JoinFinished
<1>6. CASE Join(r, p, mode)
  <2>1. Waits(r, p, mode, FALSE) /\ live' = live
        /\ ongoing' = [ongoing EXCEPT ![p].waiters = Append(@, r)]
    BY <1>6 DEF Join
  <2>2. \A q \in Pages : ongoing'[q].is_new => ongoing[q].is_new
    BY <1>0, <2>1 DEF TypeOK
  <2>3. \A q \in Pages, x \in Refs :
          ongoing'[q].is_new /\ ref'[x].pc = "waiting" /\ ref'[x].page = q /\ ref'[x].is_lead
            => ref'[x].mode = "init"
    <3> SUFFICES ASSUME NEW q \in Pages, NEW x \in Refs, ongoing'[q].is_new,
                        ref'[x].pc = "waiting", ref'[x].page = q, ref'[x].is_lead
                 PROVE  ref'[x].mode = "init"
      OBVIOUS
    <3>1. x # r
      BY <1>3, <2>1
    <3>2. ref'[x] = ref[x] /\ ongoing[q].is_new
      BY <1>3, <2>1, <2>2, <3>1
    <3>3. QED
      BY <3>2 DEF NewInv
  <2>4. QED
    BY <1>3, <2>1, <2>3 DEF NewInv
<1>7. CASE Lead(r, p, mode)
  <2>1. PICK s : LeadSuspends(r, p, mode, s) \/ LeadAtOnce(r, p, mode, s)
    BY <1>7 DEF Lead
  <2>2. CASE LeadAtOnce(r, p, mode, s)
    BY <1>2, <2>2 DEF LeadAtOnce
  <2>3. CASE LeadSuspends(r, p, mode, s)
    <3>1. Waits(r, p, mode, TRUE) /\ live' = live
          /\ ongoing' = [ongoing EXCEPT ![p] =
                           [slot |-> s, waiters |-> <<r>>, is_new |-> mode = "init"]]
      BY <2>3 DEF LeadSuspends
    <3> DEFINE new == mode = "init"
               l == [slot |-> s, waiters |-> <<r>>, is_new |-> new]
    <3>2. l.is_new = new
      OBVIOUS
    <3>3. ongoing' = [ongoing EXCEPT ![p] = l]
      BY <3>1
    <3> HIDE DEF l
    <3>4. ongoing'[p] = l /\ \A q \in Pages \ {p} : ongoing'[q] = ongoing[q]
      BY <1>0, <3>3 DEF TypeOK
    <3>5. ongoing'[p].is_new => mode = "init"
      BY <3>2, <3>4
    <3>6. \A x \in Refs : ref[x].pc = "waiting" => ref[x].page # p
      BY <1>7, NobodyWaits DEF Lead
    <3>7. \A q \in Pages, x \in Refs :
            ongoing'[q].is_new /\ ref'[x].pc = "waiting" /\ ref'[x].page = q /\ ref'[x].is_lead
              => ref'[x].mode = "init"
      <4> SUFFICES ASSUME NEW q \in Pages, NEW x \in Refs, ongoing'[q].is_new,
                          ref'[x].pc = "waiting", ref'[x].page = q, ref'[x].is_lead
                   PROVE  ref'[x].mode = "init"
        OBVIOUS
      <4>1. CASE x = r
        BY <1>3, <3>1, <3>5, <4>1
      <4>2. CASE x # r
        <5>1. ref'[x] = ref[x] /\ q # p
          BY <1>3, <3>1, <3>6, <4>2
        <5>2. ongoing[q].is_new
          BY <3>4, <5>1
        <5>3. QED
          BY <5>1, <5>2 DEF NewInv
      <4>3. QED
        BY <4>1, <4>2
    <3>8. QED
      BY <1>3, <3>1, <3>7 DEF NewInv
  <2>4. QED
    BY <2>1, <2>2, <2>3
<1>8. CASE Overflow(p)
  BY <1>8, NewKept DEF Overflow
<1>9. QED
  BY <1>1, <1>4, <1>5, <1>6, <1>7, <1>8 DEF Acquire

LEMMA NewResume ==
  ASSUME PoolInv, NewInv, Resume
  PROVE  NewInv'
<1>0. TypeOK /\ ListInv
  BY DEF PoolInv
<1> PICK r, p : r = Last(resuming.waiters) /\ p = resuming.page
  OBVIOUS
<1>1. r \in Refs /\ ref[r].pc = "waiting" /\ ref[r].page = p
  BY ListLeft
<1>2. /\ Construct(r, p, resuming.slot, Unpinned(r), ref[r].mode)
      /\ ongoing' = IF ref[r].is_lead THEN [ongoing EXCEPT ![p] = NoLoad] ELSE ongoing
  BY DEF Resume, ResumeWaiter
<1>3. \A q \in Pages : ongoing'[q].is_new => ongoing[q].is_new
  BY <1>0, <1>2 DEF TypeOK, NoLoad
<1>4. ref[r].mode = "init" => \A x \in Refs \ {r} : AwaitsNew(x) => ref[x].page # p
  BY <1>1 DEF NewInv, AwaitsNew
<1>5. QED
  BY <1>0, <1>1, <1>2, <1>3, <1>4, NewGained

LEMMA NewNext == PoolInv /\ WaitersListed /\ NewInv /\ [Next]_vars => NewInv'
<1> SUFFICES ASSUME PoolInv, WaitersListed, NewInv, [Next]_vars
             PROVE  NewInv'
  OBVIOUS
<1>0. TypeOK
  BY DEF PoolInv
<1>1. CASE UNCHANGED vars
  BY <1>1, NewKept DEF vars
<1>2. ASSUME NEW r \in Refs,
             Asks(r) \/ Drop(r) \/ Finish(r) \/ Write(r) \/ EndPrefetch(r)
      PROVE  NewInv'
  <2>1. CASE Write(r)
    BY <2>1, NewKept DEF Write
  <2>2. CASE Drop(r) \/ Finish(r) \/ EndPrefetch(r)
    BY <1>0, <2>2, RefReleased, NewKept DEF FreeRef
  <2>3. QED
    BY <1>2, <2>1, <2>2, NewAsk
<1>3. ASSUME NEW t \in Tasks, AwaitPrefetch(t)
      PROVE  NewInv'
  BY <1>3, NewKept DEF AwaitPrefetch
<1>4. ASSUME NEW t \in Tasks, NEW p \in Pages, RemovePage(t, p)
      PROVE  NewInv'
  BY <1>4, NewKept DEF RemovePage
<1>5. ASSUME NEW q \in Pages, NEW n \in DOMAIN io[q],
             EvictWritten(q, n) \/ LoadRead(q, n) \/ FlushWritten(q, n)
      PROVE  NewInv'
  <2>1. ref' = ref /\ live' = live
    BY <1>5 DEF EvictWritten, LoadRead, FlushWritten
  <2>2. ongoing' = ongoing \/ \E p \in Pages : ongoing' = [ongoing EXCEPT ![p].waiters = <<>>]
    BY <1>5 DEF EvictWritten, LoadRead, FlushWritten, FinishLoad
  <2> PICK w : w = <<>>
    OBVIOUS
  <2>3. \A p \in Pages : ongoing'[p].is_new => ongoing[p].is_new
    BY <1>0, <2>2, ZenonT(60) DEF TypeOK
  <2>4. QED
    BY <2>1, <2>3, NewKept
<1>6. CASE FlushAll \/ Reopen
  BY <1>6, NewKept DEF FlushAll, Reopen
<1>7. QED
  BY <1>1, <1>2, <1>3, <1>4, <1>5, <1>6, NewResume DEF Next, Step, Aborted

(* A page that is being created is asked for by one coroutine, is not part *)
(* of the file yet, and only its load may do without the bytes on disk.    *)
THEOREM NewPagesApart == Spec => []NewInv
<1>1. Init => NewInv
  BY DEF Init, FreeRef, NewInv, AwaitsNew, NoLoad
<1>2. QED
  BY <1>1, NewNext, NobodyForgotten, PoolInvCorrect, PTL DEF Spec

-------------------------------------------------------------------------------
(***************************************************************************)
(* With requests f under way, bytes b in the slots and d in the file, the  *)
(* last version of page p will be in the file once they are served.        *)
(***************************************************************************)
Writes(f, p, n) == f[p][n].kind # "load"

Carried(f, b, d, p) ==
  \/ d[p] = Newest(p) /\ \A n \in DOMAIN f[p] : ~Writes(f, p, n)
  \/ \E n \in DOMAIN f[p] :
       /\ Writes(f, p, n) /\ b[f[p][n].slot] = Newest(p)
       /\ \A m \in DOMAIN f[p] : m > n => ~Writes(f, p, m)

(* No page is written after it was asked to be read. *)
LoadsLast(f) ==
  \A p \in Pages : \A n, m \in DOMAIN f[p] : n < m /\ Writes(f, p, m) => Writes(f, p, n)

LEMMA CarriedKept ==
  ASSUME NEW f, NEW g, NEW b, NEW c, NEW d, NEW e, NEW p, Carried(f, b, d, p), g[p] = f[p],
         \A n \in DOMAIN f[p] : b[f[p][n].slot] = Newest(p) => c[f[p][n].slot] = Newest(p),
         d[p] = Newest(p) => e[p] = Newest(p)
  PROVE  Carried(g, c, e, p)
<1> PICK w : w = Newest(p)
  OBVIOUS
<1>1. \A n : Writes(g, p, n) <=> Writes(f, p, n)
  BY DEF Writes
<1>2. QED
  BY <1>1 DEF Carried

(* The first request on a page is served. *)
LEMMA FirstServed ==
  ASSUME NEW f \in AllRequests, NEW q \in Pages, 1 \in DOMAIN f[q], NEW g, g = Served(f, q, 1)
  PROVE  /\ g \in AllRequests /\ Len(f[q]) \in Nat /\ \A u \in Pages \ {q} : g[u] = f[u]
         /\ DOMAIN g[q] = 1 .. Len(f[q]) - 1 /\ DOMAIN f[q] = 1 .. Len(f[q])
         /\ \A m \in DOMAIN g[q] : m + 1 \in DOMAIN f[q] /\ m \in Nat /\ g[q][m] = f[q][m + 1]
<1> PICK n \in DOMAIN f[q] : n = 1
  OBVIOUS
<1>1. g = Served(f, q, n)
  OBVIOUS
<1>2. /\ g \in AllRequests /\ Len(f[q]) \in Nat /\ \A u \in Pages \ {q} : g[u] = f[u]
      /\ DOMAIN g[q] = 1 .. Len(f[q]) - 1 /\ DOMAIN f[q] = 1 .. Len(f[q])
  BY <1>1, ServedIs
<1>3. \A m \in DOMAIN g[q] : g[q][m] = IF m < n THEN f[q][m] ELSE f[q][m + 1]
  BY <1>1, ServedIs
<1>4. QED
  BY <1>2, <1>3

LEMMA CarriedFirst ==
  ASSUME NEW f \in AllRequests, NEW q \in Pages, 1 \in DOMAIN f[q], NEW g, g = Served(f, q, 1),
         NEW b, NEW d, NEW e, Carried(f, b, d, q), Writes(f, q, 1), e[q] = b[f[q][1].slot]
  PROVE  Carried(g, b, e, q)
<1>1. /\ Len(f[q]) \in Nat /\ \A u \in Pages \ {q} : g[u] = f[u]
      /\ DOMAIN g[q] = 1 .. Len(f[q]) - 1 /\ DOMAIN f[q] = 1 .. Len(f[q])
  BY FirstServed
<1>2. \A m \in DOMAIN g[q] : m + 1 \in DOMAIN f[q] /\ m \in Nat /\ g[q][m] = f[q][m + 1]
  BY FirstServed
<1>3. \A m \in DOMAIN g[q] : Writes(g, q, m) <=> Writes(f, q, m + 1)
  BY <1>2 DEF Writes
<1>4. PICK n \in DOMAIN f[q] :
        /\ Writes(f, q, n) /\ b[f[q][n].slot] = Newest(q)
        /\ \A m \in DOMAIN f[q] : m > n => ~Writes(f, q, m)
  BY DEF Carried
<1>5. CASE n = 1
  <2>1. e[q] = Newest(q)
    BY <1>4, <1>5
  <2>2. \A m \in DOMAIN g[q] : ~Writes(g, q, m)
    <3> SUFFICES ASSUME NEW m \in DOMAIN g[q]
                 PROVE  ~Writes(g, q, m)
      OBVIOUS
    <3>1. m + 1 \in DOMAIN f[q] /\ m + 1 > 1
      BY <1>1
    <3>2. QED
      BY <1>3, <1>4, <1>5, <3>1
  <2>3. QED
    BY <2>1, <2>2 DEF Carried
<1>6. CASE n # 1
  <2> PICK k : k = n - 1
    OBVIOUS
  <2>1. k \in DOMAIN g[q] /\ k + 1 = n
    BY <1>1, <1>4, <1>6
  <2>2. Writes(g, q, k) /\ b[g[q][k].slot] = Newest(q)
    BY <1>2, <1>3, <1>4, <2>1
  <2>3. \A m \in DOMAIN g[q] : m > k => ~Writes(g, q, m)
    <3> SUFFICES ASSUME NEW m \in DOMAIN g[q], m > k
                 PROVE  ~Writes(g, q, m)
      OBVIOUS
    <3>1. m + 1 \in DOMAIN f[q] /\ m + 1 > n
      BY <1>1, <2>1, SMTT(30)
    <3>2. QED
      BY <1>3, <1>4, <3>1
  <2>4. QED
    BY <2>1, <2>2, <2>3 DEF Carried
<1>7. QED
  BY <1>5, <1>6

LEMMA LoadsLastServed ==
  ASSUME NEW f \in AllRequests, LoadsLast(f), NEW q \in Pages, 1 \in DOMAIN f[q],
         NEW g, g = Served(f, q, 1)
  PROVE  LoadsLast(g)
<1>1. /\ Len(f[q]) \in Nat /\ \A u \in Pages \ {q} : g[u] = f[u]
      /\ DOMAIN g[q] = 1 .. Len(f[q]) - 1 /\ DOMAIN f[q] = 1 .. Len(f[q])
  BY FirstServed
<1>2. \A m \in DOMAIN g[q] : m + 1 \in DOMAIN f[q] /\ m \in Nat /\ g[q][m] = f[q][m + 1]
  BY FirstServed
<1>3. \A m \in DOMAIN g[q] : Writes(g, q, m) <=> Writes(f, q, m + 1)
  BY <1>2 DEF Writes
<1>4. \A u \in Pages \ {q} : \A m : Writes(g, u, m) <=> Writes(f, u, m)
  BY <1>1 DEF Writes
<1> SUFFICES ASSUME NEW u \in Pages, NEW n \in DOMAIN g[u], NEW m \in DOMAIN g[u],
                    n < m, Writes(g, u, m)
             PROVE  Writes(g, u, n)
  BY DEF LoadsLast
<1>5. CASE u = q
  <2>1. n + 1 \in DOMAIN f[q] /\ m + 1 \in DOMAIN f[q] /\ n + 1 < m + 1
    BY <1>2, <1>5
  <2>2. QED
    BY <1>3, <1>5, <2>1 DEF LoadsLast
<1>6. CASE u # q
  BY <1>1, <1>4, <1>6 DEF LoadsLast
<1>7. QED
  BY <1>5, <1>6

(* A read that comes first has no write before it, nor after it.           *)
LEMMA LoadFirst ==
  ASSUME NEW f \in AllRequests, LoadsLast(f), NEW q \in Pages, 1 \in DOMAIN f[q],
         NEW g, g = Served(f, q, 1), ~Writes(f, q, 1),
         NEW b, NEW c, NEW d, Carried(f, b, d, q)
  PROVE  d[q] = Newest(q) /\ Carried(g, c, d, q)
<1>1. /\ Len(f[q]) \in Nat /\ \A u \in Pages \ {q} : g[u] = f[u]
      /\ DOMAIN g[q] = 1 .. Len(f[q]) - 1 /\ DOMAIN f[q] = 1 .. Len(f[q])
  BY FirstServed
<1>2. \A m \in DOMAIN g[q] : m + 1 \in DOMAIN f[q] /\ m \in Nat /\ g[q][m] = f[q][m + 1]
  BY FirstServed
<1>3. \A m \in DOMAIN f[q] : ~Writes(f, q, m)
  <2> SUFFICES ASSUME NEW m \in DOMAIN f[q], Writes(f, q, m)
               PROVE  FALSE
    OBVIOUS
  <2>1. m # 1
    OBVIOUS
  <2>2. 1 < m
    BY <1>1, <2>1
  <2>3. QED
    BY <2>2 DEF LoadsLast
<1>4. \A m \in DOMAIN g[q] : ~Writes(g, q, m)
  BY <1>2, <1>3 DEF Writes
<1>5. d[q] = Newest(q)
  BY <1>3 DEF Carried
<1>6. QED
  BY <1>4, <1>5 DEF Carried

(* A read is submitted. *)
LEMMA LoadSubmitted ==
  ASSUME NEW f \in AllRequests, NEW p \in Pages, NEW s \in Slots, NEW g, g = Added(f, p, "load", s)
  PROVE  /\ LoadsLast(f) => LoadsLast(g)
         /\ \A b, d : \A q \in Pages : Carried(f, b, d, q) => Carried(g, b, d, q)
<1>0. "load" \in Kinds
  BY DEF Kinds
<1> PICK N : N = Len(f[p]) + 1
  OBVIOUS
<1>1. /\ g \in AllRequests /\ \A u \in Pages \ {p} : g[u] = f[u]
      /\ Len(f[p]) \in Nat
      /\ DOMAIN g[p] = 1 .. N /\ DOMAIN f[p] = 1 .. Len(f[p])
      /\ \A m \in DOMAIN f[p] : g[p][m] = f[p][m]
      /\ g[p][N].kind = "load"
  BY <1>0, AddedIs
<1>2. \A m \in DOMAIN g[p] : m \in Nat /\ (m \in DOMAIN f[p] \/ m = N)
  BY <1>1
<1>3. \A m \in DOMAIN f[p] : m \in DOMAIN g[p] /\ (Writes(g, p, m) <=> Writes(f, p, m))
  BY <1>1 DEF Writes
<1>4. ~Writes(g, p, N)
  BY <1>1 DEF Writes
<1>5. \A u \in Pages \ {p} : \A m : Writes(g, u, m) <=> Writes(f, u, m)
  BY <1>1 DEF Writes
<1>6. ASSUME LoadsLast(f)
      PROVE  LoadsLast(g)
  <2> SUFFICES ASSUME NEW u \in Pages, NEW n \in DOMAIN g[u], NEW m \in DOMAIN g[u],
                      n < m, Writes(g, u, m)
               PROVE  Writes(g, u, n)
    BY DEF LoadsLast
  <2>1. CASE u = p
    <3>1. m \in DOMAIN f[p]
      BY <1>2, <1>4, <2>1
    <3>2. n \in DOMAIN f[p]
      BY <1>1, <2>1, <3>1
    <3>3. Writes(f, p, m)
      BY <1>3, <2>1, <3>1
    <3>4. QED
      BY <1>3, <1>6, <2>1, <3>1, <3>2, <3>3 DEF LoadsLast
  <2>2. CASE u # p
    BY <1>1, <1>5, <1>6, <2>2 DEF LoadsLast
  <2>3. QED
    BY <2>1, <2>2
<1>7. ASSUME NEW b, NEW d, NEW q \in Pages, Carried(f, b, d, q)
      PROVE  Carried(g, b, d, q)
  <2>1. CASE q # p
    BY <1>1, <1>7, <2>1, CarriedKept
  <2>2. CASE q = p /\ d[q] = Newest(q) /\ \A n \in DOMAIN f[q] : ~Writes(f, q, n)
    <3>1. \A n \in DOMAIN g[p] : ~Writes(g, p, n)
      BY <1>2, <1>3, <1>4, <2>2
    <3>2. QED
      BY <2>2, <3>1 DEF Carried
  <2>3. CASE q = p /\ \E n \in DOMAIN f[q] :
               /\ Writes(f, q, n) /\ b[f[q][n].slot] = Newest(q)
               /\ \A m \in DOMAIN f[q] : m > n => ~Writes(f, q, m)
    <3>1. PICK n \in DOMAIN f[p] :
               /\ Writes(f, p, n) /\ b[f[p][n].slot] = Newest(p)
               /\ \A m \in DOMAIN f[p] : m > n => ~Writes(f, p, m)
      BY <2>3
    <3>2. n \in DOMAIN g[p] /\ Writes(g, p, n) /\ b[g[p][n].slot] = Newest(p)
      BY <1>1, <1>3, <3>1
    <3>3. \A m \in DOMAIN g[p] : m > n => ~Writes(g, p, m)
      BY <1>2, <1>3, <1>4, <3>1
    <3>4. QED
      BY <2>3, <3>2, <3>3 DEF Carried
  <2>4. QED
    BY <1>7, <2>1, <2>2, <2>3 DEF Carried
<1>8. QED
  BY <1>6, <1>7

(* The last version of a page is submitted to be written. *)
LEMMA WriteSubmitted ==
  ASSUME NEW f \in AllRequests, LoadsLast(f), NEW p \in Pages, NEW s \in Slots,
         NEW kind \in Kinds, kind # "load", NEW g, g = Added(f, p, kind, s),
         \A n \in DOMAIN f[p] : Writes(f, p, n)
  PROVE  /\ LoadsLast(g)
         /\ \A b, d : b[s] = Newest(p) => Carried(g, b, d, p)
         /\ \A u \in Pages \ {p} : g[u] = f[u]
<1> PICK N : N = Len(f[p]) + 1
  OBVIOUS
<1>1. /\ g \in AllRequests /\ \A u \in Pages \ {p} : g[u] = f[u]
      /\ Len(f[p]) \in Nat
      /\ DOMAIN g[p] = 1 .. N /\ DOMAIN f[p] = 1 .. Len(f[p])
      /\ \A m \in DOMAIN f[p] : g[p][m] = f[p][m]
      /\ g[p][N].kind = kind /\ g[p][N].slot = s
  BY AddedIs
<1>2. \A m \in DOMAIN g[p] : m \in Nat /\ (m \in DOMAIN f[p] \/ m = N)
  BY <1>1
<1>3. \A m \in DOMAIN f[p] : Writes(g, p, m) <=> Writes(f, p, m)
  BY <1>1 DEF Writes
<1>4. Writes(g, p, N)
  BY <1>1 DEF Writes
<1>5. \A m \in DOMAIN g[p] : Writes(g, p, m)
  BY <1>2, <1>3, <1>4
<1>6. \A u \in Pages \ {p} : \A m : Writes(g, u, m) <=> Writes(f, u, m)
  BY <1>1 DEF Writes
<1>7. LoadsLast(g)
  BY <1>1, <1>5, <1>6 DEF LoadsLast
<1>8. ASSUME NEW b, NEW d, b[s] = Newest(p)
      PROVE  Carried(g, b, d, p)
  <2>1. N \in DOMAIN g[p] /\ \A m \in DOMAIN g[p] : ~(m > N)
    BY <1>1
  <2>2. QED
    BY <1>1, <1>4, <1>8, <2>1 DEF Carried
<1>9. QED
  BY <1>1, <1>7, <1>8

-------------------------------------------------------------------------------
(***************************************************************************)
(* Where the last version of a page is.                                    *)
(***************************************************************************)
Marked(p) == page_table[p] # NoSlot /\ slot[page_table[p]].is_dirty

(* In memory, whenever page_table has the page; and in a slot that is      *)
(* marked, or on its way to the file, or there.                            *)
ByteInv ==
  /\ \A p \in live : page_table[p] # NoSlot => buffer[page_table[p]] = Newest(p)
  /\ \A p \in live : Marked(p) \/ Carried(io, buffer, disk, p)
  /\ LoadsLast(io)

(* No request is on a slot that is not in transit, but for a flush.        *)
LEMMA RequestsElsewhere ==
  ASSUME PoolInv, ~Flushes(io), NEW s \in Slots, ~InTransit(s), NEW q \in Pages, NEW n \in DOMAIN io[q]
  PROVE  io[q][n].slot \in Slots \ {s}
<1> PICK f, L : f = io /\ L = Underway
  OBVIOUS
<1>1. f \in AllRequests /\ RequestsOK(f, L) /\ Moves(f, q, n)
  BY DEF PoolInv, TypeOK, AllRequests, TransitRequests, Moves, Flushes
<1>2. f[q][n].slot \in Slots /\ \E p \in Pages : <<p, f[q][n].slot>> \in L
  BY <1>1, MovesInTransit
<1>3. QED
  BY <1>2, UnderwayIs

(* Steps that move no bytes.                                               *)
LEMMA BytesKept ==
  ASSUME TypeOK, ByteInv, UNCHANGED <<io, buffer, disk>>,
         live' \subseteq live, \A p \in live' : page_table'[p] = page_table[p],
         \A p \in live' : Marked(p) => slot'[page_table[p]].is_dirty
  PROVE  ByteInv'
<1> SUFFICES ASSUME NEW p \in live'
             PROVE  /\ page_table'[p] # NoSlot => buffer'[page_table'[p]] = Newest(p)
                    /\ Marked(p)' \/ Carried(io, buffer, disk, p)'
  BY DEF ByteInv
<1>1. page_table'[p] # NoSlot => buffer'[page_table'[p]] = Newest(p)
  BY DEF ByteInv
<1>2. CASE Marked(p)
  BY <1>1, <1>2 DEF Marked
<1>3. CASE Carried(io, buffer, disk, p)
  BY <1>1, <1>3
<1>4. QED
  BY <1>1, <1>2, <1>3 DEF ByteInv

(* Page p is written in its slot s.                                        *)
LEMMA BytesStored ==
  ASSUME PoolInv, ByteInv, ~Flushes(io), io' = io, NEW p \in Pages, NEW s \in Slots, ~InTransit(s),
         Store(p, s), page_table'[p] = s, slot'[s].is_dirty, live' \subseteq live \cup {p},
         \A q \in live \ {p} :
           \/ page_table'[q] = page_table[q] /\ page_table[q] # s
           \/ page_table'[q] = NoSlot /\ Carried(io, buffer, disk, q),
         \A x \in Slots \ {s} : slot'[x] = slot[x]
  PROVE  ByteInv'
<1>0. TypeOK
  BY DEF PoolInv
<1>1. s # NoSlot
  BY PoolAssumption
<1>2. /\ buffer'[s] = Newest(p)
      /\ \A q \in Pages \ {p} : \A x \in Slots \ {s} : buffer[x] = Newest(q) => buffer'[x] = Newest(q)
      /\ \A q \in Pages \ {p} : disk[q] = Newest(q) => disk'[q] = Newest(q)
  BY <1>0 DEF Store, Outdated, Newest, TypeOK
<1>3. ASSUME NEW q \in live \ {p}
      PROVE  /\ page_table'[q] # NoSlot => buffer'[page_table'[q]] = Newest(q)
             /\ Marked(q)' \/ Carried(io, buffer, disk, q)'
  <2>1. q \in Pages \ {p} /\ page_table[q] \in Slots \cup {NoSlot}
    BY <1>0 DEF TypeOK
  <2>2. page_table'[q] # NoSlot => buffer'[page_table'[q]] = Newest(q)
    BY <1>2, <2>1 DEF ByteInv
  <2>3. CASE Carried(io, buffer, disk, q)
    <3>1. \A n \in DOMAIN io[q] : io[q][n].slot \in Slots \ {s}
      BY <2>1, RequestsElsewhere
    <3> PICK f, b, c, d, e : f = io /\ b = buffer /\ c = buffer' /\ d = disk /\ e = disk'
      OBVIOUS
    <3>2. \A n \in DOMAIN f[q] : b[f[q][n].slot] = Newest(q) => c[f[q][n].slot] = Newest(q)
      BY <1>2, <2>1, <3>1
    <3>3. d[q] = Newest(q) => e[q] = Newest(q)
      BY <1>2, <2>1
    <3>4. Carried(f, c, e, q)
      BY <2>3, <3>2, <3>3, CarriedKept
    <3>5. QED
      BY <2>2, <3>4
  <2>4. CASE Marked(q) /\ ~Carried(io, buffer, disk, q)
    BY <1>1, <2>1, <2>2, <2>4 DEF Marked
  <2>5. QED
    BY <2>3, <2>4 DEF ByteInv
<1>4. /\ page_table'[p] # NoSlot => buffer'[page_table'[p]] = Newest(p)
      /\ Marked(p)'
  BY <1>1, <1>2 DEF Marked
<1>5. LoadsLast(io)'
  BY DEF ByteInv
<1>6. \A q \in live' : q = p \/ q \in live \ {p}
  OBVIOUS
<1>7. QED
  BY <1>3, <1>4, <1>5, <1>6 DEF ByteInv

(* A reference to a page that is in memory is constructed.                 *)
LEMMA BytesConstructed ==
  ASSUME PoolInv, ByteInv, ~Flushes(io), NEW r \in Refs, NEW p \in Pages, NEW s \in Slots,
         NEW h \in Headers, NEW mode \in Modes, Construct(r, p, s, h, mode), ~InTransit(s),
         h.page = slot[s].page, slot[s].is_dirty => h.is_dirty, UNCHANGED <<page_table, io>>
  PROVE  ByteInv'
<1>0. TypeOK /\ MapInv
  BY DEF PoolInv
<1>1. slot'[s] = Referenced(h, mode) /\ \A x \in Slots \ {s} : slot'[x] = slot[x]
  BY <1>0, ConstructShape
<1>2. slot'[s].is_dirty <=> h.is_dirty \/ mode # "const"
  <2>1. Referenced(h, mode).is_dirty <=> h.is_dirty \/ mode # "const"
    BY ReferencedShape
  <2>2. QED
    BY <1>1, <2>1, Zenon
<1>3. CASE mode = "init" /\ h.page = p
  <2>1. Store(p, s) /\ live' = live \cup {p}
    BY <1>3 DEF Construct
  <2>2. \A q \in Pages : page_table[q] = s <=> q = p
    <3>1. slot[s].page = p
      BY <1>3
    <3>2. \A q \in Pages : page_table[q] = s <=> slot[s].page = q
      BY <1>0 DEF MapInv, PageInOneSlot
    <3>3. QED
      BY <3>1, <3>2
  <2>3. slot'[s].is_dirty
    BY <1>2, <1>3
  <2>4. \A q \in live \ {p} : page_table'[q] = page_table[q] /\ page_table[q] # s
    BY <1>0, <2>2 DEF TypeOK
  <2>5. page_table'[p] = s
    BY <2>2
  <2>6. QED
    BY <1>1, <2>1, <2>3, <2>4, <2>5, BytesStored
<1>4. CASE ~(mode = "init" /\ h.page = p)
  <2>1. UNCHANGED <<buffer, disk, live>>
    BY <1>4 DEF Construct
  <2>2. \A q \in live : Marked(q) => slot'[page_table[q]].is_dirty
    BY <1>0, <1>1, <1>2 DEF Marked, TypeOK
  <2>3. QED
    BY <1>0, <2>1, <2>2, BytesKept
<1>5. QED
  BY <1>3, <1>4

(* Who asks for a page is not disturbed by a flush.                        *)
LEMMA AskedAwake ==
  ASSUME FlushInv, NEW r \in Refs, MayRequest(r)
  PROVE  ~Flushes(io)
<1>1. r[1] \in Tasks
  BY PoolAssumption DEF Refs
<1>2. QED
  BY <1>1, FlushingIs DEF FlushInv, AllIdle, MayRequest

LEMMA BytesLeadAtOnce ==
  ASSUME PoolInv, ByteInv, ~Flushes(io), NEW r \in Refs, NEW p \in Pages, NEW mode \in Modes,
         page_table[p] = NoSlot, NEW s \in Victims, LeadAtOnce(r, p, mode, s)
  PROVE  ByteInv'
<1>0. TypeOK /\ MapInv /\ SlotInv
  BY DEF PoolInv
<1>1. s \in Slots /\ s # NoSlot /\ ~InTransit(s)
  BY <1>0, VictimFree
<1> PICK h : h = ResetHeader(p)
  OBVIOUS
<1>2. h \in Headers /\ h.page = p
  BY ResetShape
<1>3. /\ Construct(r, p, s, h, mode) /\ mode = "init" /\ ~slot[s].is_dirty /\ io' = io
      /\ page_table' = [Unmapped(s) EXCEPT ![p] = s]
  BY DEF LeadAtOnce
<1>4. Store(p, s) /\ live' = live \cup {p}
  BY <1>2, <1>3 DEF Construct
<1>5. slot'[s] = Referenced(h, mode) /\ \A x \in Slots \ {s} : slot'[x] = slot[x]
  BY <1>0, <1>1, <1>2, <1>3, ConstructShape
<1>6. slot'[s].is_dirty
  <2>1. Referenced(h, mode).is_dirty
    BY <1>2, <1>3, ReferencedShape
  <2>2. QED
    BY <1>5, <2>1, Zenon
<1>7. page_table'[p] = s /\ \A q \in Pages \ {p} : page_table'[q] = Unmapped(s)[q]
  BY <1>0, <1>1, <1>3, PageUnmapped
<1>8. ASSUME NEW q \in live \ {p}
      PROVE  \/ page_table'[q] = page_table[q] /\ page_table[q] # s
             \/ page_table'[q] = NoSlot /\ Carried(io, buffer, disk, q)
  <2>1. q \in Pages \ {p}
    BY <1>0 DEF TypeOK
  <2>2. CASE page_table[q] = s
    <3>1. slot[s].page = q
      BY <1>0, <1>1, <2>1, <2>2 DEF MapInv, PageInOneSlot
    <3>2. page_table'[q] = NoSlot
      BY <1>7, <2>1, <3>1 DEF Unmapped
    <3>3. ~Marked(q)
      BY <1>3, <2>2 DEF Marked
    <3>4. QED
      BY <3>2, <3>3 DEF ByteInv
  <2>3. CASE page_table[q] # s
    <3>1. slot[s].page # q
      BY <1>0, <1>1, <2>1, <2>3 DEF MapInv, PageInOneSlot
    <3>2. QED
      BY <1>7, <2>1, <2>3, <3>1 DEF Unmapped
  <2>4. QED
    BY <2>2, <2>3
<1>9. QED
  BY <1>1, <1>3, <1>4, <1>5, <1>6, <1>7, <1>8, BytesStored

(* A page that is in memory is not asked to be read.                       *)
LEMMA MappedOnlyWritten ==
  ASSUME PoolInv, NEW q \in Pages, page_table[q] # NoSlot, NEW n \in DOMAIN io[q]
  PROVE  Writes(io, q, n)
<1>0. TypeOK /\ ListInv /\ MapInv /\ TransitRequests
  BY DEF PoolInv
<1> SUFFICES ASSUME ~Writes(io, q, n)
             PROVE  FALSE
  OBVIOUS
<1>1. io[q][n].kind = "load" /\ io[q][n] \in Requests
  BY <1>0 DEF Writes, TypeOK
<1> PICK s : s = io[q][n].slot
  OBVIOUS
<1>2. s \in Slots /\ <<q, s>> \in Underway
  BY <1>0, <1>1 DEF TransitRequests, RequestsOK, Requests
<1>3. ongoing[q].slot = s /\ resuming.page # q
  BY <1>2, UnderwayIs
<1>4. QED
  BY <1>0, <1>2, <1>3, LoadingIs DEF ListInv, MapInv, LoadedPageAbsent

LEMMA BytesLeadSuspends ==
  ASSUME PoolInv, ByteInv, fault = "none", NEW r \in Refs, NEW p \in Pages, NEW mode \in Modes,
         page_table[p] = NoSlot, NEW s \in Victims, LeadSuspends(r, p, mode, s)
  PROVE  ByteInv'
<1>0. TypeOK /\ MapInv /\ SlotInv
  BY DEF PoolInv
<1>1. /\ s \in Slots /\ s # NoSlot /\ ~InTransit(s)
      /\ slot[s].is_dirty => slot[s].page \in Pages
  BY <1>0, VictimFree
<1>2. /\ IF slot[s].is_dirty THEN Submit(slot[s].page, "evict", s) ELSE Submit(p, "load", s)
      /\ slot' = [slot EXCEPT ![s].queued = FALSE] /\ page_table' = Unmapped(s)
      /\ UNCHANGED <<buffer, disk, live>>
  BY DEF LeadSuspends
<1>3. \A q \in Pages : /\ page_table[q] = s <=> slot[s].page = q
                       /\ page_table'[q] = IF page_table[q] = s THEN NoSlot ELSE page_table[q]
  <2>1. \A q \in Pages : page_table[q] = s <=> slot[s].page = q
    BY <1>0, <1>1 DEF MapInv, PageInOneSlot
  <2>2. QED
    BY <1>2, <2>1 DEF Unmapped
<1>4. \A x \in Slots : slot'[x].is_dirty <=> slot[x].is_dirty
  BY <1>0, <1>1, <1>2 DEF TypeOK, Headers
<1> PICK f, g, b, d : f = io /\ g = io' /\ b = buffer /\ d = disk
  OBVIOUS
<1>5. f \in AllRequests /\ LoadsLast(f)
  BY <1>0 DEF TypeOK, AllRequests, ByteInv
<1>6. LoadsLast(g) /\ \A q \in live : Marked(q)' \/ Carried(g, b, d, q)
  <2>1. ASSUME NEW q \in live, page_table[q] # s, Marked(q)
        PROVE  Marked(q)'
    BY <1>0, <1>3, <1>4, <2>1 DEF Marked, TypeOK
  <2>2. \A q \in live : Marked(q) \/ Carried(f, b, d, q)
    BY DEF ByteInv
  <2>3. CASE slot[s].is_dirty
    <3> PICK u \in Pages : u = slot[s].page
      BY <1>1, <2>3
    <3>1. g = Added(f, u, "evict", s) /\ page_table[u] = s
      BY <1>2, <1>3, <2>3 DEF Submit, Added
    <3>2. \A n \in DOMAIN f[u] : Writes(f, u, n)
      BY <1>1, <3>1, MappedOnlyWritten
    <3>3. "evict" \in Kinds /\ "evict" # "load"
      BY DEF Kinds
    <3>4. /\ LoadsLast(g) /\ \A x \in Pages \ {u} : g[x] = f[x]
          /\ b[s] = Newest(u) => Carried(g, b, d, u)
      BY <1>1, <1>5, <3>1, <3>2, <3>3, WriteSubmitted
    <3>5. ASSUME NEW q \in live
          PROVE  Marked(q)' \/ Carried(g, b, d, q)
      <4>1. q \in Pages
        BY <1>0 DEF TypeOK
      <4>2. CASE q = u
        <5>1. b[s] = Newest(u)
          BY <1>1, <3>1, <4>2 DEF ByteInv
        <5>2. QED
          BY <3>4, <4>2, <5>1
      <4>3. CASE q # u
        <5>1. page_table[q] # s /\ g[q] = f[q]
          BY <1>3, <3>4, <4>1, <4>3
        <5>2. CASE Marked(q)
          BY <2>1, <5>1, <5>2
        <5>3. CASE Carried(f, b, d, q)
          BY <5>1, <5>3, CarriedKept
        <5>4. QED
          BY <2>2, <5>2, <5>3
      <4>4. QED
        BY <4>2, <4>3
    <3>6. QED
      BY <3>4, <3>5
  <2>4. CASE ~slot[s].is_dirty
    <3>1. g = Added(f, p, "load", s)
      BY <1>2, <2>4 DEF Submit, Added
    <3>2. LoadsLast(g) /\ \A q \in Pages : Carried(f, b, d, q) => Carried(g, b, d, q)
      BY <1>1, <1>5, <3>1, LoadSubmitted
    <3>3. ASSUME NEW q \in live
          PROVE  Marked(q)' \/ Carried(g, b, d, q)
      <4>1. q \in Pages
        BY <1>0 DEF TypeOK
      <4>2. Marked(q) => page_table[q] # s
        BY <2>4 DEF Marked
      <4>3. QED
        BY <2>1, <2>2, <3>2, <4>1, <4>2
    <3>4. QED
      BY <3>2, <3>3
  <2>5. QED
    BY <2>3, <2>4
<1>7. ASSUME NEW q \in live, page_table'[q] # NoSlot
      PROVE  buffer'[page_table'[q]] = Newest(q)
  <2>1. page_table'[q] = page_table[q]
    BY <1>0, <1>3, <1>7 DEF TypeOK
  <2>2. QED
    BY <1>2, <1>7, <2>1 DEF ByteInv
<1>8. QED
  BY <1>2, <1>6, <1>7 DEF ByteInv

LEMMA BytesAsk ==
  ASSUME PoolInv, FlushInv, ByteInv, fault = "none", NEW r \in Refs, Asks(r)
  PROVE  ByteInv'
<1>0. TypeOK /\ ListInv /\ MapInv /\ SlotInv
  BY DEF PoolInv
<1>1. PICK p \in Pages, mode \in Modes : MayRequest(r) /\ Acquire(r, p, mode)
  BY AsksFor
<1>2. ~Flushes(io)
  BY <1>1, AskedAwake
<1>3. ASSUME NEW s \in Slots, ~InTransit(s), Construct(r, p, s, slot[s], mode),
             UNCHANGED <<page_table, io>>
      PROVE  ByteInv'
  <2> PICK h \in Headers : h = slot[s]
    BY <1>0 DEF TypeOK
  <2>1. Construct(r, p, s, h, mode)
    BY <1>3
  <2>2. QED
    BY <1>2, <1>3, <2>1, BytesConstructed
<1>4. CASE Hit(r, p, mode)
  <2> PICK s : s = page_table[p]
    OBVIOUS
  <2>1. s \in Slots
    BY <1>0, <1>4 DEF Hit, TypeOK
  <2>2. ~InTransit(s)
    BY <1>0, <2>1 DEF MapInv, PageInOneSlot
  <2>3. QED
    BY <1>3, <1>4, <2>1, <2>2 DEF Hit
<1>5. CASE JoinFinished(r, p, mode)
  <2>1. resuming # NotResuming
    BY <1>5, PoolAssumption DEF JoinFinished, NotResuming
  <2>2. ongoing[p].slot = resuming.slot
    BY <1>0, <1>5, <2>1 DEF JoinFinished, ListInv, ResumingOwnsLoad
  <2>3. resuming.slot \in Slots /\ ~InTransit(resuming.slot)
    BY <2>1, ResumedWaited
  <2>4. QED
    BY <1>3, <1>5, <2>2, <2>3 DEF JoinFinished
<1>6. CASE Join(r, p, mode)
  <2>1. UNCHANGED <<slot, io, buffer, disk, live, page_table>>
    BY <1>6 DEF Join
  <2>2. QED
    BY <1>0, <2>1, BytesKept DEF Marked
<1>7. CASE Lead(r, p, mode)
  BY <1>2, <1>7, BytesLeadAtOnce, BytesLeadSuspends DEF Lead
<1>8. CASE Overflow(p)
  <2>1. UNCHANGED <<slot, io, buffer, disk, live, page_table>>
    BY <1>8 DEF Overflow
  <2>2. QED
    BY <1>0, <2>1, BytesKept DEF Marked
<1>9. QED
  BY <1>1, <1>4, <1>5, <1>6, <1>7, <1>8 DEF Acquire

(* A request that moves a page is no flush's, nor are the others then.     *)
LEMMA MoveAwake ==
  ASSUME PoolInv, FlushInv, NEW q \in Pages, NEW n \in DOMAIN io[q], io[q][n].kind # "flush"
  PROVE  ~Flushes(io)
BY IdlePool DEF FlushInv

(* Once it is served no request is on its slot.                            *)
LEMMA ServedElsewhere ==
  ASSUME PoolInv, ~Flushes(io), NEW f, f = io, NEW q \in Pages, NEW n \in DOMAIN f[q],
         NEW g, g = Served(f, q, n), NEW s, s = f[q][n].slot
  PROVE  \A v \in Pages : \A m \in DOMAIN g[v] : g[v][m].slot \in Slots \ {s}
<1> PICK L : L = Underway
  OBVIOUS
<1>1. f \in AllRequests /\ RequestsOK(f, L) /\ Moves(f, q, n)
  BY DEF PoolInv, TypeOK, AllRequests, TransitRequests, Moves, Flushes
<1>2. /\ g \in AllRequests
      /\ \A v \in Pages : \A m \in DOMAIN g[v] : Moves(g, v, m) => g[v][m].slot # s
  BY <1>1, RequestServed
<1>3. ~Flushes(g)
  BY <1>1, FlushesServed
<1>4. \A v \in Pages : \A m \in DOMAIN g[v] : g[v][m] \in Requests
  BY <1>2 DEF AllRequests
<1>5. QED
  BY <1>2, <1>3, <1>4 DEF Flushes, Moves, Requests

LEMMA BytesFlushed ==
  ASSUME OrderedIO, PoolInv, FlushInv, ByteInv, NEW q \in Pages, NEW n \in DOMAIN io[q],
         FlushWritten(q, n)
  PROVE  ByteInv'
<1>0. TypeOK
  BY DEF PoolInv
<1> PICK f, g, b, d, e, s : /\ f = io /\ g = io' /\ b = buffer /\ d = disk /\ e = disk'
                            /\ s = io[q][1].slot
  OBVIOUS
<1>1. /\ n = 1 /\ io[q][n].kind = "flush" /\ Written(q, s)
      /\ UNCHANGED <<slot, buffer, page_table, live>> /\ g = Served(f, q, 1)
  BY DEF FlushWritten, Serves, Served
<1>2. f \in AllRequests /\ 1 \in DOMAIN f[q] /\ LoadsLast(f) /\ Writes(f, q, 1)
  BY <1>0, <1>1 DEF TypeOK, AllRequests, ByteInv, Writes
<1>3. \A p \in live : Carried(f, b, d, p) /\ p \in Pages
  <2>1. \A x \in Slots : ~slot[x].is_dirty
    BY <1>1 DEF FlushInv, Flushes
  <2>2. \A p \in live : p \in Pages /\ ~Marked(p)
    BY <1>0, <2>1 DEF TypeOK, Marked
  <2>3. QED
    BY <2>2 DEF ByteInv
<1>4. e[q] = b[s] /\ \A p \in Pages \ {q} : e[p] = d[p]
  BY <1>0, <1>1 DEF Written, TypeOK
<1>5. LoadsLast(g) /\ \A p \in Pages \ {q} : g[p] = f[p]
  BY <1>1, <1>2, LoadsLastServed, FirstServed
<1>6. ASSUME NEW p \in live
      PROVE  Carried(g, b, e, p)
  <2>1. CASE p = q
    BY <1>1, <1>2, <1>3, <1>4, <2>1, CarriedFirst
  <2>2. CASE p # q
    BY <1>3, <1>4, <1>5, <2>2, CarriedKept
  <2>3. QED
    BY <2>1, <2>2
<1>7. \A p \in live' : page_table'[p] # NoSlot => buffer'[page_table'[p]] = Newest(p)
  BY <1>1 DEF ByteInv
<1>8. QED
  BY <1>1, <1>5, <1>6, <1>7 DEF ByteInv

LEMMA BytesLoaded ==
  ASSUME OrderedIO, PoolInv, FlushInv, ByteInv, NEW q \in Pages, NEW n \in DOMAIN io[q],
         LoadRead(q, n)
  PROVE  ByteInv'
<1>0. TypeOK /\ ListInv /\ MapInv /\ TransitRequests
  BY DEF PoolInv
<1> PICK f, g, b, c, d, s : /\ f = io /\ g = io' /\ b = buffer /\ c = buffer' /\ d = disk
                            /\ s = io[q][1].slot
  OBVIOUS
<1>1. /\ n = 1 /\ io[q][1].kind = "load" /\ buffer' = [buffer EXCEPT ![s] = disk[q]]
      /\ g = Served(f, q, 1) /\ FinishLoad(q, s) /\ disk' = disk
  BY DEF LoadRead, Serves, Served
<1>2. f \in AllRequests /\ 1 \in DOMAIN f[q] /\ LoadsLast(f) /\ ~Writes(f, q, 1)
  BY <1>0, <1>1 DEF TypeOK, AllRequests, ByteInv, Writes
<1>3. ~Flushes(io)
  BY <1>1, MoveAwake
<1>4. /\ s \in Slots /\ resuming = NotResuming /\ \A p \in Pages : page_table[p] # s
      /\ \A x \in Slots \ {s} : slot'[x] = slot[x]
      /\ live' = live
  BY <1>1, ServedSlot
<1>5. c[s] = d[q] /\ \A x \in Slots \ {s} : c[x] = b[x]
  BY <1>0, <1>1, <1>4 DEF TypeOK
<1>6. page_table'[q] = s /\ \A p \in Pages \ {q} : page_table'[p] = page_table[p]
  BY <1>0, <1>1 DEF FinishLoad, TypeOK
<1>7. page_table[q] = NoSlot
  <2>1. <<q, s>> \in Underway
    BY <1>0, <1>1 DEF TransitRequests, RequestsOK
  <2>2. ongoing[q].slot = s /\ resuming.page # q
    BY <1>4, <2>1, UnderwayIs
  <2>3. QED
    BY <1>0, <1>4, <2>2, LoadingIs DEF ListInv, MapInv, LoadedPageAbsent
<1>8. LoadsLast(g) /\ \A p \in Pages \ {q} : g[p] = f[p]
  BY <1>1, <1>2, LoadsLastServed, FirstServed
<1>9. \A p \in Pages : \A m \in DOMAIN g[p] : g[p][m].slot \in Slots \ {s}
  BY <1>1, <1>2, <1>3, ServedElsewhere
<1>10. ASSUME NEW p \in live
       PROVE  /\ page_table'[p] # NoSlot => buffer'[page_table'[p]] = Newest(p)
              /\ Marked(p)' \/ Carried(g, c, d, p)
  <2>0. p \in Pages
    BY <1>0 DEF TypeOK
  <2>1. CASE p = q
    <3>1. Carried(f, b, d, q)
      BY <1>7, <2>1 DEF ByteInv, Marked
    <3>2. d[q] = Newest(q) /\ Carried(g, c, d, q)
      BY <1>1, <1>2, <3>1, LoadFirst
    <3>3. QED
      BY <1>5, <1>6, <2>1, <3>2
  <2>2. CASE p # q
    <3>1. page_table'[p] = page_table[p] /\ page_table[p] \in (Slots \ {s}) \cup {NoSlot}
      BY <1>0, <1>4, <1>6, <2>0, <2>2 DEF TypeOK
    <3>2. page_table'[p] # NoSlot => buffer'[page_table'[p]] = Newest(p)
      BY <1>5, <3>1 DEF ByteInv
    <3>3. Marked(p) => Marked(p)'
      BY <1>4, <3>1 DEF Marked
    <3>4. Carried(f, b, d, p) => Carried(g, c, d, p)
      <4>1. g[p] = f[p] /\ \A m \in DOMAIN f[p] : f[p][m].slot \in Slots \ {s}
        BY <1>8, <1>9, <2>0, <2>2
      <4>2. \A m \in DOMAIN f[p] : b[f[p][m].slot] = Newest(p) => c[f[p][m].slot] = Newest(p)
        BY <1>5, <4>1
      <4>3. QED
        BY <4>1, <4>2, CarriedKept
    <3>5. QED
      BY <3>2, <3>3, <3>4 DEF ByteInv
  <2>3. QED
    BY <2>1, <2>2
<1>11. QED
  BY <1>1, <1>4, <1>8, <1>10 DEF ByteInv

LEMMA BytesEvicted ==
  ASSUME OrderedIO, PoolInv, FlushInv, NewInv, ByteInv, NEW q \in Pages, NEW n \in DOMAIN io[q],
         EvictWritten(q, n)
  PROVE  ByteInv'
<1>0. TypeOK /\ ListInv /\ MapInv /\ TransitRequests
  BY DEF PoolInv
<1> PICK f, g, h, b, c, d, e, s :
      /\ f = io /\ g = io' /\ h = Served(f, q, 1) /\ b = buffer /\ c = buffer' /\ d = disk /\ e = disk'
      /\ s = io[q][1].slot
  OBVIOUS
<1>1. /\ n = 1 /\ io[q][1].kind = "evict" /\ Written(q, s)
  BY DEF EvictWritten, Serves
<1>2. f \in AllRequests /\ 1 \in DOMAIN f[q] /\ LoadsLast(f) /\ Writes(f, q, 1)
  BY <1>0, <1>1 DEF TypeOK, AllRequests, ByteInv, Writes
<1>3. ~Flushes(io)
  BY <1>1, MoveAwake
<1>4. /\ s \in Slots /\ resuming = NotResuming /\ \A p \in Pages : page_table[p] # s
      /\ \A x \in Slots \ {s} : slot'[x] = slot[x]
      /\ live' = live
  BY <1>1, ServedSlot
<1>5. e[q] = b[s] /\ \A p \in Pages \ {q} : e[p] = d[p]
  BY <1>0, <1>1 DEF Written, TypeOK
<1>6. PICK p \in Pages :
        /\ ongoing[p].slot = s
        /\ \/ /\ ongoing[p].is_new /\ g = h
              /\ buffer' = [buffer EXCEPT ![s] = Blank] /\ FinishLoad(p, s)
           \/ /\ g = Added(h, p, "load", s) /\ UNCHANGED <<buffer, page_table>>
  BY <1>1 DEF EvictWritten, Served, Added
<1>7. \A x \in Slots \ {s} : c[x] = b[x]
  BY <1>0, <1>6 DEF TypeOK
<1>8. \A v \in live : v \in Pages /\ page_table'[v] = page_table[v]
  <2>1. CASE UNCHANGED page_table
    BY <1>0, <2>1 DEF TypeOK
  <2>2. CASE ongoing[p].is_new /\ FinishLoad(p, s)
    <3>1. p \notin live
      BY <1>4, <1>6, <2>2, NewNotLive
    <3>2. QED
      BY <1>0, <2>2, <3>1 DEF FinishLoad, TypeOK
  <2>3. QED
    BY <1>6, <2>1, <2>2
<1>9. h \in AllRequests /\ LoadsLast(h) /\ \A v \in Pages \ {q} : h[v] = f[v]
  BY <1>2, LoadsLastServed, FirstServed
<1>10. \A v \in Pages : \A m \in DOMAIN h[v] : h[v][m].slot \in Slots \ {s}
  BY <1>2, <1>3, ServedElsewhere
<1>11. ASSUME NEW v \in Pages, Carried(f, b, d, v)
       PROVE  Carried(h, c, e, v)
  <2>1. Carried(h, b, e, v)
    <3>1. CASE v = q
      BY <1>2, <1>5, <1>11, <3>1, CarriedFirst
    <3>2. CASE v # q
      BY <1>5, <1>9, <1>11, <3>2, CarriedKept
    <3>3. QED
      BY <3>1, <3>2
  <2>2. \A m \in DOMAIN h[v] : b[h[v][m].slot] = Newest(v) => c[h[v][m].slot] = Newest(v)
    BY <1>7, <1>10
  <2>3. QED
    BY <2>1, <2>2, CarriedKept
<1>12. LoadsLast(g) /\ \A v \in Pages : Carried(h, c, e, v) => Carried(g, c, e, v)
  BY <1>4, <1>6, <1>9, LoadSubmitted
<1>13. ASSUME NEW v \in live
       PROVE  /\ page_table'[v] # NoSlot => buffer'[page_table'[v]] = Newest(v)
              /\ Marked(v)' \/ Carried(g, c, e, v)
  <2>1. page_table[v] \in (Slots \ {s}) \cup {NoSlot}
    BY <1>0, <1>4, <1>8 DEF TypeOK
  <2>2. page_table'[v] # NoSlot => buffer'[page_table'[v]] = Newest(v)
    BY <1>7, <1>8, <2>1 DEF ByteInv
  <2>3. Marked(v) => Marked(v)'
    BY <1>4, <1>8, <2>1 DEF Marked
  <2>4. QED
    BY <1>8, <1>11, <1>12, <2>2, <2>3 DEF ByteInv
<1>14. QED
  BY <1>4, <1>12, <1>13 DEF ByteInv

LEMMA BytesResumed ==
  ASSUME PoolInv, FlushInv, ByteInv, Resume
  PROVE  ByteInv'
<1>0. TypeOK /\ ListInv /\ SlotInv
  BY DEF PoolInv
<1>1. resuming.waiters # <<>> /\ resuming # NotResuming
  BY DEF Resume, NotResuming
<1> PICK r, p, s, h : /\ r = Last(resuming.waiters) /\ p = resuming.page
                      /\ s = resuming.slot /\ h = Unpinned(r)
  OBVIOUS
<1>2. r \in Refs /\ p \in Pages /\ s \in Slots /\ ~InTransit(s) /\ ref[r].pc = "waiting"
  BY <1>1, ListLeft, ResumedWaited
<1>3. slot[s] \in Headers
  BY <1>0, <1>2 DEF TypeOK
<1>4. h \in Headers /\ h.page = slot[s].page /\ (slot[s].is_dirty => h.is_dirty)
  <2>1. h \in Headers
    BY <1>0, <1>2, UnpinnedShape
  <2>2. h.page = slot[s].page
    BY <1>0, <1>2, UnpinnedShape
  <2>3. h.is_dirty = slot[s].is_dirty
    BY <1>3 DEF Unpinned, Headers
  <2>4. QED
    BY <2>1, <2>2, <2>3
<1> PICK mode \in Modes : mode = ref[r].mode
  BY <1>0, <1>2 DEF TypeOK, References, Modes
<1>5. Construct(r, p, s, h, mode) /\ UNCHANGED <<page_table, io>>
  BY DEF Resume, ResumeWaiter
<1>6. ~Flushes(io)
  BY <1>2, IdleRefs DEF FlushInv
<1>7. QED
  BY <1>2, <1>4, <1>5, <1>6, BytesConstructed

LEMMA BytesWritten ==
  ASSUME PoolInv, FlushInv, WritersInv, ByteInv, fault = "none", NEW r \in Refs, Write(r)
  PROVE  ByteInv'
<1>0. TypeOK /\ MapInv /\ SlotInv
  BY DEF PoolInv
<1> PICK p, s : p = ref[r].page /\ s = ref[r].slot
  OBVIOUS
<1>1. /\ ref[r].pc = "held" /\ Store(p, s) /\ MayWrite(r)
      /\ UNCHANGED <<slot, page_table, io, live>>
  BY DEF Write, MayWrite
<1>2. s \in Slots /\ p \in Pages /\ slot[s].page = p /\ slot[s].is_dirty
  BY <1>0, <1>1 DEF SlotInv, HeldSlots, WritersInv
<1>3. ~InTransit(s)
  BY <1>0, <1>1, <1>2, PinnedSlot
<1>4. \A q \in Pages : page_table[q] = s <=> q = p
  <2>1. \A q \in Pages : page_table[q] = s <=> slot[s].page = q
    BY <1>0, <1>2, <1>3 DEF MapInv, PageInOneSlot
  <2>2. QED
    BY <1>2, <2>1
<1>5. ~Flushes(io)
  BY <1>1, IdleRefs DEF FlushInv
<1>6. \A q \in live \ {p} : page_table'[q] = page_table[q] /\ page_table[q] # s
  BY <1>0, <1>1, <1>4 DEF TypeOK
<1>7. QED
  BY <1>1, <1>2, <1>3, <1>4, <1>5, <1>6, BytesStored

LEMMA BytesReleased ==
  ASSUME PoolInv, ByteInv, NEW r \in Refs, Drop(r) \/ Finish(r) \/ EndPrefetch(r)
  PROVE  ByteInv'
<1>0. TypeOK
  BY DEF PoolInv
<1>1. UNCHANGED <<buffer, disk, page_table, io, live>>
  BY <1>0, RefReleased
<1>2. \A p \in live : Marked(p) => slot'[page_table[p]].is_dirty
  BY <1>0, SlotUnpinned DEF Marked, TypeOK
<1>3. QED
  BY <1>0, <1>1, <1>2, BytesKept

LEMMA BytesRemoved ==
  ASSUME PoolInv, ByteInv, NEW t \in Tasks, NEW p \in Pages, RemovePage(t, p)
  PROVE  ByteInv'
<1>0. TypeOK /\ MapInv
  BY DEF PoolInv
<1>1. live' = live \ {p} /\ UNCHANGED <<buffer, disk, io>>
  BY DEF RemovePage
<1>2. ASSUME NEW q \in live'
      PROVE  page_table'[q] = page_table[q] /\ (Marked(q) => slot'[page_table[q]].is_dirty)
  <2>1. q \in Pages \ {p} /\ page_table[q] \in Slots \cup {NoSlot}
    BY <1>0, <1>1 DEF TypeOK
  <2>2. page_table'[q] = page_table[q]
    BY <2>1, PageRemoved
  <2>3. ASSUME Marked(q)
        PROVE  slot'[page_table[q]].is_dirty
    <3>1. page_table[q] \in Slots /\ slot[page_table[q]].page = q
      BY <1>0, <2>1, <2>3 DEF Marked, MapInv, PageInOneSlot
    <3>2. slot'[page_table[q]] = slot[page_table[q]]
      BY <2>1, <3>1, PageRemoved
    <3>3. QED
      BY <2>3, <3>2 DEF Marked
  <2>4. QED
    BY <2>2, <2>3
<1>3. QED
  BY <1>0, <1>1, <1>2, BytesKept

(* With nobody under way and no flush there is nothing left to be done.    *)
LEMMA IdleFlushes ==
  PoolInv /\ AllIdle => \A q \in Pages : \A n \in DOMAIN io[q] : io[q][n].kind = "flush"
BY IdlePool

LEMMA IdleFlushesNext ==
  (PoolInv /\ AllIdle)' => (\A q \in Pages : \A n \in DOMAIN io[q] : io[q][n].kind = "flush")'
BY IdleFlushes, PTL

Settled ==
  PoolInv /\ ByteInv /\ AllIdle /\ ~Flushes(io) /\ \A s \in Slots : ~slot[s].is_dirty

OnDisk == \A p \in live : disk[p] = Newest(p)

LEMMA SettledDisk == Settled => OnDisk
<1> SUFFICES ASSUME Settled, NEW p \in live
             PROVE  disk[p] = Newest(p)
  BY DEF OnDisk
<1>1. p \in Pages /\ page_table[p] \in Slots \cup {NoSlot}
  BY DEF Settled, PoolInv, TypeOK
<1>2. \A n \in DOMAIN io[p] : FALSE
  BY <1>1, IdleFlushes DEF Settled, Flushes
<1>3. ~Marked(p)
  BY <1>1 DEF Settled, Marked
<1>4. QED
  BY <1>2, <1>3 DEF Settled, ByteInv, Carried

LEMMA SettledDiskNext == Settled' => OnDisk'
BY SettledDisk, PTL

LEMMA BytesFlushStarts ==
  ASSUME PoolInv, PoolInv', FlushInv, ByteInv, FlushAll
  PROVE  ByteInv'
<1>0. TypeOK
  BY DEF PoolInv
<1>1. ~Flushes(io) /\ FlushInv'
  BY FlushStarts
<1>2. /\ AllIdle /\ UNCHANGED <<ref, current, page_table, buffer, disk, live>>
      /\ io' = [p \in Pages |->
           IF page_table[p] # NoSlot /\ slot[page_table[p]].is_dirty
           THEN Append(io[p], [kind |-> "flush", slot |-> page_table[p]]) ELSE io[p]]
  BY DEF FlushAll
<1>3. AllIdle'
  BY <1>2 DEF AllIdle, Idle
<1> PICK f, g, b, d : f = io /\ g = io' /\ b = buffer /\ d = disk
  OBVIOUS
<1>4. LoadsLast(g)
  <2>1. \A q \in Pages : \A n \in DOMAIN g[q] : g[q][n].kind = "flush"
    BY <1>3, IdleFlushesNext
  <2>2. QED
    BY <2>1 DEF LoadsLast, Writes
<1>5. ASSUME NEW p \in live
      PROVE  Carried(g, b, d, p)
  <2>1. p \in Pages
    BY <1>0 DEF TypeOK
  <2>2. CASE Marked(p)
    <3> PICK s, h : s = page_table[p] /\ h = Added(f, p, "flush", s)
      OBVIOUS
    <3>1. s \in Slots /\ b[s] = Newest(p)
      BY <1>0, <1>5, <2>1, <2>2 DEF Marked, TypeOK, ByteInv
    <3>2. \A n \in DOMAIN f[p] : Writes(f, p, n)
      BY <2>1, <2>2, MappedOnlyWritten DEF Marked
    <3>3. f \in AllRequests /\ LoadsLast(f) /\ "flush" \in Kinds /\ "flush" # "load"
      BY <1>0 DEF TypeOK, AllRequests, ByteInv, Kinds
    <3>4. Carried(h, b, d, p)
      BY <2>1, <3>1, <3>2, <3>3, WriteSubmitted
    <3>5. g[p] = h[p]
      BY <1>0, <1>2, <2>1, <2>2 DEF Marked, Added, TypeOK
    <3>6. QED
      BY <3>4, <3>5, CarriedKept
  <2>3. CASE ~Marked(p)
    <3>1. g[p] = f[p]
      BY <1>2, <2>1, <2>3 DEF Marked
    <3>2. Carried(f, b, d, p)
      BY <2>3 DEF ByteInv
    <3>3. QED
      BY <3>1, <3>2, CarriedKept
  <2>4. QED
    BY <2>2, <2>3
<1>6. QED
  BY <1>2, <1>4, <1>5 DEF ByteInv

LEMMA BytesReopened ==
  ASSUME PoolInv, ByteInv, Reopen
  PROVE  ByteInv'
<1>0. TypeOK
  BY DEF PoolInv
<1>1. /\ AllIdle /\ ~Flushes(io) /\ \A s \in Slots : ~slot[s].is_dirty
      /\ UNCHANGED <<io, disk, live>> /\ page_table' = [p \in Pages |-> NoSlot]
  BY FlushingIs DEF Reopen
<1>2. \A p \in live : disk[p] = Newest(p) /\ p \in Pages
  BY <1>0, <1>1, SettledDisk DEF Settled, OnDisk, TypeOK
<1> PICK f, c, d : f = io /\ c = buffer' /\ d = disk
  OBVIOUS
<1>3. ASSUME NEW p \in live
      PROVE  page_table'[p] = NoSlot /\ Carried(f, c, d, p)
  <2>1. \A n \in DOMAIN f[p] : FALSE
    BY <1>1, <1>2, IdleFlushes DEF Flushes
  <2>2. QED
    BY <1>1, <1>2, <2>1 DEF Carried
<1>4. QED
  BY <1>1, <1>3 DEF ByteInv

LEMMA BytesNext ==
  ASSUME OrderedIO
  PROVE  PoolInv /\ PoolInv' /\ FlushInv /\ WritersInv /\ NewInv /\ ByteInv /\ [Next]_vars => ByteInv'
<1> SUFFICES ASSUME PoolInv, PoolInv', FlushInv, WritersInv, NewInv, ByteInv, [Next]_vars
             PROVE  ByteInv'
  OBVIOUS
<1>0. TypeOK
  BY DEF PoolInv
<1>1. CASE UNCHANGED <<slot, buffer, disk, page_table, io, live>>
  BY <1>0, <1>1, BytesKept DEF Marked
<1>2. ASSUME fault = "none", NEW r \in Refs,
             Asks(r) \/ Drop(r) \/ Finish(r) \/ Write(r) \/ EndPrefetch(r)
      PROVE  ByteInv'
  BY <1>2, BytesAsk, BytesReleased, BytesWritten
<1>3. ASSUME NEW t \in Tasks, AwaitPrefetch(t)
      PROVE  ByteInv'
  BY <1>1, <1>3 DEF AwaitPrefetch
<1>4. ASSUME NEW t \in Tasks, NEW p \in Pages, RemovePage(t, p)
      PROVE  ByteInv'
  BY <1>4, BytesRemoved
<1>5. ASSUME NEW q \in Pages, NEW n \in DOMAIN io[q],
             EvictWritten(q, n) \/ LoadRead(q, n) \/ FlushWritten(q, n)
      PROVE  ByteInv'
  BY <1>5, BytesEvicted, BytesLoaded, BytesFlushed
<1>6. CASE Resume \/ FlushAll \/ Reopen
  BY <1>6, BytesResumed, BytesFlushStarts, BytesReopened
<1>7. QED
  BY <1>1, <1>2, <1>3, <1>4, <1>5, <1>6 DEF Next, Step, Aborted, vars

(* If the disk serves the requests on one page in the order they were      *)
(* submitted, the last version of a page is in memory whenever page_table  *)
(* has the page, and otherwise in the file or in the last of the writes    *)
(* that are under way: no eviction, load or flush gets ahead of a write.   *)
THEOREM BytesFollow ==
  ASSUME OrderedIO
  PROVE  Spec => []ByteInv
<1>1. Init => ByteInv
  <2> SUFFICES ASSUME Init
               PROVE  ByteInv
    OBVIOUS
  <2>1. \A p \in Pages : page_table[p] = NoSlot /\ io[p] = <<>>
    BY DEF Init
  <2>2. DOMAIN <<>> = {}
    OBVIOUS
  <2>3. live \subseteq Pages /\ \A p \in live : disk[p] = Newest(p)
    BY DEF Init
  <2>4. QED
    BY <2>1, <2>2, <2>3 DEF ByteInv, Carried, LoadsLast
<1>2. PoolInv /\ PoolInv' /\ FlushInv /\ WritersInv /\ NewInv /\ ByteInv /\ [Next]_vars => ByteInv'
  BY BytesNext
<1>3. QED
  BY <1>1, <1>2, PoolInvCorrect, FlushUndisturbed, WritersAreMarked, NewPagesApart, PTL DEF Spec

(* No version of a page is lost: until it is in the file it is in a slot   *)
(* that will be written, or in a request that is writing it.               *)
THEOREM NoVersionLost ==
  ASSUME OrderedIO
  PROVE  Spec => []NothingLost
<1>1. PoolInv /\ ByteInv => NothingLost
  <2> SUFFICES ASSUME PoolInv, ByteInv, NEW p \in live
               PROVE  \/ disk[p] = Newest(p)
                      \/ \E s \in Slots :
                           /\ buffer[s] = Newest(p)
                           /\ \/ page_table[p] = s /\ slot[s].is_dirty
                              \/ \E n \in DOMAIN io[p] : io[p][n].kind # "load" /\ io[p][n].slot = s
    BY DEF NothingLost
  <2>1. p \in Pages /\ page_table[p] \in Slots \cup {NoSlot}
    BY DEF PoolInv, TypeOK
  <2>2. CASE Marked(p)
    BY <2>1, <2>2 DEF Marked, ByteInv
  <2>3. CASE Carried(io, buffer, disk, p) /\ disk[p] # Newest(p)
    <3>1. PICK n \in DOMAIN io[p] : io[p][n].kind # "load" /\ buffer[io[p][n].slot] = Newest(p)
      BY <2>3 DEF Carried, Writes
    <3>2. io[p][n] \in Requests
      BY <2>1 DEF PoolInv, TypeOK
    <3>3. io[p][n].slot \in Slots
      BY <3>2 DEF Requests
    <3>4. QED
      BY <3>1, <3>3
  <2>4. QED
    BY <2>2, <2>3 DEF ByteInv
<1>2. QED
  BY <1>1, BytesFollow, PoolInvCorrect, PTL

(* A reference whose page is in its slot reads what was written to the     *)
(* page last, through whatever evictions and loads.                        *)
THEOREM LastWriteRead ==
  ASSUME OrderedIO
  PROVE  Spec => []ReadsLastWrite
<1>1. PoolInv /\ ByteInv => ReadsLastWrite
  <2> SUFFICES ASSUME PoolInv, ByteInv, NEW r \in Refs, ref[r].pc = "held", ref[r].page \in live,
                      slot[ref[r].slot].page = ref[r].page
               PROVE  buffer[ref[r].slot] = Newest(ref[r].page)
    BY DEF ReadsLastWrite
  <2> PICK p, s : p = ref[r].page /\ s = ref[r].slot
    OBVIOUS
  <2>0. TypeOK /\ MapInv /\ SlotInv
    BY DEF PoolInv
  <2>1. p \in Pages /\ s \in Slots /\ ~InTransit(s)
    BY <2>0, PinnedSlot DEF TypeOK, SlotInv, HeldSlots
  <2>2. page_table[p] = s /\ s # NoSlot
    BY <2>0, <2>1, PoolAssumption DEF MapInv, PageInOneSlot
  <2>3. QED
    BY <2>2 DEF ByteInv
<1>2. QED
  BY <1>1, BytesFollow, PoolInvCorrect, PTL

(* When the last write of flush_all is done the file has every page as it  *)
(* was written last.                                                       *)
THEOREM FlushReachesDisk ==
  ASSUME OrderedIO
  PROVE  Spec => FlushedToDisk
<1>1. PoolInv /\ PoolInv' /\ FlushInv /\ ByteInv' /\ [Next]_vars
        => [Flushing /\ ~Flushing' => \A p \in live : disk'[p] = Newest(p)]_vars
  <2> SUFFICES ASSUME PoolInv, PoolInv', FlushInv, ByteInv', [Next]_vars, Flushing, ~Flushing', vars' # vars
               PROVE  \A p \in live : disk'[p] = Newest(p)
    BY DEF vars
  <2>1. Flushes(io) /\ ~Flushes(io)'
    BY FlushingIs, FlushingIsNext
  <2>2. \E q \in Pages : \E n \in DOMAIN io[q] : FlushWritten(q, n)
    BY <2>1, FlushAlone
  <2>3. UNCHANGED <<slot, ref, current, live>>
    BY <2>2 DEF FlushWritten
  <2>4. AllIdle' /\ \A s \in Slots : ~slot'[s].is_dirty
    BY <2>1, <2>3 DEF FlushInv, AllIdle, Idle
  <2>5. OnDisk'
    BY <2>1, <2>4, SettledDiskNext DEF Settled
  <2>6. QED
    BY <2>3, <2>5 DEF OnDisk
<1>2. QED
  BY <1>1, BytesFollow, PoolInvCorrect, FlushUndisturbed, PTL DEF Spec, FlushedToDisk
================================================================================
