----------------------------- MODULE BufferPool -----------------------------
(***************************************************************************)
(* The buffer pool PersistentMemoryAsync                                   *)
(* (include/persistent_memory_async.hpp): a fixed number of slots caches   *)
(* the pages of a file.  Coroutines take references to pages; a reference  *)
(* pins the slot its page is in.  A page that is not in memory is loaded   *)
(* by the first coroutine that asks for it, into a slot it evicts, and the *)
(* others that ask for it meanwhile wait for the same load.                *)
(*                                                                         *)
(* Everything runs on one thread: a step is one coroutine run up to its    *)
(* next suspension or up to a point where the order of steps matters, or   *)
(* one completed request of the disk.  The bytes of a page are abstracted  *)
(* to "the last version written to page p" or "an older one".              *)
(***************************************************************************)
EXTENDS Integers, FiniteSets, SequencesExt

CONSTANTS
  Slots, slot_0,   (* slots[], and its first element                      *)
  Pages,           (* the page ids in use: bounds the file                *)
  Tasks,           (* coroutines that take references                     *)
  Prefetchers,     (* those that are a const_ref of prefetch_batch        *)
  Depth,           (* references one coroutine holds at a time            *)
  OrderedIO,       (* the disk serves the requests on one page in order   *)
  NoSlot, NoPage   (* the id -1                                           *)

ASSUME PoolAssumption ==
  /\ IsFiniteSet(Slots) /\ slot_0 \in Slots /\ NoSlot \notin Slots
  /\ NoPage \notin Pages
  /\ IsFiniteSet(Tasks) /\ Prefetchers \subseteq Tasks
  /\ Depth \in Nat
  /\ OrderedIO \in BOOLEAN

VARIABLES
  slot,            (* slots[]: one header per slot                        *)
  zero_key,        (* the slot evict_order holds under the key {0, 0}     *)
  buffer,          (* the bytes of each slot                              *)
  disk,            (* the bytes of each page in the file                  *)
  page_table,
  ongoing,         (* the load of each page, if there is one              *)
  io,              (* requests on each page in flight, as submitted       *)
  ref,             (* the references coroutines hold or wait for          *)
  resuming,        (* the finished load whose waiters are being resumed   *)
  current,         (* the coroutine that is running: at most one          *)
  live,            (* pages created and not removed                       *)
  fault            (* an exception or an assertion that has ended a run   *)

vars == <<slot, zero_key, buffer, disk, page_table, ongoing, io, ref,
          resuming, current, live, fault>>

(* The i-th reference of a coroutine, the lowest free one being taken; a   *)
(* prefetch has one.                                                       *)
Refs == ((Tasks \ Prefetchers) \X (1 .. Depth)) \cup (Prefetchers \X {1})

Newest(p) == <<p, "last">>
Blank == <<NoPage, "old">>
Outdated(d, p) == IF d = Newest(p) THEN <<p, "old">> ELSE d

NoLoad == [slot |-> NoSlot, waiters |-> <<>>, is_new |-> FALSE]
NotResuming == [slot |-> NoSlot, page |-> NoPage, waiters |-> <<>>]
FreeRef == [pc |-> "free", page |-> NoPage, slot |-> NoSlot, mode |-> "const", is_lead |-> FALSE]

(* SlotHeader::Reset(), for a slot that now holds p. *)
ResetHeader(p) ==
  [page |-> p, lock_count |-> 0, is_dirty |-> FALSE, used |-> FALSE, queued |-> FALSE]

Loading(p) == ongoing[p] # NoLoad

(* A process on the files: an empty pool, no coroutine. *)
EmptyPool ==
  [s \in Slots |-> [ResetHeader(NoPage) EXCEPT !.queued = TRUE]]

Init ==
  /\ slot = EmptyPool
  /\ zero_key = slot_0
  /\ buffer = [s \in Slots |-> Blank]
  /\ live \in SUBSET Pages
  /\ disk = [p \in Pages |-> IF p \in live THEN Newest(p) ELSE Blank]
  /\ page_table = [p \in Pages |-> NoSlot]
  /\ ongoing = [p \in Pages |-> NoLoad]
  /\ io = [p \in Pages |-> <<>>]
  /\ ref = [r \in Refs |-> FreeRef]
  /\ resuming = NotResuming
  /\ current = {}
  /\ fault = "none"

-----------------------------------------------------------------------------
(***************************************************************************)
(* Pins.  A header is "used" when its history is not empty, and "queued"   *)
(* when it is in evict_order.                                              *)
(***************************************************************************)

Queued == {s \in Slots : slot[s].queued}

permit_IO == Cardinality(Queued) > Cardinality(Slots) \div 2

(* Mutant: a slot in evict_order stays there when it is pinned. *)
LockLeavingQueued(h) == [h EXCEPT !.lock_count = @ + 1]

(* lock_slot: the first pin takes a slot out of evict_order. *)
lock_slot(h) ==
  [h EXCEPT !.lock_count = @ + 1, !.queued = @ /\ ~(h.lock_count = 0 /\ h.used)]

(* Mutant: the reference does not mark its page dirty. *)
ReferencedClean(h, mode) == [lock_slot(h) EXCEPT !.used = TRUE]

(* Mutant: the reference does not stamp the history. *)
ReferencedUnstamped(h, mode) == [lock_slot(h) EXCEPT !.is_dirty = @ \/ mode # "const"]

(* The constructor of a reference: pin, stamp, and mark a page that may be *)
(* written as dirty at once.                                               *)
Referenced(h, mode) ==
  [lock_slot(h) EXCEPT !.used = TRUE, !.is_dirty = @ \/ mode # "const"]

(* unlock_slot: the last pin to go puts the slot into evict_order.  Slots  *)
(* with an empty history share the key {0, 0}, and only one of them gets   *)
(* in: insert() leaves an entry that exists as it is.                      *)
unlock_slot(s, h) ==
  LET freed == h.lock_count = 1
      enters == h.used \/ zero_key = NoSlot
  IN /\ slot' = [slot EXCEPT ![s] = [h EXCEPT !.lock_count = @ - 1,
                                              !.queued = freed /\ enters]]
     /\ zero_key' = IF freed /\ ~h.used /\ enters THEN s ELSE zero_key

(* A coroutine writes page p, which is in slot s. *)
Store(p, s) ==
  /\ buffer' = [x \in Slots |-> IF x = s THEN Newest(p) ELSE Outdated(buffer[x], p)]
  /\ disk' = [q \in Pages |-> Outdated(disk[q], p)]

(* Reference r to page p in slot s, with header h, is constructed, which   *)
(* asserts that the slot holds the page.  A page being created is          *)
(* initialised before its coroutine suspends again.                        *)
Construct(r, p, s, h, mode) ==
  /\ fault' = IF h.page = p THEN fault ELSE "mismatch"
  /\ slot' = [slot EXCEPT ![s] = Referenced(h, mode)]
  /\ ref' = [ref EXCEPT ![r] =
       [pc |-> "held", page |-> p, slot |-> s, is_lead |-> FALSE,
        mode |-> IF mode = "init" THEN "mut" ELSE mode]]
  /\ IF mode = "init" /\ h.page = p
     THEN Store(p, s) /\ live' = live \cup {p}
     ELSE UNCHANGED <<buffer, disk, live>>

(***************************************************************************)
(* Coroutines.  One that runs goes on until it has to wait for a page or   *)
(* for a prefetch, or ends.  A prefetch runs only for a moment, when it is *)
(* started or resumed.                                                     *)
(***************************************************************************)
Has(t, pc) == \E r \in Refs : r[1] = t /\ ref[r].pc = pc

(* The coroutine or prefetch holds nothing and is suspended nowhere. *)
Idle(t) == \A r \in Refs : r[1] = t => ref[r].pc = "free"

(* No frame of a coroutine and no resumption loop is on the stack. *)
StackEmpty == current = {} /\ resuming.waiters = <<>>

(* t waits for a prefetch it started earlier to end. *)
AwaitsPrefetch(t) ==
  t \notin Prefetchers /\ t \notin current /\ Has(t, "held") /\ ~Has(t, "waiting")

(* flush_all() is waiting for its writes. *)
Flushing == \E p \in Pages : \E n \in DOMAIN io[p] : io[p][n].kind = "flush"

(* The main loop starts a coroutine only if permit_IO() holds; a running   *)
(* coroutine asks for further pages, or starts a prefetch, unchecked.      *)
MayRequest(r) ==
  LET t == r[1] IN
  /\ ref[r].pc = "free"
  /\ \A x \in Refs : x[1] = t /\ x[2] < r[2] => ref[x].pc # "free"
  /\ IF t \in Prefetchers THEN current # {}
     ELSE \/ t \in current
          \/ Idle(t) /\ StackEmpty /\ ~Flushing /\ permit_IO

(* No coroutine is under way. *)
AllIdle == current = {} /\ \A t \in Tasks : Idle(t)

(* A coroutine that gets a reference runs on, one that has to wait stops.  *)
RunsOn(r) == current' = IF r[1] \in Prefetchers THEN current ELSE {r[1]}
Stops(r) == current' = current \ {r[1]}

Submit(p, kind, s) ==
  io' = [io EXCEPT ![p] = Append(@, [kind |-> kind, slot |-> s])]

Waits(r, p, mode, is_lead) ==
  ref' = [ref EXCEPT ![r] = [pc |-> "waiting", page |-> p, slot |-> NoSlot,
                             mode |-> mode, is_lead |-> is_lead]]

-----------------------------------------------------------------------------
(***************************************************************************)
(* acquire_page_in_slot.                                                   *)
(***************************************************************************)

(* The page is in memory. *)
Hit(r, p, mode) ==
  /\ page_table[p] # NoSlot
  /\ Construct(r, p, page_table[p], slot[page_table[p]], mode)
  /\ RunsOn(r)
  /\ UNCHANGED <<zero_key, page_table, ongoing, io, resuming>>

(* The page is being loaded: wait for the same load. *)
Join(r, p, mode) ==
  /\ page_table[p] = NoSlot /\ Loading(p) /\ resuming.page # p
  /\ ongoing' = [ongoing EXCEPT ![p].waiters = Append(@, r)]
  /\ Waits(r, p, mode, FALSE)
  /\ Stops(r)
  /\ UNCHANGED <<slot, zero_key, buffer, disk, page_table, io, resuming, live, fault>>

(* The load is over, its lead has not been resumed yet, and the page has   *)
(* been removed meanwhile: the shared task still names the slot.           *)
JoinFinished(r, p, mode) ==
  /\ page_table[p] = NoSlot /\ Loading(p) /\ resuming.page = p
  /\ Construct(r, p, ongoing[p].slot, slot[ongoing[p].slot], mode)
  /\ RunsOn(r)
  /\ UNCHANGED <<zero_key, page_table, ongoing, io, resuming>>

(* get_lru_k takes the first slot of evict_order: {0, 0} is the least key, *)
(* the order of the others is left open.                                   *)
Victims == IF zero_key # NoSlot THEN {zero_key} ELSE Queued

(* Mutant: the evicted page stays in page_table. *)
StillMapped(s) == page_table

(* get_lru_k forgets the page slot s holds. *)
Unmapped(s) ==
  [q \in Pages |-> IF q = slot[s].page THEN NoSlot ELSE page_table[q]]

(* Mutant: the victim is loaded over without being written. *)
LeadWithoutWrite(r, p, mode, s) ==
  /\ slot[s].is_dirty \/ mode # "init"
  /\ Submit(p, "load", s)
  /\ slot' = [slot EXCEPT ![s].queued = FALSE]
  /\ page_table' = Unmapped(s)
  /\ ongoing' = [ongoing EXCEPT ![p] =
                   [slot |-> s, waiters |-> <<r>>, is_new |-> mode = "init"]]
  /\ Waits(r, p, mode, TRUE)
  /\ Stops(r)
  /\ UNCHANGED <<buffer, disk, live, fault>>

(* Lead the load of p into s: the eviction writes a dirty page first.      *)
LeadSuspends(r, p, mode, s) ==
  /\ slot[s].is_dirty \/ mode # "init"
  /\ IF slot[s].is_dirty THEN Submit(slot[s].page, "evict", s) ELSE Submit(p, "load", s)
  /\ slot' = [slot EXCEPT ![s].queued = FALSE]
  /\ page_table' = Unmapped(s)
  /\ ongoing' = [ongoing EXCEPT ![p] =
                   [slot |-> s, waiters |-> <<r>>, is_new |-> mode = "init"]]
  /\ Waits(r, p, mode, TRUE)
  /\ Stops(r)
  /\ UNCHANGED <<buffer, disk, live, fault>>

(* A new page needs no read, and a clean victim no write: no suspension.   *)
LeadAtOnce(r, p, mode, s) ==
  /\ ~slot[s].is_dirty /\ mode = "init"
  /\ Construct(r, p, s, ResetHeader(p), mode)
  /\ page_table' = [Unmapped(s) EXCEPT ![p] = s]
  /\ RunsOn(r)
  /\ UNCHANGED <<ongoing, io>>

Lead(r, p, mode) ==
  /\ page_table[p] = NoSlot /\ ~Loading(p)
  /\ \E s \in Victims :
       /\ LeadSuspends(r, p, mode, s) \/ LeadAtOnce(r, p, mode, s)
       /\ zero_key' = IF s = zero_key THEN NoSlot ELSE zero_key
  /\ UNCHANGED resuming

(* Nothing to evict: the exception ends the coroutine's request. *)
Overflow(p) ==
  /\ page_table[p] = NoSlot /\ ~Loading(p) /\ Queued = {}
  /\ fault' = "overflow"
  /\ UNCHANGED <<slot, zero_key, buffer, disk, page_table, ongoing, io, ref, resuming,
                 current, live>>

Acquire(r, p, mode) ==
  Hit(r, p, mode) \/ Join(r, p, mode) \/ JoinFinished(r, p, mode)
    \/ Lead(r, p, mode) \/ Overflow(p)

(* ref() or const_ref() of a page the file holds. *)
Reference(r, p, mode) ==
  /\ MayRequest(r)
  /\ mode \in {"const", "mut"} /\ (r[1] \in Prefetchers => mode = "const")
  /\ p \in live
  /\ Acquire(r, p, mode)

(* create_mutable_and_init: a page recycled or new, nobody's until it is   *)
(* initialised.                                                            *)
Create(r, p) ==
  /\ r[1] \notin Prefetchers /\ MayRequest(r)
  /\ p \notin live
  /\ \A x \in Refs : ~(ref[x].pc = "waiting" /\ ref[x].page = p /\ ref[x].mode = "init")
  /\ Acquire(r, p, "init")

-----------------------------------------------------------------------------
(***************************************************************************)
(* The disk, and what its completions resume.                              *)
(***************************************************************************)

(* Mutant: the slot is not pinned until the lead is resumed. *)
FinishLoadUnpinned(p, s) ==
  /\ slot' = [slot EXCEPT ![s] = ResetHeader(p)]
  /\ page_table' = [page_table EXCEPT ![p] = s]
  /\ resuming' = [slot |-> s, page |-> p, waiters |-> ongoing[p].waiters]
  /\ ongoing' = [ongoing EXCEPT ![p].waiters = <<>>]

(* evict_and_load has the page in the slot: the header is reset and pinned *)
(* until the lead is resumed; the waiters are resumed next.                *)
FinishLoad(p, s) ==
  /\ slot' = [slot EXCEPT ![s] = [ResetHeader(p) EXCEPT !.lock_count = 1]]
  /\ page_table' = [page_table EXCEPT ![p] = s]
  /\ resuming' = [slot |-> s, page |-> p, waiters |-> ongoing[p].waiters]
  /\ ongoing' = [ongoing EXCEPT ![p].waiters = <<>>]

(* Request n on page q is served: all in order, or in any order. *)
Serves(q, n, kind) ==
  /\ StackEmpty
  /\ n \in DOMAIN io[q] /\ io[q][n].kind = kind
  /\ OrderedIO => n = 1

Written(q, s) == disk' = [disk EXCEPT ![q] = buffer[s]]

EvictWritten(q, n) ==
  LET s == io[q][n].slot IN
  /\ Serves(q, n, "evict")
  /\ Written(q, s)
  /\ \E p \in Pages :
       /\ ongoing[p].slot = s
       /\ \/ /\ ongoing[p].is_new
             /\ io' = [io EXCEPT ![q] = RemoveAt(@, n)]
             /\ buffer' = [buffer EXCEPT ![s] = Blank]
             /\ FinishLoad(p, s)
          \/ /\ ~ongoing[p].is_new
             /\ LET rest == [io EXCEPT ![q] = RemoveAt(@, n)] IN
                io' = [rest EXCEPT ![p] = Append(@, [kind |-> "load", slot |-> s])]
             /\ slot' = [slot EXCEPT ![s].is_dirty = FALSE]
             /\ UNCHANGED <<buffer, page_table, ongoing, resuming>>
  /\ UNCHANGED <<zero_key, ref, current, live, fault>>

LoadRead(q, n) ==
  LET s == io[q][n].slot IN
  /\ Serves(q, n, "load")
  /\ buffer' = [buffer EXCEPT ![s] = disk[q]]
  /\ io' = [io EXCEPT ![q] = RemoveAt(@, n)]
  /\ FinishLoad(q, s)
  /\ UNCHANGED <<zero_key, disk, ref, current, live, fault>>

FlushWritten(q, n) ==
  /\ Serves(q, n, "flush")
  /\ Written(q, io[q][n].slot)
  /\ io' = [io EXCEPT ![q] = RemoveAt(@, n)]
  /\ UNCHANGED <<slot, zero_key, buffer, page_table, ongoing, ref, resuming,
                 current, live, fault>>

(* Mutant: every waiter drops the pin. *)
UnpinnedByAll(r) == [slot[resuming.slot] EXCEPT !.lock_count = @ - 1]

(* The header as a waiter finds it: the lead drops the pin of the load. *)
Unpinned(r) ==
  [slot[resuming.slot] EXCEPT !.lock_count = IF ref[r].is_lead THEN @ - 1 ELSE @]

(* Waiter r is resumed, the rest still waits.  The lead ends the load. *)
ResumeWaiter(r, rest) ==
  /\ Construct(r, resuming.page, resuming.slot, Unpinned(r), ref[r].mode)
  /\ ongoing' = IF ref[r].is_lead THEN [ongoing EXCEPT ![resuming.page] = NoLoad]
                ELSE ongoing
  /\ resuming' = IF rest = <<>> THEN NotResuming ELSE [resuming EXCEPT !.waiters = rest]
  /\ RunsOn(r)
  /\ UNCHANGED <<zero_key, page_table, io>>

(* Mutant: the waiters are resumed from the first to the last. *)
ResumeForward ==
  /\ resuming.waiters # <<>> /\ current = {}
  /\ ResumeWaiter(Head(resuming.waiters), Tail(resuming.waiters))

(* Mutant: only one waiter is resumed. *)
ResumeOne ==
  /\ resuming.waiters # <<>> /\ current = {}
  /\ ResumeWaiter(Head(resuming.waiters), <<>>)

(* SharedState::set_value resumes the waiters from the last to the first:  *)
(* the lead, who waited first, comes last.                                 *)
Resume ==
  /\ resuming.waiters # <<>> /\ current = {}
  /\ ResumeWaiter(Last(resuming.waiters), Front(resuming.waiters))

-----------------------------------------------------------------------------
(***************************************************************************)
(* What coroutines do with their references.                               *)
(***************************************************************************)

(* A reference of a coroutine goes out of scope. *)
Release(r) ==
  /\ ref[r].pc = "held" /\ r[1] \in current
  /\ unlock_slot(ref[r].slot, slot[ref[r].slot])
  /\ ref' = [ref EXCEPT ![r] = FreeRef]
  /\ UNCHANGED <<buffer, disk, page_table, ongoing, io, resuming, live, fault>>

Drop(r) == Release(r) /\ UNCHANGED current

(* With its last reference a coroutine ends; it may also go on with none,  *)
(* as a scan does between two leaves.                                      *)
Finish(r) ==
  /\ Release(r)
  /\ \A x \in Refs \ {r} : x[1] = r[1] => ref[x].pc = "free"
  /\ current' = {}

(* The coroutine waits for the prefetch it started before: only the flush  *)
(* prefetches, so there is one at most.                                    *)
AwaitPrefetch(t) ==
  /\ t \in current
  /\ \A u \in Tasks : ~AwaitsPrefetch(u)
  /\ \E u \in Prefetchers : ~Idle(u)
  /\ current' = {}
  /\ UNCHANGED <<slot, zero_key, buffer, disk, page_table, ongoing, io, ref, resuming,
                 live, fault>>

(* A prefetch ends: at any point after its page has come, since its batch  *)
(* has other pages.  Who waits for the last to end is resumed.             *)
EndPrefetch(r) ==
  /\ ref[r].pc = "held" /\ r[1] \in Prefetchers
  /\ unlock_slot(ref[r].slot, slot[ref[r].slot])
  /\ ref' = [ref EXCEPT ![r] = FreeRef]
  /\ LET waiting == {t \in Tasks : AwaitsPrefetch(t)} IN
     IF waiting # {} /\ \A u \in Prefetchers \ {r[1]} : Idle(u)
     THEN current = {} /\ current' = waiting
     ELSE UNCHANGED current
  /\ UNCHANGED <<buffer, disk, page_table, ongoing, io, resuming, live, fault>>

Write(r) ==
  /\ ref[r].pc = "held" /\ ref[r].mode = "mut" /\ r[1] \in current
  /\ Store(ref[r].page, ref[r].slot)
  /\ UNCHANGED <<slot, zero_key, page_table, ongoing, io, ref, resuming,
                 current, live, fault>>

(* remove() of page p by coroutine t, which has dropped the reference it   *)
(* wrote the page with; the path it holds may still pin the page.          *)
RemovePage(t, p) ==
  /\ t \in current /\ p \in live
  /\ \A r \in Refs : ref[r].page = p /\ r[1] \notin Prefetchers
                        => ref[r].pc = "held" /\ ref[r].mode = "const"
  /\ live' = live \ {p}
  /\ \/ /\ page_table[p] = NoSlot
        /\ UNCHANGED <<slot, zero_key, page_table>>
     \/ \E s \in Slots :
          /\ page_table[p] = s
          /\ page_table' = [page_table EXCEPT ![p] = NoSlot]
          /\ unlock_slot(s, [lock_slot(slot[s]) EXCEPT
                               !.page = NoPage, !.is_dirty = FALSE, !.used = FALSE])
  /\ UNCHANGED <<buffer, disk, ongoing, io, ref, resuming, current, fault>>

(* Mutant: the loop starts at the second slot. *)
FlushAllButFirst ==
  /\ AllIdle
  /\ \E s \in Slots : slot[s].is_dirty
  /\ io' = [p \in Pages |->
       IF page_table[p] \notin {NoSlot, slot_0} /\ slot[page_table[p]].is_dirty
       THEN Append(io[p], [kind |-> "flush", slot |-> page_table[p]]) ELSE io[p]]
  /\ slot' = [s \in Slots |-> [slot[s] EXCEPT !.is_dirty = FALSE]]
  /\ UNCHANGED <<zero_key, buffer, disk, page_table, ongoing, ref, resuming, current,
                 live, fault>>

(* flush_all writes every dirty page and marks it clean at once.  It runs  *)
(* when no other coroutine does (shutdown).                                *)
FlushAll ==
  /\ AllIdle
  /\ \E s \in Slots : slot[s].is_dirty
  /\ io' = [p \in Pages |->
       IF page_table[p] # NoSlot /\ slot[page_table[p]].is_dirty
       THEN Append(io[p], [kind |-> "flush", slot |-> page_table[p]]) ELSE io[p]]
  /\ slot' = [s \in Slots |-> [slot[s] EXCEPT !.is_dirty = FALSE]]
  /\ UNCHANGED <<zero_key, buffer, disk, page_table, ongoing, ref, resuming, current,
                 live, fault>>

(* The process has ended after flush_all and another one opens the file.   *)
Reopen ==
  /\ AllIdle /\ ~Flushing
  /\ \A s \in Slots : ~slot[s].is_dirty
  /\ slot' = EmptyPool
  /\ zero_key' = slot_0
  /\ buffer' = [s \in Slots |-> Blank]
  /\ page_table' = [p \in Pages |-> NoSlot]
  /\ UNCHANGED <<disk, ongoing, io, ref, resuming, current, live, fault>>

(* An exception or a failed assertion: what the program does after it is   *)
(* not modelled.                                                           *)
Aborted == fault # "none" /\ UNCHANGED vars

Asks(r) ==
  \E p \in Pages : (\E mode \in {"const", "mut"} : Reference(r, p, mode)) \/ Create(r, p)

Step ==
  \/ \E r \in Refs :
       \/ Asks(r)
       \/ Drop(r) \/ Finish(r) \/ Write(r) \/ EndPrefetch(r)
  \/ \E t \in Tasks : AwaitPrefetch(t) \/ \E p \in Pages : RemovePage(t, p)
  \/ \E q \in Pages : \E n \in DOMAIN io[q] :
       EvictWritten(q, n) \/ LoadRead(q, n) \/ FlushWritten(q, n)
  \/ Resume
  \/ FlushAll
  \/ Reopen

Next == (fault = "none" /\ Step) \/ Aborted

Spec == Init /\ [][Next]_vars

(* The disk serves what it was given, poll() resumes who waits for it, and *)
(* a coroutine that runs comes to its next suspension or to its end.  The   *)
(* main loop polls after every coroutine it starts, so the disk is not     *)
(* kept from being served by a stream of coroutines that find their pages. *)
Serve(q) ==
  /\ fault = "none"
  /\ \E n \in DOMAIN io[q] : EvictWritten(q, n) \/ LoadRead(q, n) \/ FlushWritten(q, n)

Fairness ==
  /\ \A q \in Pages : SF_vars(Serve(q))
  /\ WF_vars(fault = "none" /\ Resume)
  /\ WF_vars(fault = "none" /\ \E r \in Refs : r[1] \in current /\ Asks(r))
  /\ SF_vars(fault = "none" /\ \E r \in Refs : Finish(r))

FairSpec == Spec /\ Fairness

-----------------------------------------------------------------------------
(***************************************************************************)
(* Properties.                                                             *)
(***************************************************************************)
Headers ==
  [page : Pages \cup {NoPage}, lock_count : Nat, is_dirty : BOOLEAN,
   used : BOOLEAN, queued : BOOLEAN]

Data == (Pages \cup {NoPage}) \X {"last", "old"}

Requests == [kind : {"evict", "load", "flush"}, slot : Slots]

References ==
  [pc : {"free", "waiting", "held"}, page : Pages \cup {NoPage},
   slot : Slots \cup {NoSlot}, mode : {"const", "mut", "init"}, is_lead : BOOLEAN]

(* Every variable has its type; in particular no pin count is decremented  *)
(* below zero.                                                             *)
TypeOK ==
  /\ slot \in [Slots -> Headers]
  /\ zero_key \in Slots \cup {NoSlot}
  /\ buffer \in [Slots -> Data]
  /\ disk \in [Pages -> Data]
  /\ page_table \in [Pages -> Slots \cup {NoSlot}]
  /\ ongoing \in [Pages -> [slot : Slots \cup {NoSlot}, waiters : Seq(Refs),
                            is_new : BOOLEAN]]
  /\ io \in [Pages -> Seq(Requests)]
  /\ ref \in [Refs -> References]
  /\ resuming \in [slot : Slots \cup {NoSlot}, page : Pages \cup {NoPage},
                   waiters : Seq(Refs)]
  /\ current \subseteq Tasks \ Prefetchers
  /\ live \subseteq Pages
  /\ fault \in {"none", "overflow", "mismatch"}

(* The slot is being evicted and loaded: no page is in it. *)
InTransit(s) == \E p \in Pages : ongoing[p].slot = s /\ resuming.page # p

HoldersOf(s) == {r \in Refs : ref[r].pc = "held" /\ ref[r].slot = s}

(* The loads into s whose lead has not been resumed yet. *)
PinsByLoad(s) == {p \in Pages : ongoing[p].slot = s /\ resuming.page = p}

(* page_table and the slots' headers agree, so a page is in one slot only, *)
(* although eviction unmaps a page long before the header changes and a    *)
(* load maps it long after it was asked for.                               *)
PageInOneSlot ==
  \A s \in Slots, p \in Pages :
    page_table[p] = s <=> slot[s].page = p /\ ~InTransit(s)

(* A slot's pin count is the number of references coroutines hold to it,   *)
(* and the one pin that keeps it for the coroutine that led its load.      *)
PinsExact ==
  \A s \in Slots :
    slot[s].lock_count = Cardinality(HoldersOf(s)) + Cardinality(PinsByLoad(s))

(* evict_order offers no slot that somebody uses: none pinned, and none    *)
(* that an earlier eviction is still writing from or loading into.         *)
QueuedMeansFree ==
  \A s \in Slots : slot[s].queued => slot[s].lock_count = 0 /\ ~InTransit(s)

(* Only the removal of its page can take a slot out of use for good.       *)
LeaksOnlyByRemoval ==
  \A s \in Slots :
    slot[s].lock_count = 0 /\ ~InTransit(s) /\ ~slot[s].queued
      => slot[s].page = NoPage /\ ~slot[s].used

(* The last version of a page is on the disk, in a slot that will be       *)
(* written, or in a request that is writing it.                            *)
NothingLost ==
  \A p \in live :
    \/ disk[p] = Newest(p)
    \/ \E s \in Slots :
         /\ buffer[s] = Newest(p)
         /\ \/ page_table[p] = s /\ slot[s].is_dirty
            \/ \E n \in DOMAIN io[p] : io[p][n].kind # "load" /\ io[p][n].slot = s

(* What a reference reads is what was written to its page last, however    *)
(* often the page has been evicted and loaded in between.                  *)
ReadsLastWrite ==
  \A r \in Refs :
    /\ ref[r].pc = "held" /\ ref[r].page \in live
    /\ slot[ref[r].slot].page = ref[r].page
    => buffer[ref[r].slot] = Newest(ref[r].page)

(* The constructor of a reference finds its page in the slot it was given. *)
NoMismatch == fault # "mismatch"

(* When flush_all() is over the file holds every page as written last.     *)
FlushedToDisk ==
  [][Flushing /\ ~Flushing' => \A p \in live : disk'[p] = Newest(p)]_vars

(* Whoever waits for a page gets a reference to it.                        *)
RequestsComplete ==
  \A r \in Refs : ref[r].pc = "waiting" ~> ref[r].pc = "held"
=============================================================================
