# Verification of the asynchronous B+ tree

This directory specifies and checks the program of this repository: a
single-threaded index server (`src.cpp`) over a B+ tree whose pages are read and
written through io_uring (`include/async_bpt.h` and what it stands on). All
concurrency is cooperative. A coroutine runs until it awaits a page that is not in
memory, a counter, or another coroutine; the main loop issues requests and polls
the ring for completions, and whichever coroutine's page has arrived goes on next.

Paths below are relative to the repository root. `async_bpt.h`,
`persistent_memory_async.hpp`, `tasks.h`, ... are in `include/`.

## The system

| Part | State it keeps | Operations | What is hard |
|---|---|---|---|
| Main loop (`src.cpp`) | queue of lookup tasks, counts of issued and printed lookups | issue the next request, print the front lookup if done, poll, shut down | lookups finish in any order; the loop may end while a flush is suspended |
| Request protocol (`AsyncBPlusTree`) | `write_map_`, `known_absent_keys_`, `is_during_flush`, `unfinished_count` | `insert_async`, `remove_async`, `find_range_async`, `find_all_async`, `flush`, `shutdown`, `permit_operation` | requests change the buffer under suspended lookups; a flush waits for lookups and is resumed from inside one; caches of absence go stale |
| Tree structure (`AsyncBPlusTree`, private part) | nodes in pages, root handle, height, pinned path of the flush | descent, insertion and removal with split, borrow, merge, bulk load, prefetch | separators, sibling chain, path reuse between operations |
| Buffer pool (`PersistentMemoryAsync`) | slots with pin counts, LRU-K history and dirty bit, `page_table`, `evict_order`, `ongoing` loads, free pages | reference a page (pin), release, create, remove, prefetch, `flush_all`, `permit_IO` | eviction and loading suspend; several coroutines wait for one page; the pool may fill |
| Disk scheduler (`DiskScheduler`, `mini_uring.h`) | requests submitted and not completed | submit, batch, reap completions, resume waiters | queue full, partial batches, resumption from inside the reaping loop |
| Coroutine runtime (`tasks.h`, `smart_task.h`) | promise states, continuations, waiters of a `CriteriaVariable` | await, resume, final suspension, shared results | order of resumption, lifetime of frames, wake-ups |
| Ordered map (`stlite/map.hpp`) | AVL nodes with parent pointers, cached first and last node | insert, erase, find, bounds, iterators, copy | iterators kept over other entries' erases, rotations, stale caches |
| Configuration (`stlite/filed_config.hpp`) | root handle and height on file | load at start, save at exit | a fresh file reads as zeros |

They interact as follows. The main loop calls the tree; the tree awaits handles of
the buffer pool; the pool awaits the scheduler; the scheduler's completions, reaped
by `poll()`, resume the chain upwards. The flush and the lookups share the tree and
meet in `unfinished_count`, a `CriteriaVariable`: the flush awaits zero, and the last
lookup's decrement resumes it before the lookup itself returns. Nothing is logged
ahead: what survives a restart is the root handle and the pages `flush_all()` wrote.

What makes each part correct:

- *Main loop*: answers come out in request order, each once; the program ends; over
  any number of runs it behaves as one set of pairs.
- *Request protocol*: a flush and a lookup never work on the tree together; a lookup
  answers as of its issue; nothing buffered is lost or applied twice; a waiting flush
  is always resumed; the two shortcuts of `remove_async` (cancelling a pending
  insertion, believing a key absent) do not lose removals.
- *Tree structure*: every stored pair is reachable from the root and on the sibling
  chain, nodes stay within their capacities, an operation changes exactly its pair.
- *Buffer pool*: a page is in one slot; a pinned slot is not evicted; a read returns
  the last write; no slot is leaked.
- *Scheduler*: every request is served and reaped once, and none waits forever.
- *Runtime*: a suspended coroutine is resumed from exactly one place; frames neither leak
  nor are used after their end; nobody is left waiting for a condition that holds.
- *Ordered map*: it is the sorted set of its keys; it stays balanced; an iterator stays on
  its key.

## The modules

| Module | Models | Checked by |
|---|---|---|
| `PairStore` | the abstract specification: one set of pairs and a queue of answers, the reference model of `local-test/abpt/test_utils.hpp` | the target of `MainLoop`'s refinement |
| `AsyncBPT` | the request protocol | `MCAsyncBPT` with `AsyncBPT_*.cfg` |
| `MainLoop` | `src.cpp`, extending `AsyncBPT` and taking the clients' place | `MCMainLoop` with `MainLoop_*.cfg` |
| `AsyncBPT_proofs` | theorems about `AsyncBPT`: types, exclusion, answers, what the index holds | tlapm |
| `MainLoop_proofs` | the main loop is a client of `AsyncBPT` and implements `PairStore` | tlapm |
| `BufferPool_proofs` | theorems about pins, slots, loads and `page_table`, and about the bytes of pages | tlapm |
| `BufferPool` | the buffer pool, with the coroutines that hold references to its pages and a disk | `MCBufferPool` with `BufferPool_*.cfg` |
| `BPlusTree` | the nodes of the tree: what a flush does to them | `MCBPlusTree` with `BPlusTree_builds.cfg` |
| `BPlusTree_proofs` | lemmas about nodes, ranges and searches, and what a split, a borrow, a merge or a new root does to a tree | tlapm |
| `BPlusTree_steps_proofs` | the inductive invariant of a flush, and that entries and repairs keep it | tlapm |
| `BPlusTree_theorems` | that the bulk load establishes it, and the theorems about `BPlusTree` | tlapm |
| `DiskScheduler` | the scheduler and the two rings it shares with the kernel | `MCDiskScheduler` with `DiskScheduler.cfg` |
| `DiskScheduler_proofs` | each request is in one place of the rings | tlapm |
| `Tasks` | the coroutine runtime: `Task`, `SharedTask`, `SmartTask`, `CriteriaVariable` | `MCTasks` with `Tasks.cfg` |
| `Tasks_proofs` | theorems about handles, frames and results; nobody waits for zero in vain | tlapm |
| `SortedKeys` | the abstract specification of the map: a set of keys and positions in it | the target of `OrderedMap`'s refinement |
| `OrderedMap` | the ordered map, node by node | `MCOrderedMap` with `OrderedMap.cfg` |

### AsyncBPT

A step is one coroutine run from a resumption to its next suspension. The tree is
the set of pairs its leaves hold (`tree`), and its height is 0 when there are none. The
other variables are the members of the class. Two variables hold coroutine frames:

- `find[f]`: one lookup. `ops` is the snapshot of the buffer taken before the first
  suspension (`map_ops_in_range`), `rows` the pairs read so far, `unread` the part of
  the range not read yet. A page arrival (`FindRead`) reads any non-empty prefix of
  what is left, which stands for every way leaves can cut the range. At height 0 the scan
  returns at once, a `Task` that is done is not suspended on, and so a lookup of an empty
  tree is over when its call returns (`FindBegin`).
- `flush[fl]`: the flush awaited by a request, or by `shutdown()`. Its `pc` follows the
  code: waiting for `unfinished_count`, in the loop over the buffer (`iterating`, `todo`
  the entries not visited, the least of them the one it is suspended in), after
  `shutdown()`'s flush (`syncing` in `flush_all()`, `closed`). `dangling` is a loop whose
  iterator another flush's `clear()` has freed; its continuation is undefined behaviour,
  modelled as one arbitrary change of the tree (`FlushUndefined`), after which that
  coroutine is not followed.

An entry of the loop suspends several times, on the nodes of its path, the prefetch and the
pages of its repairs. While one flush is in its loop nobody else looks at the tree: lookups
are kept out, and so are requests. Then only what the entry has done at its end matters, and
`FlushApply` is one step for it, in the buffer's order. `shutdown()` during a request's flush
makes two loops over the same entries, which take turns inside them: one may descend through a
split the other is suspended in, or go on with a path the other has made stale. What comes of
an entry then is left open (`FlushDisturbed`: it may be missed, and pairs may be lost), and no
property claims more of such a tree.

Into an empty tree a flush puts its entries without suspending (`RunFlush`): new pages on clean
slots need no disk. It does so by a bulk load, which clears the absent keys too, or by the loop
while the root is the page 0 that a fresh configuration file reads as. A loop that empties the
tree goes on at height 0 in the same way, so such an entry takes the rest of the batch with it.
That one of these new pages needs a dirty slot to be written first, as it may in a pool filled
by the flush itself, is left out: nobody but a second loop could tell.

`StartFlush` and `RunFlush` take the buffer and the absent keys as parameters because the
caller has just changed them in the same step. `FindReturn` includes the flush's resumption
from inside the decrement.

Clients are constrained by `MayIssue` (`permit_operation()`, as in the main loop) and,
if a constant asks for it, by one of three disciplines: `FreshInserts` (no insertion of
a stored pair), `SettledLookups` (no insertion into the range of a lookup in flight),
`QuietShutdown` (no shutdown during a flush). The code enforces none of them.

`initialize_from_vector_async` as a public entry (the tests' set-up) is not an action of
the protocol: its effect is an initial state. `permit_IO()`'s half of `permit_operation()`
may refuse at any time; since clients are never obliged to call, it needs no variable.

### MainLoop

`pending_find_tasks`, and `more` for `operations_issued_count < n_total_operations`:
any request may be next and any may be the last. `event` is what the loop has last taken or
printed, the only thing beside the pairs that the store's user sees. The module adds the program's own
steps and uses those of `AsyncBPT` for the coroutines. `RunAgain` is a new process on the
files. `ImplementsStore` is the refinement: `content` is the buffer over the tree,
`pending` the answers the queued lookups have or will have. `LossyRemove` weakens the abstract removal to "may leave its pair": that is all that
can be promised for inputs outside the disciplines.

### BufferPool

`slot` holds the headers (`queued`: the iterator `it` is set, `used`: the history is not
empty), `page_table`, `evict_order` and `ongoing` are the class's maps; of `evict_order`
only the membership and the holder of the key `{0, 0}` (`zero_key`) are kept, any other
queued slot may be the next victim. The bytes of a page are "the last version written to
it" or "an older one", in each slot (`buffer`) and in the file (`disk`). `io` holds the
requests in flight on each page in the order of submission; `OrderedIO` says whether the
disk serves them in that order.

The users of the pool are modelled by what they do with references: a coroutine of
`Tasks` holds up to `Depth` of them. It is started only under `permit_IO()`, then runs,
asking for pages, writing, dropping references and removing pages, until it waits for a
page (`Join`, `LeadSuspends`) or a prefetch, or ends; `current` is the one that runs.
`Prefetchers` are the `const_ref`s of `prefetch_batch`, started by a running coroutine and
dropped when their batch ends, at any later point. `Acquire` has one disjunct per way
through `acquire_page_in_slot`. When a load is over (`FinishLoad`) its slot has one pin
left for the lead, and `resuming` holds the waiters still to be resumed: each runs up to
its own next suspension before the next one is resumed, the lead last, as in
`SharedState::set_value`. A removal follows the tree's use: no writable reference to the
page is left, but the path may still pin it. `fault` records what
the code answers with an exception (`Overflow`) or a failed assertion (a reference that finds
another page in its slot, "mismatch"); nothing is modelled after either.

### BPlusTree

`AsyncBPT` shows that a flush has the tree to itself, and takes the tree as a set of pairs.
This module is about the nodes that hold the set: `node` (the pages in use), `root`
(`root_handle_`, which nothing reads at height 0 except `flush()`, to choose between bulk
load and loop: both are possible there), `height`. Only the order of pairs matters, so a
pair is a number. The members `data`, `children` and `sibling` of a node are sequences and
a page; a page is read as a leaf or as an index node by its level alone, as in the code.

One entry of the buffer is one step at its leaf (`Insert`, `Delete`, and the two that
change nothing), followed by the repairs it calls for, one step for each call of a
`handle_..._overflow/underflow` (`pending` says which is due and at which level of `path`).
So the invariants hold in the half-repaired states too, except for the size of the one node
the repair is on. `path` stays between two entries as `flush()` keeps its `PinnedPath`: only
if the next pair lies within the leaf. Without a kept path nothing of one flush is left for
the next, so entries in order within a flush and flushes one after another need no further
variable. The binary searches are modelled by what they find in a sorted array.

`build` is chosen at the start: page size, pair types and `USE_SMALL_BATCH` fix the
thresholds and `FLUSH_THRESHOLD` when the program is compiled. `BuildsAssumption` asks that
a flush holds at most `leaf_split * (index_split + 1)` entries, as it does in the code's two
builds (10000 against more than 24000; 40 against 42). Then a bulk load has one index
node at most, and never builds one with a single child, whose underflow
would look at the child before the first (`async_bpt.h:1103`). The tests call
`initialize_from_vector_async` directly, with inputs of any length; those, and calling it on
a tree that is not empty, are outside.

The prefetch changes nothing in the tree, so it has no action: `next_prefetch_step` is a
function of the tree, the nodes it still holds, the next key and which pages are in memory
(`missing`, the level of the descent from which on they are not), and `PrefetchesAhead`
checks it in every state between entries. How the pages it asks for travel is in `BufferPool`.

### DiskScheduler

`sq` and `cq` are the shared rings with their unsigned counters (modulo `Wrap`), `tail_cached`
the counter that only the program sees; `in_kernel` counts the operations the kernel has
under way. `SubmitRequest` is `async_read` or `async_write` and the `co_await` of it: the
entry is filled in, and with a full ring what it holds is submitted first.
`handle_completions()` is not atomic, because it resumes coroutines that submit new requests
while it goes on: `BeginPoll`, then per completion `Resume` and `ResumeReturns`, with
`SubmitRequest` in between, and `EndPoll`, which gives the entries back and flushes when it
is due. The kernel may complete something between any two steps.

`KernelTakes`, `Takes` and `Complete` are the kernel and external: it serves in any order,
may take only a part of what it is offered (`PartialSubmits`), posts a completion only when
the ring has room, and keeps it otherwise. `io_uring_submit` tells it of the entries since
the last tail, not since the head, so entries it did not take are never offered again;
`LeftBehind` is that state, and `RequestsComplete` is claimed only outside it (see Findings).
A failed flush throws out of `poll()`, a failed submission in `submit_request` into the
coroutine. A request object is freed when its coroutine has gone on and may then be
allocated again at the same address: `Requests` are such addresses. `sqes_prepared_count`
is kept up to the threshold only, since it is compared with the threshold and, by
`flush_requests`, with zero, in a case where nothing is ready and submitting does nothing.

### Tasks

The three coroutine types differ in who is resumed at the end, in which order, and who
destroys the frame. The state is the set of frames and the C++ call stack, as far as it
matters: `stack` holds the coroutines that run, each called or resumed by the entry below it,
and the loops of `set_value`, `set_completed`, `set_exception` and
`evaluate_criteria_and_notify_waiters` with the handles they have not resumed yet.

The coroutines are those of the program, by role (the constants of the module), and `MayCall`
and `MayAwait` are its call graph: lookups and modifications call one another and references,
a reference calls `acquire_page_in_slot`, which calls or finds an `evict_and_load`, which calls
and awaits `evict_page`; a flush starts a `prefetch_batch`, which calls references. What a
coroutine does between its calls, awaits and its end is open. A `Task` lives in the coroutine
that has called it (`owner`, `Held`) and is awaited in the expression that calls it, so until
then the caller does nothing else (`Free`). The exception is `prefetch_batch`, which collects a
vector of them and awaits one after another while the others go on, or are done and not
asked yet (in any order; one that has been asked is as good as gone).

Any coroutine may end by an exception at any point where it runs freely, which allows more
than the code's two sources (a full pool, and a result that is an exception). In a prefetch
that holds more `Task`s it destroys their frames, done or not (`FailPrefetch`). One of these
that was suspended under a load's `SharedState` is "destroyed": the handle to it stays with the
load. Resuming that is undefined behaviour, so `ResumeNext` asks that the frame is there, and
a run in which it is not ends there.

Who keeps the counter up is a lookup, who waits for zero a modification (a flush).
Completions are delivered from the main loop only. Results are "pending" or "known"; an
awaiter of something known goes on at once, which changes nothing and is no step. Frames are
started again when they are gone.

### OrderedMap

`write_map_`, `page_table`, `ongoing` and `evict_order` are maps of this class, and flush and
slots keep iterators into them. A node stands for its key: an erase exchanges nodes, never
values, so the pointer an iterator holds and the key belong together as long as the node
lives. The tree is passed through the operators as a record (`Tree`), since one call rotates
several times; each public operation is one action, with the caches of the first and last
node and their flag. Mirror images in the code (`rotate_left` and `rotate_right`, the two
halves of `maintain`) are one operator with the side as a parameter. `result` is the last
call and its answer, so that `ImplementsSortedKeys` compares every answer with that of the
sorted set, for every iterator there could be. What lookups do with the values is left out.

## Runs

| Run | Shows |
|---|---|
| `async_bpt_any` | clients without discipline, shutdown at any time: exclusion, no stranded flush, answers as of issue; the flag means a flush; while a flush is alone in its loop, nothing of its batch is left behind; unless a shutdown has disturbed a flush, content changes only by requests |
| `main_loop_disciplined` | disciplined input: both shortcuts of `remove_async` are sound (`AbsentKeysAreAbsent`, `PendingInsertIsNew`), and the program refines the exact store, over any number of runs |
| `main_loop_live` | any input, with entries left in the buffer between requests, cancelled removals and a shutdown that has something to flush: the program refines the store with lossy removals; answers are printed, flushes and shutdowns complete, the program ends |
| `buffer_pool_ordered` | one reference per coroutine, requests on a page served in order: page_table and headers agree, no write is lost over eviction, flush and reopening, references read the last write, and whoever waits for a page gets it |
| `buffer_pool_nested` | two references per coroutine, a prefetch, any order of service: pins are exact, no slot in use can be evicted, slots are lost by removals only |
| `b_plus_tree` | any sequence of entries and bulk loads: after every repair step scans find exactly the stored pairs, pages are neither lost nor shared, sizes fit; a kept path is the one a new descent would take; the prefetch asks for pages to come |
| `ordered_map` | rotations and exchanges keep the map balanced with exact heights; it answers as the sorted set does |
| `disk_scheduler` | each request is in one place on its way through the rings and none is reaped twice; every request completes unless the kernel has taken only a part; polls return |
| `tasks` | each suspended coroutine is resumed from exactly one place; no frame leaks, and only those under a failing prefetch are destroyed undone; results are there when awaiters go on; nobody is left waiting for zero |
| `buffer_pool_stale_read` | `ReadsLastWrite` fails when the disk serves requests in any order (see Findings) |
| `main_loop_stale_absence` | the exact refinement fails when lookups in flight and insertions may cover the same key (see Findings) |
| `main_loop_abrupt_exit` | a shutdown during a request's flush frees the entry that flush's iterator is at (see Findings) |

Bounds of the pool. Three slots and two pages, any of which the file may hold at the start:
a slot can be evicted, in transit and pinned at the same time as the others, and two slots
can be free with an empty history (the key they share). Two coroutines are enough for a
shared load with a lead and a waiter that goes on before it; with two references each and
a prefetch they fill the pool. In `buffer_pool_nested` the pages, the coroutines and the
slots except the first are symmetric, and the view leaves out the bytes, which no guard
and none of the run's properties reads.

Bounds of the tree. Eight pairs, four builds: leaves and index nodes of capacity 4
(thresholds 1 and 3), the least the code allows; leaves of capacity 8 (2 and 6), which lend
more than one pair; and two with thresholds closer than any capacity gives (1/2 with 2/4 and
1/2 with 1/2), in which eight pairs make trees of three and four levels, so that index nodes
below the root split, borrow from either side, merge, and underflow with a key left. Every
disjunct of every repair fires. The view leaves out page numbers, which nothing depends on.

Bounds of the protocol. Two keys, one with two values (`ThreePairs`), a range query that crosses the
keys, two lookup frames, `FLUSH_THRESHOLD` 2. A threshold of 2 lets the buffer hold
entries between flushes, reach the threshold with an INSERT and a DELETE together, and
be flushed below it by a client; two frames are enough for one lookup to leave while
another keeps the flush waiting; three pairs give scans of up to three leaves. The main
loop issues no range queries. `main_loop_disciplined` has all three pairs; the others have two, one
per key, enough for a batch of two entries, a cancelled removal beside another entry and answers
in flight for different keys. `main_loop_live` uses no symmetry; the two runs with a
violation need one lookup frame. `Reopen`
makes every run a sequence of sessions, so the state space is finite without a bound on
time. Deadlock is checked everywhere but in `tasks`: the protocol can always take a request,
finish something, or reopen. `tasks` ends where the program is about to resume a destroyed
coroutine.

Bounds of the map. Eight keys give trees of four levels with every single and double rotation
after insertions and erases, and exchanges with a neighbour that is the child or further down.
An erase that rotates on two levels needs twelve keys and is not reached. The view leaves out `result`, which no guard reads.

Bounds of the scheduler. Three requests and rings of two: each ring fills, submissions in the
middle of a poll find no room, and completions wait for room. Counters wrap at 4, so that full
and empty rings are met at every offset; threshold and flush interval are 2 (in the program
16), so that a batch can be submitted by either or by a full ring. In the program the
completion ring cannot overflow: the kernel makes it twice as large as the submission ring,
which has an entry per slot of the pool.

Bounds of the runtime. Two lookups, one modification, two references with two acquisitions, one
load with one eviction, one request, one prefetch: call chains from the request down to the
eviction, two waiters on one load, a prefetch whose two `Task`s share a load and one of which
fails, a flush that waits for the prefetch or for two lookups, and a notification from inside
either of these. One load is enough, since loads of different pages share no state here.

Fairness. `Fairness` and `LoopFairness` are weak fairness of each coroutine's next step:
the loop polls in every iteration (`src.cpp:125,136`), io_uring completes what was
submitted, and a completed page resumes its coroutine. In `MainLoop` also of the loop's own steps, to print or, with
nothing left to print, to leave, which each iteration tries. Clients and the input owe nothing.
In `BufferPool` the disk's answers are strongly fair: the loop polls after every coroutine
it starts, so a stream of coroutines that find their pages cannot keep completions
waiting. A running coroutine goes on and in the end finishes (`Finish`, strongly fair: a
descent and a scan are finite).
In `DiskScheduler` the loop's steps are weakly fair, a resumed coroutine comes to its next
suspension, and the kernel finishes what it has taken: strongly fair, since a full completion
ring makes it wait, and it posts what it kept as soon as there is room. `Tasks` states no
fairness: its liveness is too large for the checker. That whoever waits for zero is resumed
rests on `NoStrandedWaiter` and `HandlesExact` there, and is checked as `FlushesComplete` and
`RequestsComplete` where the program uses the runtime.

## Findings

Three runs find a property violated, each with one assumption of a passing run dropped.

1. *Stale absence* (`async_bpt.h:361`). A lookup issued before an insertion of its key
   returns after it and marks the key absent; after the flush, removals are dropped. The
   tree must hold other pairs, since a lookup of an empty tree is over at once.
2. *Abrupt exit* (`src.cpp:129`). The loop does not wait for a flush an insertion has
   started, and `shutdown()` starts a second one over the same entries: both take turns in
   their loops, and the first to end clears the buffer (`async_bpt.h:591`), which frees the
   entry the other's iterator is at (`RequestKeepsIterator` fails). A bulk load is not
   exposed to this: it never suspends.
3. *Stale read* (`persistent_memory_async.hpp:143`). A dirty victim leaves `page_table`
   before its write is served; a new request for the page submits a read that nothing
   orders after the write. `ReadsLastWrite` fails without `OrderedIO`, and holds with it:
   the order of the two requests is what is missing.

Seven more were met and have no run of their own:

- *Cancelled removal* (`async_bpt.h:403`). A pending INSERT of a pair the tree already
  holds is cancelled by a removal, which leaves the stored pair. This is why
  `main_loop_live`, whose input is not disciplined, needs `LossyRemove`.
- *Left-behind requests* (`mini_uring.h:122`). After an `io_uring_enter` that took only a
  part, later ones are told only of newer entries, and each leaves as many behind as the
  first did: the flush on every 16th poll, meant "to ensure that there won't be someone
  waiting for remaining" (`disk_scheduler.cpp:145`), does not reach them. `RequestsComplete`
  excepts these states (`LeftBehind`).
- *Largest value* (`async_bpt.h:376`). `find_all_async` asks for a half-open range whose
  end is `(k, val_max)` and never reports that pair; the instances' values are smaller.
- *Removed under a prefetch* (`persistent_memory_async.hpp:496`). A coroutine joins a
  prefetch's load, is resumed before it, and removes the page; the prefetch's reference
  then fails the assertion on the slot's page (`fault = "mismatch"` in
  `buffer_pool_nested`). Without prefetches this cannot happen: `NoMismatch` holds.
- *Failing prefetch* (`persistent_memory_async.hpp:326`). When a reference it awaits throws, as
  one does in a full pool, `prefetch_batch` destroys the others undone (`tasks.h:200-204`); a
  load they wait for keeps the handle and resumes it. `HandlesExact` and `FramesHeld` say which
  frames this can be, and that there is no other such handle.
- *Overflow* (`persistent_memory_async.hpp:149`). `permit_IO()` counts the slots taken,
  not those that coroutines already started will still take (`fault = "overflow"` in
  `buffer_pool_nested`).
- *Leaked slot* (`persistent_memory_async.hpp:284`). Two slots freed by removals share
  the key `{0, 0}`, and `insert` keeps the first; the other is not evicted again.
  `LeaksOnlyByRemoval` shows that this is the only way a slot is lost.

## Proofs

Every theorem is proved for all values of the constants that meet the modules' assumptions
(`ConstantsAssumption`, `LossyAssumption`, `PoolAssumption`, `BuildsAssumption`,
`FramesAssumption`, `RingAssumption`); where a theorem needs more, the hypothesis is in its
statement. Each state predicate named below that is not a run's invariant was checked by TLC
before it was proved.

### The request protocol

`AsyncBPT_proofs`, first with no assumption on the clients' discipline:

- `TypeCorrect`, `CounterCorrect`: types and the counter are one induction (`TypeInv`),
  because that `unfinished_count` stays a natural number needs that it counts the readers;
  `ReaderEnters` and `ReaderLeaves` move a finite set's cardinality with the counter.
- `ExclusionCorrect`, and from it `FlushExclusion` and `NoStrandedFlush`: exclusion is not
  inductive by itself. That no lookup starts during a flush needs the flag
  (`RequestFlushGuarded`), that the flag is not dropped by another flush needs that a
  second one comes only from shutdown (`ShutdownComesLast`) and that records hold entries
  only in their phases (`RecordsMatchPhase`); that the last lookup resumes a flush needs
  `WaitingFlushHasWaker`. `ExclusionInv` is their conjunction.
- `LookupsAnswerAsOfIssue`: with `ExclusionInv`, no step changes the tree under a lookup
  (`TreeStableUnderLookups`); so the pairs read and the pairs still to be read always merge
  to the same answer.

Then about what the index holds:

- `PermissionCorrect`: while the index is open the flag is up exactly while a flush is.
- `BatchApplied` and `ContentOnlyByRequest` from `ContentInv`: entries to visit are in the
  buffer (`TodoIsBuffered`), a flush that has lost its buffer, or a shutdown past its flush,
  leaves it empty (`BufferGone`), and entries the loop has passed agree with the tree unless
  another loop is under way (`PassedEntriesApplied`). Then moving an entry from the buffer to
  the tree leaves the overlay of the two as it was. `BatchApplied` needs no discipline, but says
  nothing of two loops at once; when the first of two ends it clears the buffer, so a loop that
  is alone again has passed nothing that is still in it.
- `QuietShutdownUndisturbed`: the exception in `ContentOnlyByRequest` is empty when
  `shutdown()` is called between flushes.
- `AbsenceCorrect` (`SettledLookups`, `QuietShutdown`): a key is remembered as absent when a
  lookup ends, as of its issue, so the invariant has to speak of the lookups in flight:
  `SnapshotCovers`, each will answer with every pair of its range that is in the set *now*.
  A removal may make an answer too large, never too small, as long as no insertion falls into
  the range. `ValuesInRange` is needed too: `find_all_async` leaves out the pair
  `(k, val_max)` (see Findings), and would call its key absent.
- `PendingInsertsNew` (`FreshInserts`): holds with any shutdown.

### The main loop

`LoopIsClient`: every behaviour of `MainLoop` is one of `AsyncBPT`; that the front of the
queue may be collected needs `LoopInv` (the queue holds frames in use, each once, none once
shutdown has begun). `LossyStore` and `DisciplinedStore` are the refinement of `PairStore`,
step by step: requests map to the store's requests by the theorems above, a lookup's end and
everything a flush does to stutters, printing to the removal of the first answer. The first
holds for every input under the lossy removals of `main_loop_live`, the second for the inputs
of `main_loop_disciplined`; both need that shutdown waits for a flush, which the loop does not
ensure (Findings, *Abrupt exit*).

### The buffer pool

`BufferPool_proofs`, for any pages, slots, coroutines and prefetchers, any `Depth` and any
order of service. `PoolInv` is one induction, because its parts need each other:

- *pins*: `lock_count` is the number of references on the slot and of the load that has just
  finished there. That a resumed coroutine finds its slot still pinned is `ResumingOwnsLoad`:
  the load's pin stays until its lead, the last of the waiters, has been resumed.
- *lists* (`ListInv`): the waiters of a page are listed once, the lead first; a load has a
  slot of its own, and its page is nowhere else (`LoadedPageAbsent`).
- *requests* (`TransitRequests`): at most one request moves a slot, the write of the old page
  or the read of the new one, so that nobody is loaded into a slot whose old bytes are still
  being written.
- *map and headers* (`MapInv`, `SlotInv`): `PageInOneSlot`, `QueuedMeansFree`,
  `LeaksOnlyByRemoval`, and what the key `{0, 0}` needs: a page in a slot has a history
  (`PagesUsed`), so the slots that share that key hold none.

From it `PoolTypes`, `PagesApart`, `PinsBalance`, `VictimsFree`, `LeaksExplained`.
`SlotsAsPromised` adds `Placed` (every reference finds its page in its slot) and needs
`Prefetchers = {}`: with prefetches it is false (Findings, *Removed under a prefetch*).

The second half is about contents. `NobodyForgotten`, `WritersAreMarked`,
`FlushUndisturbed` and `NewPagesApart` hold for any order of service: who waits is listed;
who may write has his page in his slot, marked dirty; while `flush_all()` writes, nobody uses
the pool; a page being created is used by nobody else. With `OrderedIO`, `BytesFollow`: the
newest version of a page is in its slot, if `page_table` has one; if that is not marked dirty
it is in the last write among the requests on the page, or there is no write and it is in the
file (`Carried`); and a load is behind every write (`LoadsLast`). `NoVersionLost`,
`LastWriteRead` and `FlushReachesDisk` follow. The hypothesis is one about the kernel that the
code does not ensure; the run `buffer_pool_stale_read` is what happens without it.

### The tree

`BPlusTree_proofs`, `BPlusTree_steps_proofs` and `BPlusTree_theorems`, for any finite set of
pairs, any height, any number of pages and any thresholds that meet `BuildsAssumption`. All six
invariants of the run `b_plus_tree` are theorems; they follow from `IInv` (`SpecIInv`), which
says what kind of tree the pages are without following pointers:

- *shape* (`Cells`, `NodesOK`, `Shape`): every page has a level and a range of pairs
  (`lev`, `rng`). The ranges of each level are disjoint and cover all pairs; the root has level
  `height` and every pair. The keys of a node are ascending and lie within its range, and cut
  it into the ranges of its children, which are one level lower (`Fan`); a leaf holds exactly
  the stored pairs of its range (`Holds`), and its sibling is the leaf whose range begins where
  its own ends, or there is none if its range has no end (`NextOK`).
- *sizes* (`Fits`): every node is between its thresholds, but for the one under repair, and the
  root, whose least size is one. How large or small the exception is (`DueSize`) is part of
  the invariant too: one above the split threshold, or below the least size. Without it
  a split could not be shown to leave both halves large enough, nor a merge one that is not
  too large.
- *path* (`PathOK`, `Working`): the path in work descends from the root, and the repair that is
  due is of a node on it.

`lev` and `rng` are witnesses: `IInv` quantifies them, and each step's proof names the new ones.
TLC checked `IInv` on the run's instance with the levels and ranges a descent computes.

The steps are proved in two layers. Five lemmas speak of any tree and no variable:
`SplitTree`, `BalanceTree` (both borrowings, of leaves and of index nodes), `MergeTree`,
`GrowTree` and `ShrinkTree` say that a node cut in two, two neighbours that share their entries
anew, two that become one, a new root and a root given up keep the shape. They rest on
lemmas about sequences that are cut, joined, extended and shortened together with their keys'
slots (`SlotsInserted`, `FanCut`, `FanJoin`, `FanInsert`, `FanRemove`, `LeafCut`, ...). Then one
lemma for each action shows that the code's assignments are one of these, that its guard gives
the sizes, and that what `Propagate` leaves due is what `Working` says. So the half-repaired
states are covered: the parent whose size a split or merge has changed is the exception next.

The bulk load (`BulkLoad`) is one step that builds a tree: pieces of an ascending sequence give
leaves whose ranges begin at their first pairs (`LeavesFacts`), and the last conjunct of
`BuildsAssumption` makes the level above them at most one index node, with two children or more
(`ParentsFacts`, `FewLeaves`).

What follows from `IInv`:

- `TypeCorrect`, `PagesExactHolds`: the pages at a level of the tree are exactly those whose
  `lev` says so, each once (`LevelFacts`, by induction down the levels).
- `ScansFindStoredHolds`: a descent ends at the leaf whose range has the pair (`Descent`), the
  chain goes through the leaves in the order of their ranges and misses none (`ChainFacts`), so
  what it reads is ascending and has the stored pairs from there on, and nothing else.
- `NodesFitHolds` is a part of `IInv`; `KeptPathIsFreshHolds`: the pair between the ends of the
  leaf is in its range, and a page's range decides the way to it (`SamePath`).
- `PrefetchesAheadHolds`: a held node with a key above the next pair has that pair in its range
  (`TurnFacts`), so the walk goes on along that pair's own descent (`WalkFacts`); an entry below
  the last key the walk has passed on its right goes the same way (`SameDescent`, `StepReads`).

The library's induction theorems take an operator as a parameter, and the prover cannot
instantiate them. These proofs use a form that takes a set: `LeastNumber` is proved from
`WFMin` of the library, and `Induction`, `InductionUpTo` and `GreatestNumber`, about sets of
natural numbers, from it. With them what the model's recursive functions compute (`find_path`,
the chain of leaves, `Level`, `built`, the walk of the look-ahead) is proved for every input:
a function that satisfies the recursion exists (`DescentSolution`, `ChainExists`, `LevelsExist`,
`BuiltFacts`, `WalkExists`), so the CHOOSE its definition stands for is one, and what each value
is follows by induction on its argument.

### The coroutine runtime

`Tasks_proofs`, for any coroutines of each role. `HandlesExact` counts places; what is inductive
is `RuntimeInv` (`RuntimeInvCorrect`), which says what the places are:

- *stack* (`Shape`, `StackInv`): a coroutine and a list of waiters occur on the stack at most
  once, and the loop that resumes the waiters of a coroutine is directly above it. So who runs
  is on the stack once, and the frame that `EndFrame` destroys is the one below the loop.
- *handles* (`HandleInv`): where a coroutine waits is where its handle is: in `io`; among
  `waiting_coroutines` or in the loop that has taken that list away; in the list of the
  coroutine it awaits or, once a loop has started on that, in what the loop has left. Nothing
  can be added to a list a loop works on, since the outcome is known before the loop starts.
- *frames* (`FrameInv`): the list of waiters of a frame that is gone or done is empty, and a frame
  destroyed undone is an acquisition's whose handle is with a load.
- *calls* (`OwnerInv`, `AwaitsInv`): a `Task` lives in a coroutine that is still there and, unless
  that is a prefetch, awaits this very `Task` when it is suspended; who awaits what follows the
  call graph. Hence a prefetch that fails holds references and, through them, acquisitions only.
- *order* (`PageInv`, `ZeroInv`): above a coroutine that brings pages and is not over yet runs
  only what it has called, itself or through others, and nobody awaits those yet; above an
  evaluation of the counter run flushes and what they call, and no lookup.

The stack and the handles are one induction (`HandlesInv`, the lemmas `Step...`), the frames and
calls another (`CallsInv`, `Calls...`), the order a third (`OrderInv`, `Order...`), each using the
ones before it. `HandlesExactCorrect`, `FramesHeldCorrect` and `OutcomesKnownCorrect` follow; the
first by counting (`OneOrNone`, `TimesIs`, `LoopedIs`). With a prefetch's vector the parts do need
each other: that the frames a failing prefetch destroys do not run is `PageInv`, and that only an
acquisition leaves a handle behind is `AwaitsInv`.

`NoStrandedWaiterCorrect`: an evaluation may be skipped because one is under way further out, and
that must not end with the counter at zero and somebody waiting. It cannot: the counter was zero
when the outer one began, only flushes are resumed by it, what runs above it is a flush or
brings pages for one, and these resume nobody but their own callers; so no lookup runs there,
and nobody raises or lowers the counter until it has ended (`ZeroInv`). How the program uses the
runtime is needed for this, as `MayCall` and `MayAwait` state it: a flush starts no lookup.

### The disk scheduler

`DiskScheduler_proofs`, for rings of any sizes that divide the range `Wrap` of their counters
and are smaller than it (`RingAssumption`; the kernel's sizes are powers of two), any number of
requests, any threshold, and whether or not the kernel takes only part of a batch.
`EachRequestOnceCorrect` rests on `RingInv`:

- *submission ring* (`SqOk`): the published entries begin at the head and end at or before what
  is handed out, that is never more than `Entries` ahead of the head, and the index of a
  published entry is its own place. So what `SubmissionsOf` reads through the indirection array
  is what lies in `sqes` behind the head (`QueuedAreSubmissions`).
- *completion ring* (`CqOk`): what a poll has reaped lies between the head, which only its end
  moves, and the tail; what is left to reap are requests.
- *one place each* (`OneEach`): over both rings and the kernel, entries are counted by
  cardinality. `HeldAdded` and `HeldApart` say how a count changes when an entry is put behind
  the others and when the head passes some; for both, positions of a ring that are less than its
  size apart are different places (`PlacesDiffer`), which across the wrap of the counters needs
  the divisibility.

That the entry a poll resumes is of a request somebody waits for, so that the count of unfinished
requests is exact, is a consequence of `OneEach`. TLC checked `RingInv` on the run's instance.

### Only model-checked

`OrderedMap` has no theorems: `Balanced` and the refinement of `SortedKeys` speak of what walks
along the links of a whole tree compute, and would need an invariant as large as the one of the
B+ tree. Liveness (`RequestsComplete`, `FlushesComplete`, `ProgramEnds`, `AnswersArePrinted`,
`PollsReturn`) stays with TLC: it needs ENABLED, which the prover does not handle. So do the
three findings that have a run. That the flush of `BPlusTree` implements the tree of `AsyncBPT`
(a set of pairs) is not stated as a refinement: `ScansFindStoredHolds` says what a lookup reads
in it, and `stored` changes by the entry's pair only.

## Plan

1. `PairStore`, `AsyncBPT`, `MainLoop`: done.
2. `BufferPool`: done, except for the order LRU-K gives to victims.
3. `Tasks`, `DiskScheduler`: done. `SortedKeys` and `OrderedMap`: done, except for proofs.
4. `BPlusTree`: done.
5. `Persistence`: configuration file, `flush_all()`, restart.
6. Proofs, done: the protocol, the main loop's refinement, the pool, the runtime, the scheduler,
   the tree.
7. Proofs, next: of the map, that a rotation keeps the order and the heights of the subtrees it
   turns, and with it `Balanced`.

## Not modelled

Of the tree: `traverse_async`, which prints, and the member `layer`, which is only printed.

Of the pool: which victim LRU-K prefers (any order is allowed, so what is shown holds for
every order), the copying of references, the growth of the file and the list of freed
pages (any page not in use may be created), failed reads and writes (asserted away).

The earlier synchronous tree (`b_plus_tree.hpp`, `persistent_memory.hpp`) is not reached
from `src.cpp`. Of the containers in `stlite/` only the map is modelled; the others are
sequential code whose elements are not linked, and appear as sequences. Of the map, the order
of keys other than integers and the exceptions of misused iterators are left out. Hashing of the index strings is left out: keys are integers.
Exceptions other than the pool's overflow, `std::cin`'s format errors and the debug log are
left out. Of the scheduler the constructor's error exits and short reads and writes, which
callers assert away, are left out; of the runtime `coroutine_traits`, the logs and the moving
and copying of task objects. A crash at an arbitrary point is not an action yet: the code has no recovery from
one, and the plan's `Persistence` will say what is left on the files.
