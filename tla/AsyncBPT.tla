------------------------------- MODULE AsyncBPT -------------------------------
(***************************************************************************)
(* The protocol of AsyncBPlusTree (include/async_bpt.h): requests are      *)
(* buffered in write_map_, lookups merge a snapshot of the buffer with a   *)
(* scan of the tree that suspends on every page, and a flush drains the    *)
(* buffer into the tree once no lookup is in flight.                       *)
(*                                                                         *)
(* Everything runs on one thread.  A step of this module is one coroutine  *)
(* run from a resumption to the next suspension; any coroutine whose page  *)
(* has arrived may be resumed next, so the steps interleave freely.  The   *)
(* tree itself is the set of pairs its leaves hold; its height is 0        *)
(* exactly when there are none.                                            *)
(***************************************************************************)
EXTENDS Integers, FiniteSets

CONSTANTS
  Pairs,            (* the (key, value) pairs requests may name           *)
  val_min, val_max, (* numeric_limits<val_t>::min() and max()             *)
  FLUSH_THRESHOLD,  (* buffered entries that trigger a flush              *)
  Frames,           (* coroutine frames of lookups: bounds those in flight*)
  RangeQueries,     (* <<start, end>> of the range lookups clients make   *)
  FreshInserts,     (* clients insert only pairs the tree does not hold   *)
  SettledLookups,   (* clients insert no pair a lookup in flight covers   *)
  QuietShutdown     (* clients shut down only when no flush is running    *)

ASSUME ConstantsAssumption ==
  /\ Pairs \subseteq Int \X Int /\ IsFiniteSet(Pairs)
  /\ val_min \in Int /\ val_max \in Int
  /\ FLUSH_THRESHOLD \in Nat \ {0}
  /\ IsFiniteSet(Frames)
  /\ RangeQueries \subseteq (Int \X Int) \X (Int \X Int)
  /\ FreshInserts \in BOOLEAN
  /\ SettledLookups \in BOOLEAN
  /\ QuietShutdown \in BOOLEAN

VARIABLES
  write_map,          (* write_map_: the buffered operation on each pair  *)
  known_absent_keys,  (* keys a lookup found without any pair             *)
  tree,               (* the pairs the leaves hold                        *)
  is_during_flush,
  unfinished_count,   (* lookups a flush has to wait for                  *)
  find,               (* one record per lookup coroutine                  *)
  flush               (* one record per flush coroutine                   *)

vars == <<write_map, known_absent_keys, tree, is_during_flush,
          unfinished_count, find, flush>>

Keys == {p[1] : p \in Pairs}

(***************************************************************************)
(* A flush is awaited by the request that reached the threshold (or called *)
(* flush()), or by shutdown(): at most one of each kind at a time.         *)
(***************************************************************************)
Flushers == {"request", "shutdown"}

(* Pair's operator<: keys first, then values. *)
Less(p, q) == p[1] < q[1] \/ (p[1] = q[1] /\ p[2] < q[2])

(* The half-open range [lo, hi) both the buffer and the tree are cut to. *)
InRange(p, lo, hi) == ~Less(p, lo) /\ Less(p, hi)
PairsInRange(lo, hi) == {p \in Pairs : InRange(p, lo, hi)}

NoOps == [p \in Pairs |-> "none"]
Entries(ops) == {p \in Pairs : ops[p] # "none"}
InsertsIn(ops) == {p \in Pairs : ops[p] = "INSERT"}

(* The merge of buffered operations with pairs read from the tree: the     *)
(* buffer wins.                                                            *)
Overlay(ops, S) == {p \in Pairs : ops[p] = "INSERT" \/ (p \in S /\ ops[p] = "none")}

FreeFrame ==
  [pc |-> "free", lo |-> <<0, 0>>, hi |-> <<0, 0>>, ops |-> NoOps,
   unread |-> {}, rows |-> {}]

IdleFlush == [pc |-> "idle", todo |-> {}]

Reading(f) == find[f].pc = "reading"

Init ==
  /\ write_map = NoOps
  /\ known_absent_keys = {}
  /\ tree \in SUBSET Pairs
  /\ is_during_flush = FALSE
  /\ unfinished_count = 0
  /\ find = [f \in Frames |-> FreeFrame]
  /\ flush = [fl \in Flushers |-> IdleFlush]

-------------------------------------------------------------------------------
(***************************************************************************)
(* Flushing.                                                               *)
(***************************************************************************)

(* Where the coroutine that awaited the flush goes on: the request is      *)
(* complete, shutdown() continues with pmem.flush_all().                   *)
AfterFlush(fl) ==
  IF fl = "request" THEN IdleFlush ELSE [IdleFlush EXCEPT !.pc = "syncing"]

(* write_map_.clear() frees the nodes the iterator of any other flush that *)
(* is still in its loop points to.                                         *)
Invalidated(g) ==
  IF flush[g].todo # {} THEN [IdleFlush EXCEPT !.pc = "dangling"] ELSE flush[g]

ClearAndSet(fl, frame) ==
  /\ write_map' = NoOps
  /\ flush' = [g \in Flushers |-> IF g = fl THEN frame ELSE Invalidated(g)]

(* flush() after its wait: nothing to do, a bulk load into a null root, or *)
(* the loop over the buffered operations.  Into an empty tree the entries  *)
(* go without suspending, on new pages in clean slots: by a bulk load,     *)
(* which clears the absent keys too, or by the loop while the root has     *)
(* only ever been read from a fresh file, as page 0.                       *)
RunFlush(fl, wm, ka) ==
  \/ /\ Entries(wm) = {}
     /\ is_during_flush' = FALSE
     /\ flush' = [flush EXCEPT ![fl] = AfterFlush(fl)]
     /\ write_map' = wm /\ known_absent_keys' = ka
     /\ UNCHANGED tree
  \/ /\ Entries(wm) # {} /\ tree = {}
     /\ tree' = InsertsIn(wm)
     /\ known_absent_keys' \in {{}, ka}
     /\ is_during_flush' = FALSE
     /\ ClearAndSet(fl, AfterFlush(fl))
  \/ /\ Entries(wm) # {} /\ tree # {}
     /\ is_during_flush' = TRUE
     /\ flush' = [flush EXCEPT ![fl] = [pc |-> "iterating", todo |-> Entries(wm)]]
     /\ write_map' = wm /\ known_absent_keys' = ka
     /\ UNCHANGED tree

(* Mutant: the flush does not wait for the lookups in flight. *)
StartFlushWithoutWait(fl, wm, ka) == RunFlush(fl, wm, ka)

(* Mutant: the wait suspends even when no lookup is left to end it. *)
StartFlushAlwaysWaiting(fl, wm, ka) ==
  /\ is_during_flush' = TRUE
  /\ flush' = [flush EXCEPT ![fl].pc = "waiting"]
  /\ write_map' = wm /\ known_absent_keys' = ka
  /\ UNCHANGED tree

(* Mutant: the flag is raised after the wait. *)
StartFlushUnflagged(fl, wm, ka) ==
  \/ /\ unfinished_count # 0
     /\ flush' = [flush EXCEPT ![fl].pc = "waiting"]
     /\ write_map' = wm /\ known_absent_keys' = ka
     /\ UNCHANGED <<tree, is_during_flush>>
  \/ /\ unfinished_count = 0
     /\ RunFlush(fl, wm, ka)

(* flush() from its first line: raise the flag, then wait until no lookup  *)
(* is in flight; with none the wait does not suspend.                      *)
StartFlush(fl, wm, ka) ==
  \/ /\ unfinished_count # 0
     /\ is_during_flush' = TRUE
     /\ flush' = [flush EXCEPT ![fl].pc = "waiting"]
     /\ write_map' = wm /\ known_absent_keys' = ka
     /\ UNCHANGED tree
  \/ /\ unfinished_count = 0
     /\ RunFlush(fl, wm, ka)

(* The entry at the iterator, the least one not visited yet: the loop is   *)
(* suspended somewhere inside it.                                          *)
AtIterator(fl, p) ==
  /\ flush[fl].pc = "iterating" /\ p \in flush[fl].todo
  /\ \A q \in flush[fl].todo : q = p \/ Less(p, q)

(* The tree after the operations on the pairs of S that are buffered. *)
Applied(S) == {q \in Pairs : IF q \in S THEN write_map[q] = "INSERT" ELSE q \in tree}

Advance(fl, rest) ==
  /\ flush' = [flush EXCEPT ![fl].todo = rest]
  /\ UNCHANGED <<write_map, known_absent_keys, is_during_flush, unfinished_count, find>>

(* The awaits inside an entry (find_path, the prefetch, the references and *)
(* repairs of handle_operation) are over, and the loop goes on into the    *)
(* next.  Nobody looks at the tree between them unless another flush is in *)
(* its loop.  An entry that empties the tree takes the rest of the batch   *)
(* with it: at height 0 there is no page to wait for, and the new ones are *)
(* in the buffer pool.                                                     *)
FlushApply(fl) ==
  \E p \in flush[fl].todo :
    /\ AtIterator(fl, p)
    /\ \/ /\ Applied({p}) # {}
          /\ tree' = Applied({p})
          /\ Advance(fl, flush[fl].todo \ {p})
       \/ /\ Applied({p}) = {}
          /\ tree' = Applied(flush[fl].todo)
          /\ Advance(fl, {})

(* Two loops at once take turns inside their entries: one descends through *)
(* a split or a merge the other is suspended in, or goes on with a path    *)
(* the other has made stale.  The entry may then be missed, and pairs lost.*)
FlushDisturbed(fl) ==
  \E p \in flush[fl].todo :
    /\ AtIterator(fl, p)
    /\ \E g \in Flushers \ {fl} : flush[g].pc = "iterating"
    /\ tree' \in SUBSET (tree \cup {p})
    /\ Advance(fl, flush[fl].todo \ {p})

(* Mutant: the loop ends without clearing the buffer. *)
FlushFinishUncleared(fl) ==
  /\ flush[fl].pc = "iterating" /\ flush[fl].todo = {}
  /\ is_during_flush' = FALSE
  /\ flush' = [flush EXCEPT ![fl] = AfterFlush(fl)]
  /\ UNCHANGED <<write_map, known_absent_keys, tree, unfinished_count, find>>

(* The loop is over and the last prefetch has been awaited. *)
FlushFinish(fl) ==
  /\ flush[fl].pc = "iterating" /\ flush[fl].todo = {}
  /\ is_during_flush' = FALSE
  /\ ClearAndSet(fl, AfterFlush(fl))
  /\ UNCHANGED <<known_absent_keys, tree, unfinished_count, find>>

(* Resuming with an iterator into freed nodes: the operations applied from *)
(* there on are whatever the memory holds, if the process survives.  The   *)
(* coroutine is not followed further.                                      *)
FlushUndefined(fl) ==
  /\ flush[fl].pc = "dangling"
  /\ flush' = [flush EXCEPT ![fl].pc = "undefined"]
  /\ tree' \in SUBSET Pairs
  /\ UNCHANGED <<write_map, known_absent_keys, is_during_flush,
                 unfinished_count, find>>

-------------------------------------------------------------------------------
(***************************************************************************)
(* Requests.                                                               *)
(***************************************************************************)

(* The end of insert_async and remove_async once an entry is recorded. *)
Record(wm, ka) ==
  \/ /\ Cardinality(Entries(wm)) < FLUSH_THRESHOLD
     /\ write_map' = wm /\ known_absent_keys' = ka
     /\ UNCHANGED <<tree, is_during_flush, flush>>
  \/ /\ Cardinality(Entries(wm)) >= FLUSH_THRESHOLD
     /\ StartFlush("request", wm, ka)

(* Mutant: an insertion leaves its key remembered as absent. *)
InsertLeavingAbsence(p) ==
  /\ Record([write_map EXCEPT ![p] = "INSERT"], known_absent_keys)
  /\ UNCHANGED <<unfinished_count, find>>

InsertAsync(p) ==
  /\ Record([write_map EXCEPT ![p] = "INSERT"], known_absent_keys \ {p[1]})
  /\ UNCHANGED <<unfinished_count, find>>

(* Mutant: a pending DELETE is cancelled too. *)
RemovePendingAny(p) ==
  /\ write_map[p] # "none"
  /\ write_map' = [write_map EXCEPT ![p] = "none"]
  /\ UNCHANGED <<known_absent_keys, tree, is_during_flush, flush>>

(* A pending INSERT is cancelled, a pending DELETE is kept. *)
RemovePending(p) ==
  /\ write_map[p] # "none"
  /\ write_map' = [write_map EXCEPT ![p] = IF @ = "INSERT" THEN "none" ELSE @]
  /\ UNCHANGED <<known_absent_keys, tree, is_during_flush, flush>>

RemoveAbsent(p) ==
  /\ write_map[p] = "none" /\ p[1] \in known_absent_keys
  /\ UNCHANGED <<write_map, known_absent_keys, tree,
                 is_during_flush, flush>>

RemoveRecord(p) ==
  /\ write_map[p] = "none" /\ p[1] \notin known_absent_keys
  /\ Record([write_map EXCEPT ![p] = "DELETE"], known_absent_keys \ {p[1]})

RemoveAsync(p) ==
  /\ RemovePending(p) \/ RemoveAbsent(p) \/ RemoveRecord(p)
  /\ UNCHANGED <<unfinished_count, find>>

(* A client calling flush() itself. *)
FlushAsync ==
  /\ StartFlush("request", write_map, known_absent_keys)
  /\ UNCHANGED <<unfinished_count, find>>

(***************************************************************************)
(* Lookups.  find_range_async counts itself, copies the operations of its  *)
(* range out of the buffer and starts the scan of the tree.                *)
(***************************************************************************)
(* Is the range the one find_all_async asks for? *)
IsFullKeyRange(lo, hi) == lo[1] = hi[1] /\ lo[2] = val_min /\ hi[2] = val_max

AbsentKeysAfter(lo, hi, ops, result) ==
  IF ~IsFullKeyRange(lo, hi) THEN known_absent_keys
  ELSE IF result = {} /\ InsertsIn(ops) = {}
       THEN known_absent_keys \cup {lo[1]}
       ELSE known_absent_keys \ {lo[1]}

Done(lo, hi, result) ==
  [FreeFrame EXCEPT !.pc = "done", !.lo = lo, !.hi = hi, !.rows = result]

(* At height 0 the scan returns without suspending: the lookup is over,    *)
(* and has left the count, before its caller goes on.  It wakes nobody:    *)
(* a flush that waits waits for other lookups.                             *)
FindBegin(f, lo, hi) ==
  /\ find[f].pc = "free"
  /\ LET ops == [p \in Pairs |-> IF InRange(p, lo, hi) THEN write_map[p] ELSE "none"] IN
     \/ /\ tree = {}
        /\ find' = [find EXCEPT ![f] = Done(lo, hi, Overlay(ops, {}))]
        /\ known_absent_keys' = AbsentKeysAfter(lo, hi, ops, Overlay(ops, {}))
        /\ UNCHANGED unfinished_count
     \/ /\ tree # {}
        /\ find' = [find EXCEPT ![f] =
             [pc |-> "reading", lo |-> lo, hi |-> hi, ops |-> ops,
              unread |-> PairsInRange(lo, hi), rows |-> {}]]
        /\ unfinished_count' = unfinished_count + 1
        /\ UNCHANGED known_absent_keys
  /\ UNCHANGED <<write_map, tree, is_during_flush, flush>>

(* The scan of f takes the pairs of a leaf that fall into its range. *)
ReadLeaf(f, leaf) ==
  /\ find' = [find EXCEPT ![f].unread = @ \ leaf,
                          ![f].rows = @ \cup (tree \cap leaf)]
  /\ UNCHANGED <<write_map, known_absent_keys, tree,
                 is_during_flush, flush>>

(* The pairs not read yet up to p. *)
UnreadUpTo(f, p) == {q \in find[f].unread : ~Less(p, q)}

(* Mutant: the scan leaves the count when it ends, and so does its caller. *)
FindReadLeaving(f) ==
  /\ Reading(f) /\ find[f].unread # {}
  /\ ReadLeaf(f, find[f].unread)
  /\ unfinished_count' = unfinished_count - 1

(* Mutant: an exception ends a scan past the code that leaves the count. *)
FindReadThrowing(f) ==
  /\ Reading(f) /\ find[f].unread # {}
  /\ find' = [find EXCEPT ![f] = [FreeFrame EXCEPT !.pc = "done"]]
  /\ UNCHANGED <<write_map, known_absent_keys, tree,
                 is_during_flush, unfinished_count, flush>>

(* Mutant: the scan is not resumed past a leaf with nothing to read. *)
FindReadOfRows(f) ==
  /\ Reading(f)
  /\ \E p \in find[f].unread :
       tree \cap UnreadUpTo(f, p) # {} /\ ReadLeaf(f, UnreadUpTo(f, p))
  /\ UNCHANGED unfinished_count

(* The next leaf has arrived: the leaves are read along the sibling chain, *)
(* so it covers the range up to some pair p.                               *)
FindRead(f) ==
  /\ Reading(f)
  /\ \E p \in find[f].unread : ReadLeaf(f, UnreadUpTo(f, p))
  /\ UNCHANGED unfinished_count

(* The scan is complete: merge, update the absent keys, leave.  The last   *)
(* lookup to leave resumes the waiting flush from inside its decrement.    *)
FindReturn(f) ==
  /\ Reading(f) /\ find[f].unread = {}
  /\ LET result == Overlay(find[f].ops, find[f].rows)
         ka == AbsentKeysAfter(find[f].lo, find[f].hi, find[f].ops, result)
     IN  /\ find' = [find EXCEPT ![f] = Done(find[f].lo, find[f].hi, result)]
         /\ \/ /\ unfinished_count = 1
               /\ \E fl \in Flushers :
                    /\ flush[fl].pc = "waiting"
                    /\ RunFlush(fl, write_map, ka)
            \/ /\ unfinished_count # 1 \/ \A fl \in Flushers : flush[fl].pc # "waiting"
               /\ known_absent_keys' = ka
               /\ UNCHANGED <<write_map, tree, is_during_flush, flush>>
  /\ unfinished_count' = unfinished_count - 1

(* The client takes the result and destroys the frame. *)
Collect(f) ==
  /\ find[f].pc = "done"
  /\ find' = [find EXCEPT ![f] = FreeFrame]
  /\ UNCHANGED <<write_map, known_absent_keys, tree,
                 is_during_flush, unfinished_count, flush>>

-------------------------------------------------------------------------------
(***************************************************************************)
(* Shutting down and opening the files again.                              *)
(***************************************************************************)
Shutdown ==
  /\ flush["shutdown"].pc = "idle"
  /\ StartFlush("shutdown", write_map, known_absent_keys)
  /\ UNCHANGED <<unfinished_count, find>>

(* pmem.flush_all() has written every dirty page. *)
SyncFinish ==
  /\ flush["shutdown"].pc = "syncing"
  /\ flush' = [flush EXCEPT !["shutdown"].pc = "closed"]
  /\ UNCHANGED <<write_map, known_absent_keys, tree,
                 is_during_flush, unfinished_count, find>>

(* A new process on the files of one that shut down, or that died in       *)
(* shutdown(): what it kept in memory is gone.                             *)
Reopen ==
  /\ flush["shutdown"].pc \in {"closed", "undefined"}
  /\ write_map' = NoOps
  /\ known_absent_keys' = {}
  /\ is_during_flush' = FALSE
  /\ unfinished_count' = 0
  /\ find' = [f \in Frames |-> FreeFrame]
  /\ flush' = [fl \in Flushers |-> IdleFlush]
  /\ UNCHANGED tree

-------------------------------------------------------------------------------
(***************************************************************************)
(* The clients: they issue a request only when permit_operation() allows   *)
(* it (the buffer pool's half of that test may fail at any time, so it     *)
(* appears as the client not calling), and keep to the discipline the      *)
(* constants ask for.                                                      *)
(***************************************************************************)
(* Mutant: operations are permitted while a flush is running. *)
PermitDuringFlush == Cardinality(Entries(write_map)) < FLUSH_THRESHOLD

permit_operation ==
  ~is_during_flush /\ Cardinality(Entries(write_map)) < FLUSH_THRESHOLD

Open == flush["shutdown"].pc = "idle"
MayIssue == permit_operation /\ Open

MayInsert(p) ==
  /\ MayIssue
  /\ FreshInserts => p \notin tree
  /\ SettledLookups =>
       \A f \in Frames : Reading(f) => ~InRange(p, find[f].lo, find[f].hi)

MayShutdown ==
  /\ \A f \in Frames : ~Reading(f)
  /\ QuietShutdown => ~is_during_flush

Queries == RangeQueries \cup {<< <<k, val_min>>, <<k, val_max>> >> : k \in Keys}

FlushStep(fl) == FlushApply(fl) \/ FlushDisturbed(fl) \/ FlushFinish(fl) \/ FlushUndefined(fl)
FindStep(f) == FindRead(f) \/ FindReturn(f)

Next ==
  \/ \E p \in Pairs : MayInsert(p) /\ InsertAsync(p)
  \/ \E p \in Pairs : MayIssue /\ RemoveAsync(p)
  \/ MayIssue /\ FlushAsync
  \/ \E f \in Frames, q \in Queries : MayIssue /\ FindBegin(f, q[1], q[2])
  \/ \E f \in Frames : FindStep(f) \/ Collect(f)
  \/ \E fl \in Flushers : FlushStep(fl)
  \/ MayShutdown /\ Shutdown
  \/ SyncFinish
  \/ Reopen

Spec == Init /\ [][Next]_vars

(* The main loop polls on until everything in flight has completed, so a   *)
(* coroutine whose page has arrived is resumed; clients owe nothing.       *)
Fairness ==
  /\ \A f \in Frames : WF_vars(FindStep(f))
  /\ \A fl \in Flushers : WF_vars(FlushStep(fl))
  /\ WF_vars(SyncFinish)

FairSpec == Spec /\ Fairness

-------------------------------------------------------------------------------
(***************************************************************************)
(* Correctness.                                                            *)
(***************************************************************************)

(* The set a client sees: the buffer over the tree. *)
Content == Overlay(write_map, tree)

(* What lookup f returns, or will return if the tree stays as it is. *)
Answer(f) ==
  IF Reading(f)
  THEN Overlay(find[f].ops, find[f].rows \cup (tree \cap find[f].unread))
  ELSE find[f].rows

Op == {"none", "INSERT", "DELETE"}
FramePC == {"free", "reading", "done"}
FlushPC == {"idle", "waiting", "iterating", "dangling", "undefined", "syncing", "closed"}

Frame == [pc : FramePC, lo : Int \X Int, hi : Int \X Int, ops : [Pairs -> Op],
          unread : SUBSET Pairs, rows : SUBSET Pairs]

(* Every variable keeps the shape of the field it stands for. *)
TypeOK ==
  /\ write_map \in [Pairs -> Op]
  /\ known_absent_keys \in SUBSET Int
  /\ tree \in SUBSET Pairs
  /\ is_during_flush \in BOOLEAN
  /\ unfinished_count \in Nat
  /\ find \in [Frames -> Frame]
  /\ flush \in [Flushers -> [pc : FlushPC, todo : SUBSET Pairs]]

(* The counter a flush waits on is exactly the number of lookups in        *)
(* flight, through every order in which they suspend and return.           *)
CountExact == unfinished_count = Cardinality({f \in Frames : Reading(f)})

InTree(fl) == flush[fl].pc = "iterating"

(* While a flush works on the tree no lookup is in flight                  *)
(* (co_await unfinished_count, async_bpt.h:449), so none sees a tree half  *)
(* flushed or reads on from a leaf a flush has moved.                      *)
FlushExcludesLookups ==
  \A fl \in Flushers, f \in Frames : InTree(fl) => ~Reading(f)

(* A waiting flush is never stranded: some lookup is still in flight, and  *)
(* the last one to return will resume it.                                  *)
WaitingFlushHasWaker ==
  \A fl \in Flushers : flush[fl].pc = "waiting" => \E f \in Frames : Reading(f)

(* Only a flush in its loop has entries to visit. *)
RecordsMatchPhase ==
  \A fl \in Flushers : flush[fl].todo # {} => flush[fl].pc = "iterating"

(* shutdown() begins when no lookup is in flight, and none begins later.   *)
ShutdownComesLast ==
  /\ ~Open => \A f \in Frames : ~Reading(f)
  /\ flush["shutdown"].pc # "waiting"

(* A request's flush that is not over keeps requests out; one that has     *)
(* lost its buffer has lost it to shutdown().                              *)
RequestFlushGuarded ==
  /\ flush["request"].pc \in {"waiting", "iterating"} => is_during_flush \/ ~Open
  /\ flush["request"].pc \in {"dangling", "undefined"} => ~Open
  /\ flush["request"].pc \notin {"syncing", "closed"}

(* The inductive invariant behind FlushExcludesLookups, for clients that   *)
(* keep no discipline at all.                                              *)
ExclusionInv ==
  /\ RecordsMatchPhase
  /\ ShutdownComesLast
  /\ RequestFlushGuarded
  /\ FlushExcludesLookups
  /\ WaitingFlushHasWaker

(* shutdown() has not begun while the flush of a request was running, or   *)
(* that flush is over and neither has freed the other's iterator.          *)
Undisturbed ==
  \/ Open
  \/ flush["request"].pc = "idle" /\ flush["shutdown"].pc \notin {"dangling", "undefined"}

(* permit_operation() is closed exactly while a flush is between its first *)
(* line and its last, until shutdown() begins and nobody asks any more.    *)
FlagMeansFlushing ==
  Open =>
    (is_during_flush <=>
       \E fl \in Flushers : flush[fl].pc \in {"waiting", "iterating"})

(* The set clients see changes only by their own requests: an insertion    *)
(* adds its pair, a removal takes away no other pair, and a flush, a       *)
(* lookup, a shutdown between flushes or a restart of the program changes  *)
(* nothing.                                                                *)
ContentChangesByRequest ==
  [][ \/ ~Undisturbed
      \/ Content' = Content
      \/ \E p \in Pairs : InsertAsync(p) /\ Content' = Content \cup {p}
      \/ \E p \in Pairs : RemoveAsync(p) /\ Content' = Content \ {p} ]_vars

(* What a step may do to the answer of lookup f: fix it when f is issued,  *)
(* and keep it from then on.                                               *)
AnswerAsOfIssue(f) ==
  /\ find[f].pc = "free" /\ find'[f].pc # "free" =>
       Answer(f)' = {p \in Content : InRange(p, find'[f].lo, find'[f].hi)}
  /\ find[f].pc # "free" /\ find'[f].pc # "free" => Answer(f)' = Answer(f)

(* A lookup answers with the set as it stood when it was issued, whatever  *)
(* is inserted, removed or flushed before its scan ends                    *)
(* (the snapshot of find_range_async, async_bpt.h:290-300).                *)
AnswersAsOfIssue == [][\A f \in Frames : AnswerAsOfIssue(f)]_vars

(* No other flush is in its loop. *)
AloneInLoop(fl) == \A g \in Flushers \ {fl} : flush[g].pc # "iterating"

(* A flush leaves nothing of its batch behind: the entries its loop has    *)
(* passed agree with the tree, unless two loops disturb each other.        *)
PassedEntriesApplied ==
  \A fl \in Flushers : flush[fl].pc = "iterating" /\ AloneInLoop(fl) =>
    \A p \in Entries(write_map) \ flush[fl].todo :
      p \in tree <=> write_map[p] = "INSERT"

(* flush() goes on past its wait because "All other operations finished."  *)
(* (async_bpt.h:452), and in the end clears the buffer: no request may be  *)
(* suspended in a flush then, with an iterator into it.                    *)
RequestKeepsIterator == flush["request"].pc # "dangling"

(* remove_async drops a removal when its key is remembered as absent: no   *)
(* pair of such a key may be in the set.                                   *)
AbsentKeysAreAbsent == \A p \in Content : p[1] \notin known_absent_keys

(* remove_async cancels a pending INSERT by forgetting it: the tree may    *)
(* not hold the pair of one that no flush has passed yet.                  *)
PendingInsertIsNew ==
  \A p \in InsertsIn(write_map) :
    p \in tree => \E fl \in Flushers : flush[fl].pc = "iterating" /\ p \notin flush[fl].todo

(* Every flush completes: permit_operation() opens again, and a shutdown   *)
(* that has begun ends.                                                    *)
FlushesComplete ==
  /\ is_during_flush ~> ~is_during_flush
  /\ flush["shutdown"].pc # "idle" ~> flush["shutdown"].pc = "closed"
===============================================================================
