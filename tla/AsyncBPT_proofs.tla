--------------------------- MODULE AsyncBPT_proofs ---------------------------
(***************************************************************************)
(* Theorems about AsyncBPT, for every set of pairs, threshold and number   *)
(* of lookups in flight.                                                   *)
(***************************************************************************)
EXTENDS AsyncBPT, FiniteSetTheorems, TLAPS

Readers == {f \in Frames : Reading(f)}

(***************************************************************************)
(* Types, and the counter the flush waits on.  They are proved together:   *)
(* that the counter stays a natural number needs that it counts frames.    *)
(***************************************************************************)
TypeInv == TypeOK /\ CountExact

(* The lookups in flight are a finite set, whose size the counter is. *)
LEMMA ReadersFinite ==
  /\ IsFiniteSet(Readers)
  /\ Cardinality(Readers) \in Nat
BY ConstantsAssumption, FS_Subset, FS_CardinalityType DEF Readers

(* The constant frames and operators the actions assign are well typed. *)
LEMMA FrameTypes ==
  /\ NoOps \in [Pairs -> Op]
  /\ FreeFrame \in Frame
  /\ IdleFlush \in [pc : FlushPC, todo : SUBSET Pairs]
<1>1. NoOps \in [Pairs -> Op]
  BY DEF NoOps, Op
<1>2. <<0, 0>> \in Int \X Int
  OBVIOUS
<1>3. FreeFrame \in Frame
  BY <1>1, <1>2 DEF FreeFrame, Frame, FramePC
<1>4. QED
  BY <1>1, <1>3 DEF IdleFlush, FlushPC

FlushVarsOK ==
  /\ write_map \in [Pairs -> Op]
  /\ known_absent_keys \in SUBSET Int
  /\ tree \in SUBSET Pairs
  /\ is_during_flush \in BOOLEAN
  /\ flush \in [Flushers -> [pc : FlushPC, todo : SUBSET Pairs]]

(* Clearing the buffer leaves well-typed flush records. *)
LEMMA ClearAndSetType ==
  ASSUME FlushVarsOK, NEW fl \in Flushers,
         NEW r \in [pc : FlushPC, todo : SUBSET Pairs],
         ClearAndSet(fl, r)
  PROVE  /\ write_map' \in [Pairs -> Op]
         /\ flush' \in [Flushers -> [pc : FlushPC, todo : SUBSET Pairs]]
<1>1. \A g \in Flushers :
        Invalidated(g) \in [pc : FlushPC, todo : SUBSET Pairs]
  BY FrameTypes DEF Invalidated, FlushVarsOK, IdleFlush, FlushPC
<1>2. QED
  BY <1>1, FrameTypes DEF ClearAndSet

(* A flush that starts or is resumed keeps every type. *)
LEMMA RunFlushType ==
  ASSUME FlushVarsOK, NEW fl \in Flushers, NEW wm \in [Pairs -> Op],
         NEW ka \in SUBSET Int, RunFlush(fl, wm, ka)
  PROVE  FlushVarsOK'
<1>1. AfterFlush(fl) \in [pc : FlushPC, todo : SUBSET Pairs]
  BY FrameTypes DEF AfterFlush, IdleFlush, FlushPC
<1>2. CASE Entries(wm) = {} /\ UNCHANGED tree /\ is_during_flush' = FALSE
           /\ flush' = [flush EXCEPT ![fl] = AfterFlush(fl)]
           /\ write_map' = wm /\ known_absent_keys' = ka
  BY <1>1, <1>2 DEF FlushVarsOK
<1>3. CASE /\ known_absent_keys' \in {{}, ka} /\ is_during_flush' = FALSE
           /\ tree' = InsertsIn(wm) /\ ClearAndSet(fl, AfterFlush(fl))
  BY <1>1, <1>3, ClearAndSetType DEF FlushVarsOK, InsertsIn
<1>4. CASE is_during_flush' = TRUE /\ UNCHANGED tree
           /\ flush' = [flush EXCEPT ![fl] =
                          [pc |-> "iterating", todo |-> Entries(wm)]]
           /\ write_map' = wm /\ known_absent_keys' = ka
  BY <1>4 DEF FlushVarsOK, Entries, FlushPC
<1>5. QED
  BY <1>2, <1>3, <1>4 DEF RunFlush

(* What remembering or forgetting an absent key makes of the set of them. *)
LEMMA AbsentKeysType ==
  ASSUME known_absent_keys \in SUBSET Int, NEW lo \in Int \X Int, NEW hi, NEW ops, NEW result
  PROVE  AbsentKeysAfter(lo, hi, ops, result) \in SUBSET Int
BY DEF AbsentKeysAfter

LEMMA StartFlushType ==
  ASSUME FlushVarsOK, NEW fl \in Flushers, NEW wm \in [Pairs -> Op],
         NEW ka \in SUBSET Int, StartFlush(fl, wm, ka)
  PROVE  FlushVarsOK'
<1>1. CASE is_during_flush' = TRUE /\ flush' = [flush EXCEPT ![fl].pc = "waiting"]
           /\ write_map' = wm /\ known_absent_keys' = ka /\ UNCHANGED tree
  BY <1>1 DEF FlushVarsOK, FlushPC
<1>2. CASE RunFlush(fl, wm, ka)
  BY <1>2, RunFlushType
<1>3. QED
  BY <1>1, <1>2 DEF StartFlush

(* An entry of a flush's loop is over, or the rest of its batch is: the    *)
(* loop has less to visit, and only the tree may have changed with it.     *)
LEMMA FlushGoesOn ==
  ASSUME NEW fl \in Flushers, tree \in SUBSET Pairs, flush[fl].todo \in SUBSET Pairs,
         FlushApply(fl) \/ FlushDisturbed(fl)
  PROVE  /\ flush[fl].pc = "iterating"
         /\ tree' \in SUBSET Pairs
         /\ \E rest \in SUBSET flush[fl].todo : flush' = [flush EXCEPT ![fl].todo = rest]
         /\ UNCHANGED <<write_map, known_absent_keys, is_during_flush, unfinished_count, find>>
<1>1. ASSUME NEW p \in flush[fl].todo
      PROVE  Applied({p}) \in SUBSET Pairs /\ Applied(flush[fl].todo) \in SUBSET Pairs
             /\ tree \cup {p} \in SUBSET Pairs
  BY DEF Applied
<1>2. QED
  BY <1>1 DEF FlushApply, FlushDisturbed, AtIterator, Advance

LEMMA RecordType ==
  ASSUME FlushVarsOK, NEW wm \in [Pairs -> Op], NEW ka \in SUBSET Int, Record(wm, ka)
  PROVE  FlushVarsOK'
<1>1. CASE StartFlush("request", wm, ka)
  BY <1>1, StartFlushType DEF Flushers
<1>2. CASE write_map' = wm /\ known_absent_keys' = ka
           /\ UNCHANGED <<tree, is_during_flush, flush>>
  BY <1>2 DEF FlushVarsOK
<1>3. QED
  BY <1>1, <1>2 DEF Record

(* A lookup that enters, and one that leaves, move the counter with the    *)
(* set of readers.                                                         *)
LEMMA ReaderEnters ==
  ASSUME TypeInv, NEW f \in Frames, ~Reading(f),
         Readers' = Readers \cup {f}, unfinished_count' = unfinished_count + 1
  PROVE  unfinished_count' \in Nat /\ CountExact'
<1>1. Cardinality(Readers \cup {f}) = Cardinality(Readers) + 1
  BY ReadersFinite, FS_AddElement DEF Readers
<1>2. Cardinality(Readers') = unfinished_count'
  BY <1>1 DEF TypeInv, CountExact, Readers
<1>3. QED
  BY <1>2 DEF TypeInv, TypeOK, CountExact, Readers

LEMMA ReaderLeaves ==
  ASSUME TypeInv, NEW f \in Frames, Reading(f),
         Readers' = Readers \ {f}, unfinished_count' = unfinished_count - 1
  PROVE  unfinished_count' \in Nat /\ CountExact'
<1>1. f \in Readers
  BY DEF Readers
<1>2. Cardinality(Readers \ {f}) = Cardinality(Readers) - 1
  BY <1>1, ReadersFinite, FS_RemoveElement
<1>3. Cardinality(Readers \ {f}) \in Nat
  BY ReadersFinite, FS_RemoveElement, FS_CardinalityType
<1>4. Cardinality(Readers') = unfinished_count'
  BY <1>2 DEF TypeInv, CountExact, Readers
<1>5. unfinished_count' \in Nat
  BY <1>2, <1>3 DEF TypeInv, CountExact, Readers
<1>6. QED
  BY <1>4, <1>5 DEF CountExact, Readers

LEMMA ReadersStay ==
  ASSUME TypeInv, Readers' = Readers, unfinished_count' = unfinished_count
  PROVE  unfinished_count' \in Nat /\ CountExact'
BY DEF TypeInv, TypeOK, CountExact, Readers

(* The parts of TypeInv' an action establishes one by one. *)
LEMMA TypeInvParts ==
  ASSUME FlushVarsOK', find' \in [Frames -> Frame], unfinished_count' \in Nat, CountExact'
  PROVE  TypeInv'
BY DEF TypeInv, TypeOK, FlushVarsOK

LEMMA TypeInit == Init => TypeInv
<1> SUFFICES ASSUME Init PROVE TypeInv
  OBVIOUS
<1>1. TypeOK
  <2>1. {} \in SUBSET Int
    OBVIOUS
  <2>2. QED
    BY <2>1, FrameTypes DEF Init, TypeOK
<1>2. Readers = {}
  BY DEF Init, Readers, Reading, FreeFrame
<1>3. CountExact
  BY <1>2, FS_EmptySet DEF Init, CountExact, Readers
<1>4. QED
  BY <1>1, <1>3 DEF TypeInv

LEMMA TypeStep == TypeInv /\ [Next]_vars => TypeInv'
<1> SUFFICES ASSUME TypeInv, [Next]_vars PROVE TypeInv'
  OBVIOUS
<1>0. /\ FlushVarsOK
      /\ find \in [Frames -> Frame]
      /\ unfinished_count \in Nat
      /\ CountExact
  BY DEF TypeInv, TypeOK, FlushVarsOK
<1>a. ASSUME find' = find, unfinished_count' = unfinished_count, FlushVarsOK'
      PROVE  TypeInv'
  <2>1. Readers' = Readers
    BY <1>a DEF Readers, Reading
  <2>2. QED
    BY <1>0, <1>a, <2>1, ReadersStay, TypeInvParts
<1>1. ASSUME NEW p \in Pairs, InsertAsync(p)
      PROVE  TypeInv'
  <2>1. [write_map EXCEPT ![p] = "INSERT"] \in [Pairs -> Op]
    BY <1>0 DEF FlushVarsOK, Op
  <2>2. known_absent_keys \ {p[1]} \in SUBSET Int
    BY <1>0 DEF FlushVarsOK
  <2>3. QED
    BY <1>0, <1>1, <1>a, <2>1, <2>2, RecordType DEF InsertAsync
<1>2. ASSUME NEW p \in Pairs, RemoveAsync(p)
      PROVE  TypeInv'
  <2>1. CASE RemovePending(p)
    <3>1. [write_map EXCEPT ![p] = IF @ = "INSERT" THEN "none" ELSE @] \in [Pairs -> Op]
      BY <1>0 DEF FlushVarsOK, Op
    <3>2. FlushVarsOK'
      BY <1>0, <2>1, <3>1 DEF RemovePending, FlushVarsOK
    <3>3. QED
      BY <1>2, <1>a, <3>2 DEF RemoveAsync
  <2>2. CASE RemoveAbsent(p)
    BY <1>0, <1>2, <1>a, <2>2 DEF RemoveAsync, RemoveAbsent, FlushVarsOK
  <2>3. CASE RemoveRecord(p)
    <3>1. [write_map EXCEPT ![p] = "DELETE"] \in [Pairs -> Op]
      BY <1>0 DEF FlushVarsOK, Op
    <3>2. known_absent_keys \ {p[1]} \in SUBSET Int
      BY <1>0 DEF FlushVarsOK
    <3>3. FlushVarsOK'
      BY <1>0, <2>3, <3>1, <3>2, RecordType DEF RemoveRecord
    <3>4. QED
      BY <1>2, <1>a, <3>3 DEF RemoveAsync
  <2>4. QED
    BY <1>2, <2>1, <2>2, <2>3 DEF RemoveAsync
<1>3. CASE FlushAsync
  BY <1>0, <1>3, <1>a, StartFlushType DEF FlushAsync, Flushers, FlushVarsOK
<1>4. ASSUME NEW f \in Frames, NEW q \in Queries, FindBegin(f, q[1], q[2])
      PROVE  TypeInv'
  <2>1. q[1] \in Int \X Int /\ q[2] \in Int \X Int
    BY ConstantsAssumption DEF Queries, Keys
  <2> DEFINE ops == [p \in Pairs |-> IF InRange(p, q[1], q[2]) THEN write_map[p] ELSE "none"]
             new == [pc |-> "reading", lo |-> q[1], hi |-> q[2], ops |-> ops,
                     unread |-> PairsInRange(q[1], q[2]), rows |-> {}]
             done == Done(q[1], q[2], Overlay(ops, {}))
  <2>2. ops \in [Pairs -> Op]
    BY <1>0 DEF FlushVarsOK, Op
  <2>3. PairsInRange(q[1], q[2]) \in SUBSET Pairs
    BY DEF PairsInRange
  <2>4. ~Reading(f)
    BY <1>4 DEF FindBegin, Reading
  <2>5. CASE find' = [find EXCEPT ![f] = new] /\ unfinished_count' = unfinished_count + 1
             /\ UNCHANGED known_absent_keys
    <3>1. new \in Frame
      BY <2>1, <2>2, <2>3 DEF Frame, FramePC
    <3>2. find' \in [Frames -> Frame]
      BY <1>0, <2>5, <3>1
    <3>3. Readers' = Readers \cup {f}
      BY <1>0, <2>5 DEF Readers, Reading
    <3>4. FlushVarsOK'
      BY <1>0, <1>4, <2>5 DEF FindBegin, FlushVarsOK
    <3>5. QED
      BY <2>4, <2>5, <3>2, <3>3, <3>4, ReaderEnters, TypeInvParts
  <2>6. CASE find' = [find EXCEPT ![f] = done] /\ UNCHANGED unfinished_count
             /\ known_absent_keys' = AbsentKeysAfter(q[1], q[2], ops, Overlay(ops, {}))
    <3>1. done \in Frame
      BY <2>1, FrameTypes DEF Frame, FramePC, Overlay, Done
    <3>2. find' \in [Frames -> Frame]
      BY <1>0, <2>6, <3>1
    <3>3. done.pc = "done"
      BY DEF Done, FreeFrame
    <3>4. Readers' = Readers
      BY <1>0, <2>4, <2>6, <3>3 DEF Readers, Reading
    <3>5. known_absent_keys' \in SUBSET Int
      BY <1>0, <2>1, <2>6, AbsentKeysType DEF FlushVarsOK
    <3>6. FlushVarsOK'
      BY <1>0, <1>4, <3>5 DEF FindBegin, FlushVarsOK
    <3>7. QED
      BY <2>6, <3>2, <3>4, <3>6, ReadersStay, TypeInvParts
  <2>7. QED
    BY <1>4, <2>5, <2>6 DEF FindBegin
<1>5. ASSUME NEW f \in Frames, FindRead(f)
      PROVE  TypeInv'
  <2>1. PICK leaf \in SUBSET Pairs :
          find' = [find EXCEPT ![f].unread = @ \ leaf, ![f].rows = @ \cup (tree \cap leaf)]
    <3>1. \A p \in find[f].unread : UnreadUpTo(f, p) \in SUBSET Pairs
      BY <1>0 DEF Frame, UnreadUpTo
    <3>2. QED
      BY <1>5, <3>1 DEF FindRead, ReadLeaf
  <2> DEFINE new == [find[f] EXCEPT !.unread = @ \ leaf, !.rows = @ \cup (tree \cap leaf)]
  <2>2. new \in Frame
    <3>1. find[f] \in Frame
      BY <1>0
    <3>2. QED
      BY <3>1 DEF Frame
  <2>3. find' \in [Frames -> Frame]
    <3>1. find' = [find EXCEPT ![f] = new]
      BY <1>0, <2>1
    <3>2. QED
      BY <1>0, <2>2, <3>1
  <2>4. Readers' = Readers
    BY <1>0, <2>1 DEF Readers, Reading
  <2>5. FlushVarsOK' /\ unfinished_count' = unfinished_count
    BY <1>0, <1>5 DEF FindRead, ReadLeaf, FlushVarsOK
  <2>6. QED
    BY <2>3, <2>4, <2>5, ReadersStay, TypeInvParts
<1>6. ASSUME NEW f \in Frames, FindReturn(f)
      PROVE  TypeInv'
  <2> DEFINE result == Overlay(find[f].ops, find[f].rows)
             ka == AbsentKeysAfter(find[f].lo, find[f].hi, find[f].ops, result)
             done == Done(find[f].lo, find[f].hi, result)
  <2>0. find[f].lo \in Int \X Int /\ find[f].hi \in Int \X Int
    BY <1>0 DEF Frame
  <2>1. done \in Frame
    BY <2>0, FrameTypes DEF Frame, FramePC, Overlay, Done
  <2>2. ka \in SUBSET Int
    BY <1>0, <2>0, AbsentKeysType DEF FlushVarsOK
  <2>3. find' = [find EXCEPT ![f] = done] /\ unfinished_count' = unfinished_count - 1
    BY <1>6 DEF FindReturn
  <2>4. find' \in [Frames -> Frame]
    BY <1>0, <2>1, <2>3
  <2>5. Reading(f)
    BY <1>6 DEF FindReturn
  <2>6. done.pc = "done"
    BY DEF Done, FreeFrame
  <2>7. Readers' = Readers \ {f}
    BY <1>0, <2>3, <2>6 DEF Readers, Reading
  <2>8. FlushVarsOK'
    <3>1. CASE \E fl \in Flushers : RunFlush(fl, write_map, ka)
      <4>1. write_map \in [Pairs -> Op]
        BY <1>0 DEF FlushVarsOK
      <4>2. QED
        BY <1>0, <2>2, <3>1, <4>1, RunFlushType
    <3>2. CASE known_absent_keys' = ka
               /\ UNCHANGED <<write_map, tree, is_during_flush, flush>>
      BY <1>0, <2>2, <3>2 DEF FlushVarsOK
    <3>3. QED
      BY <1>6, <3>1, <3>2 DEF FindReturn
  <2>9. QED
    BY <2>3, <2>4, <2>5, <2>7, <2>8, ReaderLeaves, TypeInvParts
<1>7. ASSUME NEW f \in Frames, Collect(f)
      PROVE  TypeInv'
  <2>1. find' = [find EXCEPT ![f] = FreeFrame] /\ ~Reading(f)
    BY <1>7 DEF Collect, Reading
  <2>2. FreeFrame.pc = "free"
    BY DEF FreeFrame
  <2>3. Readers' = Readers
    BY <1>0, <2>1, <2>2 DEF Readers, Reading
  <2>4. find' \in [Frames -> Frame]
    BY <1>0, <2>1, FrameTypes
  <2>5. FlushVarsOK' /\ unfinished_count' = unfinished_count
    BY <1>0, <1>7 DEF Collect, FlushVarsOK
  <2>6. QED
    BY <2>3, <2>4, <2>5, ReadersStay, TypeInvParts
<1>8. ASSUME NEW fl \in Flushers, FlushStep(fl)
      PROVE  TypeInv'
  <2>0. AfterFlush(fl) \in [pc : FlushPC, todo : SUBSET Pairs]
    BY FrameTypes DEF AfterFlush, IdleFlush, FlushPC
  <2>1. CASE FlushApply(fl) \/ FlushDisturbed(fl)
    <3>1. PICK rest \in SUBSET flush[fl].todo :
            /\ tree' \in SUBSET Pairs /\ flush' = [flush EXCEPT ![fl].todo = rest]
            /\ UNCHANGED <<write_map, known_absent_keys, is_during_flush>>
      BY <1>0, <2>1, FlushGoesOn DEF FlushVarsOK
    <3>2. rest \in SUBSET Pairs
      BY <1>0 DEF FlushVarsOK
    <3>3. FlushVarsOK'
      BY <1>0, <3>1, <3>2 DEF FlushVarsOK
    <3>4. find' = find /\ unfinished_count' = unfinished_count
      BY <1>0, <2>1, FlushGoesOn DEF FlushVarsOK
    <3>5. QED
      BY <1>a, <3>3, <3>4
  <2>2. CASE FlushFinish(fl)
    BY <1>0, <1>a, <2>0, <2>2, ClearAndSetType DEF FlushFinish, FlushVarsOK
  <2>4. CASE FlushUndefined(fl)
    <3>1. tree' \in SUBSET Pairs
      BY <2>4 DEF FlushUndefined
    <3>2. flush' \in [Flushers -> [pc : FlushPC, todo : SUBSET Pairs]]
      BY <1>0, <2>4 DEF FlushUndefined, FlushVarsOK, FlushPC
    <3>3. FlushVarsOK'
      BY <1>0, <2>4, <3>1, <3>2 DEF FlushUndefined, FlushVarsOK
    <3>4. QED
      BY <1>a, <2>4, <3>3 DEF FlushUndefined
  <2>5. QED
    BY <1>8, <2>1, <2>2, <2>4 DEF FlushStep
<1>9. CASE Shutdown
  BY <1>0, <1>9, <1>a, StartFlushType DEF Shutdown, Flushers, FlushVarsOK
<1>10. CASE SyncFinish
  BY <1>0, <1>10, <1>a DEF SyncFinish, FlushVarsOK, FlushPC
<1>11. CASE Reopen
  <2>1. find' = [f \in Frames |-> FreeFrame] /\ unfinished_count' = 0
    BY <1>11 DEF Reopen
  <2>2. Readers' = {}
    BY <2>1 DEF Readers, Reading, FreeFrame
  <2>3. CountExact'
    BY <2>1, <2>2, FS_EmptySet DEF CountExact, Readers
  <2>4. find' \in [Frames -> Frame] /\ unfinished_count' \in Nat
    BY <2>1, FrameTypes
  <2>5. FlushVarsOK'
    BY <1>0, <1>11, FrameTypes DEF Reopen, FlushVarsOK
  <2>6. QED
    BY <2>3, <2>4, <2>5, TypeInvParts
<1>12. CASE UNCHANGED vars
  BY <1>0, <1>12, <1>a DEF vars, FlushVarsOK
<1>13. QED
  BY <1>1, <1>2, <1>3, <1>4, <1>5, <1>6, <1>7, <1>8, <1>9, <1>10, <1>11, <1>12
     DEF Next, FindStep

(* Every reachable state is well typed. *)
THEOREM TypeCorrect == Spec => []TypeOK
<1>1. TypeInv => TypeOK
  BY DEF TypeInv
<1>2. QED
  BY <1>1, TypeInit, TypeStep, PTL DEF Spec

(* The counter a flush waits on is the number of lookups in flight. *)
THEOREM CounterCorrect == Spec => []CountExact
<1>1. TypeInv => CountExact
  BY DEF TypeInv
<1>2. QED
  BY <1>1, TypeInit, TypeStep, PTL DEF Spec

-------------------------------------------------------------------------------
(***************************************************************************)
(* Flushes and lookups exclude each other.                                 *)
(***************************************************************************)

(* What a flush that starts or is resumed does to the flush records: its   *)
(* own ends or works on the tree under the flag, another one is left       *)
(* alone or has its iterator freed.                                        *)
LEMMA RunFlushShape ==
  ASSUME TypeOK, NEW fl \in Flushers, NEW wm \in [Pairs -> Op], NEW ka, RunFlush(fl, wm, ka)
  PROVE  /\ \/ flush'[fl] = AfterFlush(fl) /\ is_during_flush' = FALSE
            \/ flush'[fl].pc = "iterating" /\ is_during_flush' = TRUE
         /\ \A g \in Flushers \ {fl} :
              \/ flush'[g] = flush[g]
              \/ flush[g].todo # {} /\ flush'[g] = [pc |-> "dangling", todo |-> {}]
<1>1. \A g \in Flushers :
        \/ Invalidated(g) = flush[g]
        \/ flush[g].todo # {} /\ Invalidated(g) = [pc |-> "dangling", todo |-> {}]
  BY DEF Invalidated, IdleFlush
<1>2. CASE flush' = [flush EXCEPT ![fl] = AfterFlush(fl)] /\ is_during_flush' = FALSE
  BY <1>2 DEF TypeOK
<1>3. CASE ClearAndSet(fl, AfterFlush(fl)) /\ is_during_flush' = FALSE
  BY <1>1, <1>3 DEF ClearAndSet
<1>5. CASE /\ flush' = [flush EXCEPT ![fl] =
                         [pc |-> "iterating", todo |-> Entries(wm)]]
           /\ is_during_flush' = TRUE
  BY <1>5 DEF TypeOK
<1>6. QED
  BY <1>2, <1>3, <1>5 DEF RunFlush

(* The same with the wait in front. *)
LEMMA StartFlushShape ==
  ASSUME TypeInv, NEW fl \in Flushers, NEW wm \in [Pairs -> Op], NEW ka, StartFlush(fl, wm, ka)
  PROVE  \/ /\ unfinished_count # 0
            /\ flush' = [flush EXCEPT ![fl] = [@ EXCEPT !.pc = "waiting"]]
            /\ is_during_flush' = TRUE
         \/ unfinished_count = 0 /\ RunFlush(fl, wm, ka)
BY DEF StartFlush, TypeInv, TypeOK

(* The counter is zero exactly when no lookup is in flight. *)
LEMMA CounterZero ==
  ASSUME TypeInv
  PROVE  unfinished_count = 0 <=> \A f \in Frames : ~Reading(f)
BY ReadersFinite, FS_EmptySet DEF TypeInv, CountExact, Readers

(* The last lookup to return is the only one in flight. *)
LEMMA LastReader ==
  ASSUME TypeInv, NEW f \in Frames, Reading(f)
  PROVE  unfinished_count = 1 <=> \A g \in Frames : Reading(g) => g = f
<1>1. f \in Readers
  BY DEF Readers
<1>2. Cardinality(Readers \ {f}) = Cardinality(Readers) - 1 /\ IsFiniteSet(Readers \ {f})
  BY <1>1, ReadersFinite, FS_RemoveElement
<1>3. unfinished_count = Cardinality(Readers)
  BY DEF TypeInv, CountExact, Readers
<1>4. unfinished_count = 1 <=> Readers \ {f} = {}
  BY <1>2, <1>3, FS_EmptySet, ReadersFinite
<1>5. QED
  BY <1>4 DEF Readers

(* A request's flush may start: requests are open and nothing is flushing. *)
LEMMA RequestFlushStarts ==
  ASSUME TypeInv, ExclusionInv, MayIssue, find' = find,
         NEW wm \in [Pairs -> Op], NEW ka, StartFlush("request", wm, ka)
  PROVE  ExclusionInv'
<1>1. /\ flush["shutdown"].pc = "idle" /\ ~is_during_flush
      /\ flush["request"].pc = "idle"
  BY DEF MayIssue, permit_operation, Open, ExclusionInv, RequestFlushGuarded,
         TypeInv, TypeOK, FlushPC, Flushers
<1>2. flush["request"].todo = {} /\ flush["shutdown"].todo = {}
  BY <1>1 DEF ExclusionInv, RecordsMatchPhase, Flushers
<1>3. \A f \in Frames : Reading(f)' = Reading(f)
  BY DEF Reading
<1>4. CASE /\ unfinished_count # 0 /\ is_during_flush' = TRUE
           /\ flush' = [flush EXCEPT !["request"] = [@ EXCEPT !.pc = "waiting"]]
  <2>1. /\ flush'["request"] = [flush["request"] EXCEPT !.pc = "waiting"]
        /\ flush'["shutdown"] = flush["shutdown"]
    BY <1>4 DEF TypeInv, TypeOK, Flushers
  <2>2. flush'["request"].pc = "waiting" /\ flush'["request"].todo = {}
    BY <1>2, <2>1 DEF TypeInv, TypeOK, Flushers
  <2>3. \E f \in Frames : Reading(f)
    BY <1>4, CounterZero
  <2>4. QED
    BY <1>1, <1>3, <1>4, <2>1, <2>2, <2>3
       DEF ExclusionInv, RecordsMatchPhase, ShutdownComesLast, RequestFlushGuarded,
           FlushExcludesLookups, WaitingFlushHasWaker, InTree, Open, Flushers
<1>5. CASE unfinished_count = 0 /\ RunFlush("request", wm, ka)
  <2>1. \A f \in Frames : ~Reading(f)'
    BY <1>3, <1>5, CounterZero
  <2>2. /\ \/ flush'["request"] = IdleFlush
           \/ flush'["request"].pc = "iterating" /\ is_during_flush'
        /\ flush'["shutdown"] = flush["shutdown"]
    BY <1>2, <1>5, RunFlushShape DEF TypeInv, AfterFlush, Flushers
  <2>3. QED
    BY <1>1, <2>1, <2>2
       DEF ExclusionInv, RecordsMatchPhase, ShutdownComesLast, RequestFlushGuarded,
           FlushExcludesLookups, WaitingFlushHasWaker, InTree, Open, Flushers, IdleFlush
<1>6. QED
  BY <1>4, <1>5, StartFlushShape DEF Flushers

LEMMA ExclusionInit == Init => ExclusionInv
BY DEF Init, ExclusionInv, RecordsMatchPhase, ShutdownComesLast, RequestFlushGuarded,
       FlushExcludesLookups, WaitingFlushHasWaker, InTree, Open, Flushers, IdleFlush,
       Reading, FreeFrame

(* Steps that change neither flush records nor readers. *)
LEMMA ExclusionSame ==
  ASSUME ExclusionInv, flush' = flush, is_during_flush' = is_during_flush,
         \A f \in Frames : Reading(f)' = Reading(f)
  PROVE  ExclusionInv'
BY DEF ExclusionInv, RecordsMatchPhase, ShutdownComesLast, RequestFlushGuarded,
       FlushExcludesLookups, WaitingFlushHasWaker, InTree, Open

(* A flush ends or loses its buffer while no lookup is in flight. *)
LEMMA ExclusionFlushEnds ==
  ASSUME TypeInv, ExclusionInv, NEW fl \in Flushers, InTree(fl), find' = find,
         is_during_flush' = FALSE, ClearAndSet(fl, AfterFlush(fl))
  PROVE  ExclusionInv'
<1>1. \A f \in Frames : ~Reading(f) /\ ~Reading(f)'
  BY DEF ExclusionInv, FlushExcludesLookups, Reading
<1>2. /\ flush'[fl] = AfterFlush(fl)
      /\ \A g \in Flushers \ {fl} :
           \/ flush'[g] = flush[g]
           \/ flush[g].todo # {} /\ flush'[g] = [pc |-> "dangling", todo |-> {}]
  BY DEF ClearAndSet, Invalidated, IdleFlush
<1>3. \A g \in Flushers : flush[g].pc # "waiting"
  BY <1>1 DEF ExclusionInv, WaitingFlushHasWaker
<1>4. flush["request"].todo # {} => flush["request"].pc = "iterating"
  BY DEF ExclusionInv, RecordsMatchPhase, Flushers
<1>5. CASE fl = "request"
  <2>1. flush'["request"].pc = "idle" /\ flush'["request"].todo = {}
    BY <1>2, <1>5 DEF AfterFlush, IdleFlush
  <2>2. QED
    BY <1>1, <1>2, <1>3, <1>5, <2>1
       DEF ExclusionInv, RecordsMatchPhase, ShutdownComesLast, RequestFlushGuarded,
           FlushExcludesLookups, WaitingFlushHasWaker, InTree, Open, Flushers
<1>6. CASE fl = "shutdown"
  <2>1. flush'["shutdown"].pc = "syncing" /\ flush'["shutdown"].todo = {}
    BY <1>2, <1>6 DEF AfterFlush, IdleFlush
  <2>2. QED
    BY <1>1, <1>2, <1>3, <1>4, <1>6, <2>1
       DEF ExclusionInv, RecordsMatchPhase, ShutdownComesLast, RequestFlushGuarded,
           FlushExcludesLookups, WaitingFlushHasWaker, InTree, Open, Flushers
<1>7. QED
  BY <1>5, <1>6 DEF Flushers

LEMMA ExclusionStep == TypeInv /\ ExclusionInv /\ [Next]_vars => ExclusionInv'
<1> SUFFICES ASSUME TypeInv, ExclusionInv, [Next]_vars PROVE ExclusionInv'
  OBVIOUS
<1>0. /\ write_map \in [Pairs -> Op]
      /\ find \in [Frames -> Frame]
      /\ flush \in [Flushers -> [pc : FlushPC, todo : SUBSET Pairs]]
  BY DEF TypeInv, TypeOK
<1>r. ASSUME find' = find PROVE \A f \in Frames : Reading(f)' = Reading(f)
  BY <1>r DEF Reading
<1>1. ASSUME NEW wm \in [Pairs -> Op], NEW ka, MayIssue, Record(wm, ka), find' = find
      PROVE  ExclusionInv'
  <2>1. CASE StartFlush("request", wm, ka)
    BY <1>1, <2>1, RequestFlushStarts
  <2>2. CASE UNCHANGED <<tree, is_during_flush, flush>>
    BY <1>1, <1>r, <2>2, ExclusionSame
  <2>3. QED
    BY <1>1, <2>1, <2>2 DEF Record
<1>2. ASSUME NEW p \in Pairs, MayInsert(p), InsertAsync(p)
      PROVE  ExclusionInv'
  <2>1. [write_map EXCEPT ![p] = "INSERT"] \in [Pairs -> Op]
    BY <1>0 DEF Op
  <2>2. QED
    BY <1>1, <1>2, <2>1 DEF MayInsert, InsertAsync
<1>3. ASSUME NEW p \in Pairs, MayIssue, RemoveAsync(p)
      PROVE  ExclusionInv'
  <2>1. find' = find
    BY <1>3 DEF RemoveAsync
  <2>2. CASE RemoveRecord(p)
    <3>1. [write_map EXCEPT ![p] = "DELETE"] \in [Pairs -> Op]
      BY <1>0 DEF Op
    <3>2. QED
      BY <1>1, <1>3, <2>1, <2>2, <3>1 DEF RemoveRecord
  <2>3. CASE RemovePending(p) \/ RemoveAbsent(p)
    BY <1>r, <2>1, <2>3, ExclusionSame DEF RemovePending, RemoveAbsent
  <2>4. QED
    BY <1>3, <2>2, <2>3 DEF RemoveAsync
<1>4. CASE MayIssue /\ FlushAsync
  BY <1>0, <1>4, RequestFlushStarts DEF FlushAsync
<1>5. ASSUME NEW f \in Frames, NEW q \in Queries, MayIssue, FindBegin(f, q[1], q[2])
      PROVE  ExclusionInv'
  <2>1. flush' = flush /\ is_during_flush' = is_during_flush
    BY <1>5 DEF FindBegin
  <2>a. \A g \in Frames : Reading(g) => Reading(g)'
    BY <1>0, <1>5 DEF FindBegin, Reading
  <2>2. Open /\ \A fl \in Flushers : ~InTree(fl) /\ flush[fl].pc # "waiting"
    BY <1>5 DEF MayIssue, permit_operation, Open, ExclusionInv, RequestFlushGuarded, InTree, Flushers
  <2>3. QED
    BY <2>1, <2>a, <2>2
       DEF ExclusionInv, RecordsMatchPhase, ShutdownComesLast, RequestFlushGuarded,
           FlushExcludesLookups, WaitingFlushHasWaker, InTree, Open
<1>6. ASSUME NEW f \in Frames, FindRead(f)
      PROVE  ExclusionInv'
  <2>1. PICK leaf : find' = [find EXCEPT ![f].unread = @ \ leaf, ![f].rows = @ \cup (tree \cap leaf)]
    BY <1>6 DEF FindRead, ReadLeaf
  <2>2. \A g \in Frames : Reading(g)' = Reading(g)
    BY <1>0, <2>1 DEF Reading, Frame
  <2>3. QED
    BY <1>6, <2>2, ExclusionSame DEF FindRead, ReadLeaf
<1>7. ASSUME NEW f \in Frames, FindReturn(f)
      PROVE  ExclusionInv'
  <2> DEFINE result == Overlay(find[f].ops, find[f].rows)
             ka == AbsentKeysAfter(find[f].lo, find[f].hi, find[f].ops, result)
  <2>1. Reading(f) /\ Open
    BY <1>7 DEF FindReturn, ExclusionInv, ShutdownComesLast
  <2>2. ~Reading(f)' /\ \A g \in Frames \ {f} : Reading(g)' = Reading(g)
    BY <1>0, <1>7 DEF FindReturn, Reading, Done, FreeFrame
  <2>3. CASE /\ unfinished_count = 1
             /\ \E fl \in Flushers : flush[fl].pc = "waiting" /\ RunFlush(fl, write_map, ka)
    <3>1. PICK k : flush["request"].pc = "waiting" /\ RunFlush("request", write_map, k)
      BY <2>3 DEF ExclusionInv, ShutdownComesLast, Flushers
    <3>2. \A g \in Frames : ~Reading(g)'
      BY <2>1, <2>2, <2>3, LastReader
    <3>3. flush["shutdown"].pc = "idle" /\ flush["shutdown"].todo = {}
      BY <2>1 DEF Open, ExclusionInv, RecordsMatchPhase, Flushers
    <3>4. /\ \/ flush'["request"] = IdleFlush
             \/ flush'["request"].pc = "iterating" /\ is_during_flush'
          /\ flush'["shutdown"] = flush["shutdown"]
      BY <1>0, <3>1, <3>3, RunFlushShape DEF TypeInv, AfterFlush, Flushers
    <3>5. QED
      BY <3>2, <3>3, <3>4
         DEF ExclusionInv, RecordsMatchPhase, ShutdownComesLast, RequestFlushGuarded,
             FlushExcludesLookups, WaitingFlushHasWaker, InTree, Open, Flushers, IdleFlush
  <2>4. CASE /\ unfinished_count # 1 \/ \A fl \in Flushers : flush[fl].pc # "waiting"
             /\ UNCHANGED <<write_map, tree, is_during_flush, flush>>
    <3>1. \A fl \in Flushers : flush[fl].pc = "waiting" => \E g \in Frames : Reading(g)'
      BY <2>1, <2>2, <2>4, LastReader
    <3>2. \A fl \in Flushers : flush'[fl].pc = "waiting" => \E g \in Frames : Reading(g)'
      BY <2>4, <3>1
    <3>3. QED
      BY <2>1, <2>2, <2>4, <3>2
         DEF ExclusionInv, RecordsMatchPhase, ShutdownComesLast, RequestFlushGuarded,
             FlushExcludesLookups, WaitingFlushHasWaker, InTree, Open
  <2>5. QED
    BY <1>7, <2>3, <2>4 DEF FindReturn
<1>8. ASSUME NEW f \in Frames, Collect(f)
      PROVE  ExclusionInv'
  <2>1. \A g \in Frames : Reading(g)' = Reading(g)
    BY <1>0, <1>8 DEF Collect, Reading, FreeFrame
  <2>2. QED
    BY <1>8, <2>1, ExclusionSame DEF Collect
<1>9. ASSUME NEW fl \in Flushers, FlushApply(fl) \/ FlushDisturbed(fl)
      PROVE  ExclusionInv'
  <2>0. flush[fl].todo \in SUBSET Pairs /\ tree \in SUBSET Pairs
    BY <1>0 DEF TypeInv, TypeOK
  <2>1. PICK rest \in SUBSET flush[fl].todo : flush' = [flush EXCEPT ![fl].todo = rest]
    BY <1>9, <2>0, FlushGoesOn
  <2>2. \A g \in Flushers : /\ flush'[g].pc = flush[g].pc
                            /\ flush'[g].todo \subseteq flush[g].todo
    BY <1>0, <2>1
  <2>3. find' = find /\ is_during_flush' = is_during_flush
    BY <1>9, <2>0, FlushGoesOn
  <2>4. QED
    BY <1>r, <2>2, <2>3
       DEF ExclusionInv, RecordsMatchPhase, ShutdownComesLast, RequestFlushGuarded,
           FlushExcludesLookups, WaitingFlushHasWaker, InTree, Open, Flushers
<1>10. ASSUME NEW fl \in Flushers, FlushFinish(fl)
       PROVE  ExclusionInv'
  BY <1>10, ExclusionFlushEnds DEF FlushFinish, InTree
<1>12. ASSUME NEW fl \in Flushers, FlushUndefined(fl)
       PROVE  ExclusionInv'
  <2>1. /\ flush[fl].pc = "dangling" /\ flush'[fl].pc = "undefined"
        /\ flush'[fl].todo = flush[fl].todo
        /\ \A g \in Flushers \ {fl} : flush'[g] = flush[g]
    BY <1>0, <1>12 DEF FlushUndefined
  <2>2. find' = find /\ is_during_flush' = is_during_flush
    BY <1>12 DEF FlushUndefined
  <2>3. QED
    BY <1>r, <2>1, <2>2
       DEF ExclusionInv, RecordsMatchPhase, ShutdownComesLast, RequestFlushGuarded,
           FlushExcludesLookups, WaitingFlushHasWaker, InTree, Open, Flushers
<1>13. CASE MayShutdown /\ Shutdown
  <2>1. unfinished_count = 0 /\ RunFlush("shutdown", write_map, known_absent_keys)
    <3>1. \A f \in Frames : ~Reading(f)
      BY <1>13 DEF MayShutdown
    <3>2. QED
      BY <1>13, <3>1, CounterZero DEF Shutdown, StartFlush
  <2>2. \A f \in Frames : ~Reading(f) /\ ~Reading(f)'
    BY <1>13 DEF MayShutdown, Shutdown, Reading
  <2>3. /\ \/ /\ flush'["shutdown"].pc = "syncing"
              /\ flush'["shutdown"].todo = {}
           \/ flush'["shutdown"].pc = "iterating"
        /\ \/ flush'["request"] = flush["request"]
           \/ flush'["request"] = [pc |-> "dangling", todo |-> {}]
    BY <1>0, <2>1, RunFlushShape DEF TypeInv, AfterFlush, IdleFlush, Flushers
  <2>4. flush["request"].pc # "waiting"
    BY <2>2 DEF ExclusionInv, WaitingFlushHasWaker, Flushers
  <2>5. QED
    BY <2>2, <2>3, <2>4
       DEF ExclusionInv, RecordsMatchPhase, ShutdownComesLast, RequestFlushGuarded,
           FlushExcludesLookups, WaitingFlushHasWaker, InTree, Open, Flushers
<1>14. CASE SyncFinish
  <2>1. /\ flush["shutdown"].pc = "syncing" /\ flush'["shutdown"].pc = "closed"
        /\ flush'["shutdown"].todo = flush["shutdown"].todo
        /\ flush'["request"] = flush["request"]
    BY <1>0, <1>14 DEF SyncFinish, Flushers
  <2>2. find' = find /\ is_during_flush' = is_during_flush
    BY <1>14 DEF SyncFinish
  <2>3. QED
    BY <1>r, <2>1, <2>2
       DEF ExclusionInv, RecordsMatchPhase, ShutdownComesLast, RequestFlushGuarded,
           FlushExcludesLookups, WaitingFlushHasWaker, InTree, Open, Flushers
<1>15. CASE Reopen
  BY <1>15 DEF Reopen, ExclusionInv, RecordsMatchPhase, ShutdownComesLast, RequestFlushGuarded,
     FlushExcludesLookups, WaitingFlushHasWaker, InTree, Open, Flushers, IdleFlush, Reading, FreeFrame
<1>16. CASE UNCHANGED vars
  BY <1>r, <1>16, ExclusionSame DEF vars
<1>17. QED
  BY <1>2, <1>3, <1>4, <1>5, <1>6, <1>7, <1>8, <1>9, <1>10, <1>12, <1>13, <1>14, <1>15, <1>16
     DEF Next, FindStep, FlushStep

(* The conjunction is inductive, with the types, for clients of any        *)
(* discipline: a flush and a lookup never work on the tree together.       *)
THEOREM ExclusionCorrect == Spec => []ExclusionInv
<1>1. Init => TypeInv /\ ExclusionInv
  BY TypeInit, ExclusionInit
<1>2. TypeInv /\ ExclusionInv /\ [Next]_vars => (TypeInv /\ ExclusionInv)'
  BY TypeStep, ExclusionStep
<1>3. QED
  BY <1>1, <1>2, PTL DEF Spec

(* While a flush works on the tree no lookup is in flight                  *)
(* (co_await unfinished_count, async_bpt.h:449).                           *)
THEOREM FlushExclusion == Spec => []FlushExcludesLookups
<1>1. ExclusionInv => FlushExcludesLookups
  BY DEF ExclusionInv
<1>2. QED
  BY <1>1, ExclusionCorrect, PTL

(* A flush that waits for lookups always has one left to resume it.        *)
THEOREM NoStrandedFlush == Spec => []WaitingFlushHasWaker
<1>1. ExclusionInv => WaitingFlushHasWaker
  BY DEF ExclusionInv
<1>2. QED
  BY <1>1, ExclusionCorrect, PTL

-------------------------------------------------------------------------------
(***************************************************************************)
(* Lookups answer as of their issue.                                       *)
(***************************************************************************)

(* No step moves the tree under a lookup that stays in flight. *)
LEMMA TreeStableUnderLookups ==
  ASSUME TypeInv, ExclusionInv, [Next]_vars, NEW f \in Frames,
         Reading(f), Reading(f)'
  PROVE  tree' = tree
<1>0. Open /\ \A fl \in Flushers : ~InTree(fl)
  BY DEF ExclusionInv, ShutdownComesLast, FlushExcludesLookups
<1>1. \A fl \in Flushers : flush[fl].pc # "dangling"
  BY <1>0 DEF Open, ExclusionInv, RequestFlushGuarded, Flushers
<1>2. \A fl \in Flushers : ~FlushStep(fl)
  BY <1>0, <1>1 DEF FlushStep, FlushApply, FlushDisturbed, AtIterator, FlushFinish,
                    FlushUndefined, InTree
<1>c. unfinished_count # 0
  BY CounterZero
<1>3. ASSUME NEW fl \in Flushers, NEW wm, NEW ka, StartFlush(fl, wm, ka)
      PROVE  tree' = tree
  BY <1>c, <1>3 DEF StartFlush
<1>4. ASSUME NEW wm, NEW ka, Record(wm, ka)
      PROVE  tree' = tree
  BY <1>3, <1>4 DEF Record, Flushers
<1>5. ASSUME NEW p \in Pairs, InsertAsync(p) \/ RemoveAsync(p)
      PROVE  tree' = tree
  BY <1>4, <1>5 DEF InsertAsync, RemoveAsync, RemovePending, RemoveAbsent, RemoveRecord
<1>6. ASSUME FlushAsync \/ Shutdown
      PROVE  tree' = tree
  BY <1>3, <1>6 DEF FlushAsync, Shutdown, Flushers
<1>7. ASSUME NEW g \in Frames, FindStep(g) \/ Collect(g)
      PROVE  tree' = tree
  <2>1. CASE FindReturn(g)
    <3>1. g # f
      BY <2>1 DEF FindReturn, Reading, Done, FreeFrame, TypeInv, TypeOK
    <3>2. unfinished_count # 1
      BY <2>1, <3>1, LastReader DEF FindReturn
    <3>3. QED
      BY <2>1, <3>2 DEF FindReturn
  <2>2. QED
    BY <1>7, <2>1 DEF FindStep, FindRead, ReadLeaf, Collect
<1>8. ASSUME NEW g \in Frames, NEW q \in Queries, FindBegin(g, q[1], q[2])
      PROVE  tree' = tree
  BY <1>8 DEF FindBegin
<1>9. QED
  BY <1>2, <1>5, <1>6, <1>7, <1>8 DEF Next, SyncFinish, Reopen, vars

(* What a step does to the record of one lookup. *)
LEMMA LookupStep ==
  ASSUME TypeInv, [Next]_vars, NEW f \in Frames
  PROVE  \/ find'[f] = find[f]
         \/ \E q \in Queries : MayIssue /\ FindBegin(f, q[1], q[2])
         \/ FindRead(f)
         \/ FindReturn(f)
         \/ find'[f].pc = "free"
<1>0. find \in [Frames -> Frame]
  BY DEF TypeInv, TypeOK
<1>1. ASSUME NEW g \in Frames \ {f}, FindRead(g) \/ FindReturn(g) \/ Collect(g)
      PROVE  find'[f] = find[f]
  BY <1>0, <1>1 DEF FindRead, ReadLeaf, FindReturn, Collect
<1>2. ASSUME NEW g \in Frames \ {f}, NEW q \in Queries, FindBegin(g, q[1], q[2])
      PROVE  find'[f] = find[f]
  BY <1>0, <1>2 DEF FindBegin
<1>3. ASSUME Collect(f) \/ Reopen
      PROVE  find'[f].pc = "free"
  BY <1>0, <1>3 DEF Collect, Reopen, FreeFrame
<1>4. ASSUME \/ \E p \in Pairs : InsertAsync(p) \/ RemoveAsync(p)
             \/ \E fl \in Flushers : FlushStep(fl)
             \/ FlushAsync \/ Shutdown \/ SyncFinish \/ UNCHANGED vars
      PROVE  find' = find
  BY <1>4 DEF InsertAsync, RemoveAsync, FlushStep, FlushApply, FlushDisturbed, Advance,
              FlushFinish, FlushUndefined, FlushAsync, Shutdown, SyncFinish, vars
<1>5. QED
  BY <1>1, <1>2, <1>3, <1>4 DEF Next, FindStep

(* A lookup that is issued takes its frame, for the range asked for. *)
LEMMA BeginShape ==
  ASSUME find \in [Frames -> Frame], NEW f \in Frames, NEW lo, NEW hi, FindBegin(f, lo, hi)
  PROVE  /\ find[f].pc = "free" /\ find'[f].pc # "free"
         /\ find'[f].lo = lo /\ find'[f].hi = hi
         /\ \A g \in Frames \ {f} : find'[g] = find[g]
         /\ UNCHANGED flush
<1> DEFINE ops == [p \in Pairs |-> IF InRange(p, lo, hi) THEN write_map[p] ELSE "none"]
           new == [pc |-> "reading", lo |-> lo, hi |-> hi, ops |-> ops,
                   unread |-> PairsInRange(lo, hi), rows |-> {}]
<1>1. PICK r : /\ find' = [find EXCEPT ![f] = r]
               /\ r.pc # "free" /\ r.lo = lo /\ r.hi = hi
  <2>1. CASE find' = [find EXCEPT ![f] = Done(lo, hi, Overlay(ops, {}))]
    <3>1. LET r == Done(lo, hi, Overlay(ops, {})) IN r.pc # "free" /\ r.lo = lo /\ r.hi = hi
      BY DEF Done, FreeFrame
    <3>2. QED
      BY <2>1, <3>1
  <2>2. CASE find' = [find EXCEPT ![f] = new]
    <3>1. new.pc # "free" /\ new.lo = lo /\ new.hi = hi
      OBVIOUS
    <3> HIDE DEF new
    <3>2. QED
      BY <2>2, <3>1
  <2>3. QED
    BY <2>1, <2>2 DEF FindBegin
<1>2. QED
  BY <1>1 DEF FindBegin

LEMMA AnswerStep ==
  ASSUME TypeInv, ExclusionInv, [Next]_vars, NEW f \in Frames
  PROVE  AnswerAsOfIssue(f)
<1>0. find[f] \in Frame /\ tree \in SUBSET Pairs /\ find \in [Frames -> Frame]
  BY DEF TypeInv, TypeOK
<1>1. CASE find'[f] = find[f]
  <2>1. CASE Reading(f)
    <3>1. tree' = tree
      BY <1>1, <2>1, TreeStableUnderLookups DEF Reading
    <3>2. QED
      BY <1>1, <2>1, <3>1 DEF AnswerAsOfIssue, Answer, Reading, Overlay
  <2>2. CASE ~Reading(f)
    BY <1>1, <2>2 DEF AnswerAsOfIssue, Answer, Reading
  <2>3. QED
    BY <2>1, <2>2
<1>2. ASSUME NEW q \in Queries, MayIssue, FindBegin(f, q[1], q[2])
      PROVE  AnswerAsOfIssue(f)
  <2> DEFINE ops == [p \in Pairs |-> IF InRange(p, q[1], q[2]) THEN write_map[p] ELSE "none"]
  <2>1. find[f].pc = "free" /\ tree' = tree
    BY <1>2 DEF FindBegin
  <2>2. Overlay(ops, tree \cap PairsInRange(q[1], q[2]))
          = {p \in Content : InRange(p, q[1], q[2])}
    BY DEF Overlay, PairsInRange, Content
  <2>3. CASE tree # {}
    <3>1. find'[f] = [pc |-> "reading", lo |-> q[1], hi |-> q[2], ops |-> ops,
                      unread |-> PairsInRange(q[1], q[2]), rows |-> {}]
      BY <1>0, <1>2, <2>3 DEF FindBegin
    <3>2. Answer(f)' = Overlay(ops, tree \cap PairsInRange(q[1], q[2]))
      BY <2>1, <3>1 DEF Answer, Reading, Overlay
    <3>3. find'[f].lo = q[1] /\ find'[f].hi = q[2]
      BY <3>1
    <3>4. Answer(f)' = {p \in Content : InRange(p, find'[f].lo, find'[f].hi)}
      BY <2>2, <3>2, <3>3
    <3>5. QED
      BY <2>1, <3>4 DEF AnswerAsOfIssue
  <2>4. CASE tree = {}
    <3>1. find'[f] = Done(q[1], q[2], Overlay(ops, {}))
      BY <1>0, <1>2, <2>4 DEF FindBegin
    <3>2. /\ find'[f].pc = "done" /\ find'[f].rows = Overlay(ops, {})
          /\ find'[f].lo = q[1] /\ find'[f].hi = q[2]
      BY <3>1 DEF Done, FreeFrame
    <3>3. Answer(f)' = Overlay(ops, tree \cap PairsInRange(q[1], q[2]))
      BY <2>4, <3>2 DEF Answer, Reading
    <3>4. Answer(f)' = {p \in Content : InRange(p, find'[f].lo, find'[f].hi)}
      BY <2>2, <3>2, <3>3
    <3>5. QED
      BY <2>1, <3>4 DEF AnswerAsOfIssue
  <2>5. QED
    BY <2>3, <2>4
<1>3. CASE FindRead(f)
  <2>1. PICK leaf : /\ leaf \subseteq find[f].unread
                    /\ find' = [find EXCEPT ![f].unread = @ \ leaf,
                                          ![f].rows = @ \cup (tree \cap leaf)]
    BY <1>3 DEF FindRead, ReadLeaf, UnreadUpTo
  <2>2. /\ find'[f].pc = find[f].pc /\ find'[f].ops = find[f].ops
        /\ find'[f].unread = find[f].unread \ leaf
        /\ find'[f].rows = find[f].rows \cup (tree \cap leaf)
    <3> DEFINE new == [find[f] EXCEPT !.unread = @ \ leaf, !.rows = @ \cup (tree \cap leaf)]
    <3>1. find' = [find EXCEPT ![f] = new]
      BY <1>0, <2>1
    <3>2. find'[f] = new
      BY <1>0, <3>1
    <3>3. QED
      BY <1>0, <3>2 DEF Frame
  <2>3. tree' = tree /\ Reading(f)
    BY <1>3 DEF FindRead, ReadLeaf
  <2>4. find'[f].rows \cup (tree \cap find'[f].unread)
          = find[f].rows \cup (tree \cap find[f].unread)
    BY <2>1, <2>2
  <2>5. QED
    BY <2>2, <2>3, <2>4 DEF AnswerAsOfIssue, Answer, Reading
<1>4. CASE FindReturn(f)
  <2>1. /\ find'[f].pc = "done"
        /\ find'[f].rows = Overlay(find[f].ops, find[f].rows)
    BY <1>0, <1>4 DEF FindReturn, Done, FreeFrame
  <2>2. Reading(f) /\ find[f].unread = {}
    BY <1>4 DEF FindReturn
  <2>3. Answer(f) = Overlay(find[f].ops, find[f].rows)
    BY <2>2 DEF Answer, Overlay
  <2>4. QED
    BY <2>1, <2>2, <2>3 DEF AnswerAsOfIssue, Answer, Reading
<1>5. CASE find'[f].pc = "free"
  BY <1>5 DEF AnswerAsOfIssue, Reading
<1>6. QED
  BY <1>1, <1>2, <1>3, <1>4, <1>5, LookupStep

(* A lookup answers with the set as it stood when it was issued, under     *)
(* every interleaving with requests, flushes and other lookups, and for    *)
(* clients of any discipline.                                              *)
THEOREM LookupsAnswerAsOfIssue == Spec => AnswersAsOfIssue
<1>1. Init => TypeInv /\ ExclusionInv
  BY TypeInit, ExclusionInit
<1>2. TypeInv /\ ExclusionInv /\ [Next]_vars => (TypeInv /\ ExclusionInv)'
  BY TypeStep, ExclusionStep
<1>3. TypeInv /\ ExclusionInv /\ [Next]_vars => [\A f \in Frames : AnswerAsOfIssue(f)]_vars
  BY AnswerStep
<1>4. QED
  BY <1>1, <1>2, <1>3, PTL DEF Spec, AnswersAsOfIssue

-----------------------------------------------------------------------------
(***************************************************************************)
(* What the index holds: what a flush may do to the set its clients see,   *)
(* and what the discipline of the clients buys them.                       *)
(***************************************************************************)

FlushRecord == [pc : FlushPC, todo : SUBSET Pairs]

(***************************************************************************)
(* Permission.                                                             *)
(***************************************************************************)

(* A request's flush that gets past its wait, while the index is open.     *)
LEMMA RequestFlushRuns ==
  ASSUME TypeInv, ExclusionInv, Open,
         NEW wm \in [Pairs -> Op], NEW ka, RunFlush("request", wm, ka)
  PROVE  /\ \/ flush'["request"].pc = "idle" /\ is_during_flush' = FALSE
            \/ flush'["request"].pc = "iterating" /\ is_during_flush' = TRUE
         /\ flush'["shutdown"] = flush["shutdown"]
<1>1. flush["shutdown"].todo = {}
  BY DEF Open, ExclusionInv, RecordsMatchPhase, Flushers
<1>2. /\ \/ flush'["request"] = IdleFlush /\ is_during_flush' = FALSE
         \/ flush'["request"].pc = "iterating" /\ is_during_flush' = TRUE
      /\ flush'["shutdown"] = flush["shutdown"]
  BY <1>1, RunFlushShape DEF TypeInv, AfterFlush, Flushers
<1>3. QED
  BY <1>2 DEF IdleFlush

(* A flush that starts or is resumed while the index is open raises the    *)
(* flag, or lowers it and is over.                                         *)
LEMMA FlagAfterStart ==
  ASSUME TypeInv, ExclusionInv, Open,
         NEW wm \in [Pairs -> Op], NEW ka, StartFlush("request", wm, ka)
  PROVE  FlagMeansFlushing'
<1>1. flush["shutdown"].pc = "idle"
  BY DEF Open
<1>2. CASE /\ is_during_flush' = TRUE
           /\ flush' = [flush EXCEPT !["request"] = [@ EXCEPT !.pc = "waiting"]]
  <2>1. flush'["request"].pc = "waiting"
    BY <1>2 DEF TypeInv, TypeOK, Flushers
  <2>2. QED
    BY <1>2, <2>1 DEF FlagMeansFlushing, Flushers
<1>3. CASE RunFlush("request", wm, ka)
  BY <1>1, <1>3, RequestFlushRuns DEF FlagMeansFlushing, Flushers
<1>4. QED
  BY <1>2, <1>3, StartFlushShape DEF Flushers

LEMMA FlagStep ==
  ASSUME TypeInv, ExclusionInv, FlagMeansFlushing, [Next]_vars
  PROVE  FlagMeansFlushing'
<1>0. /\ write_map \in [Pairs -> Op]
      /\ flush \in [Flushers -> FlushRecord]
  BY DEF TypeInv, TypeOK, FlushRecord
<1>s. ASSUME UNCHANGED <<is_during_flush, flush>> PROVE FlagMeansFlushing'
  BY <1>s DEF FlagMeansFlushing, Open
<1>1. ASSUME NEW wm \in [Pairs -> Op], NEW ka, Open, Record(wm, ka)
      PROVE  FlagMeansFlushing'
  BY <1>1, <1>s, FlagAfterStart DEF Record
<1>2. ASSUME NEW p \in Pairs, MayInsert(p), InsertAsync(p)
      PROVE  FlagMeansFlushing'
  <2>1. [write_map EXCEPT ![p] = "INSERT"] \in [Pairs -> Op]
    BY <1>0 DEF Op
  <2>2. QED
    BY <1>1, <1>2, <2>1 DEF MayInsert, MayIssue, InsertAsync
<1>3. ASSUME NEW p \in Pairs, MayIssue, RemoveAsync(p)
      PROVE  FlagMeansFlushing'
  <2>1. CASE RemoveRecord(p)
    <3>1. [write_map EXCEPT ![p] = "DELETE"] \in [Pairs -> Op]
      BY <1>0 DEF Op
    <3>2. QED
      BY <1>1, <1>3, <2>1, <3>1 DEF MayIssue, RemoveRecord
  <2>2. CASE RemovePending(p) \/ RemoveAbsent(p)
    BY <1>s, <2>2 DEF RemovePending, RemoveAbsent
  <2>3. QED
    BY <1>3, <2>1, <2>2 DEF RemoveAsync
<1>4. CASE MayIssue /\ FlushAsync
  BY <1>0, <1>4, FlagAfterStart DEF MayIssue, FlushAsync
<1>5. ASSUME NEW f \in Frames, FindReturn(f)
      PROVE  FlagMeansFlushing'
  <2> DEFINE result == Overlay(find[f].ops, find[f].rows)
             ka == AbsentKeysAfter(find[f].lo, find[f].hi, find[f].ops, result)
  <2>1. CASE UNCHANGED <<is_during_flush, flush>>
    BY <1>s, <2>1
  <2>2. CASE \E fl \in Flushers : flush[fl].pc = "waiting" /\ RunFlush(fl, write_map, ka)
    <3>1. RunFlush("request", write_map, ka)
      BY <2>2 DEF ExclusionInv, ShutdownComesLast, Flushers
    <3>2. Open
      BY <1>5 DEF FindReturn, ExclusionInv, ShutdownComesLast
    <3>3. QED
      BY <1>0, <3>1, <3>2, RequestFlushRuns DEF FlagMeansFlushing, Open, Flushers
  <2>3. QED
    BY <1>5, <2>1, <2>2 DEF FindReturn
<1>6. ASSUME NEW fl \in Flushers, FlushApply(fl) \/ FlushDisturbed(fl)
      PROVE  FlagMeansFlushing'
  <2>0. flush[fl].todo \in SUBSET Pairs /\ tree \in SUBSET Pairs
    BY DEF TypeInv, TypeOK
  <2>1. \A g \in Flushers : flush'[g].pc = flush[g].pc
    BY <1>0, <1>6, <2>0, FlushGoesOn DEF FlushRecord
  <2>2. is_during_flush' = is_during_flush
    BY <1>6, <2>0, FlushGoesOn
  <2>3. QED
    BY <2>1, <2>2 DEF FlagMeansFlushing, Open, Flushers
<1>7. ASSUME NEW fl \in Flushers, InTree(fl), is_during_flush' = FALSE,
             ClearAndSet(fl, AfterFlush(fl))
      PROVE  FlagMeansFlushing'
  <2>1. CASE fl = "shutdown"
    <3>1. flush'["shutdown"].pc = "syncing"
      BY <1>7, <2>1 DEF ClearAndSet, AfterFlush, IdleFlush, Flushers
    <3>2. QED
      BY <3>1 DEF FlagMeansFlushing, Open
  <2>2. CASE fl = "request"
    <3>1. flush'["request"].pc = "idle"
      BY <1>7, <2>2 DEF ClearAndSet, AfterFlush, IdleFlush, Flushers
    <3>2. QED
      BY <1>7, <3>1 DEF FlagMeansFlushing, Open, Flushers
  <2>3. QED
    BY <2>1, <2>2 DEF Flushers
<1>8. ASSUME NEW fl \in Flushers, FlushFinish(fl)
      PROVE  FlagMeansFlushing'
  BY <1>7, <1>8 DEF FlushFinish, InTree
<1>9. ASSUME NEW fl \in Flushers, FlushUndefined(fl)
      PROVE  FlagMeansFlushing'
  <2>1. ~Open
    BY <1>9 DEF FlushUndefined, ExclusionInv, RequestFlushGuarded, Open, Flushers
  <2>2. flush'["shutdown"].pc # "idle"
    BY <1>0, <1>9, <2>1 DEF FlushUndefined, Open, Flushers, FlushRecord
  <2>3. QED
    BY <2>2 DEF FlagMeansFlushing, Open
<1>10. CASE MayShutdown /\ Shutdown
  <2>1. RunFlush("shutdown", write_map, known_absent_keys)
    BY <1>10, CounterZero DEF MayShutdown, Shutdown, StartFlush
  <2>2. flush'["shutdown"].pc # "idle"
    BY <1>0, <2>1, RunFlushShape DEF TypeInv, AfterFlush, IdleFlush, Flushers
  <2>3. QED
    BY <2>2 DEF FlagMeansFlushing, Open
<1>11. CASE SyncFinish
  BY <1>0, <1>11 DEF SyncFinish, FlagMeansFlushing, Open, Flushers, FlushRecord
<1>12. CASE Reopen
  BY <1>12 DEF Reopen, FlagMeansFlushing, Flushers, IdleFlush
<1>13. ASSUME \/ \E f \in Frames, q \in Queries : FindBegin(f, q[1], q[2])
              \/ \E f \in Frames : FindRead(f) \/ Collect(f)
              \/ UNCHANGED vars
       PROVE  FlagMeansFlushing'
  BY <1>13, <1>s DEF FindBegin, FindRead, ReadLeaf, Collect, vars
<1>14. QED
  BY <1>2, <1>3, <1>4, <1>5, <1>6, <1>8, <1>9, <1>10, <1>11, <1>12, <1>13
     DEF Next, FindStep, FlushStep

(* permit_operation() is closed exactly while a flush is under way, so no  *)
(* request is recorded behind a flush's back and none is refused for ever  *)
(* by a flag nobody lowers.                                                *)
THEOREM PermissionCorrect == Spec => []FlagMeansFlushing
<1>1. Init => FlagMeansFlushing
  BY DEF Init, FlagMeansFlushing, Flushers, IdleFlush
<1>2. TypeInv /\ ExclusionInv /\ FlagMeansFlushing /\ [Next]_vars => FlagMeansFlushing'
  BY FlagStep
<1>3. Init => TypeInv /\ ExclusionInv
  BY TypeInit, ExclusionInit
<1>4. TypeInv /\ ExclusionInv /\ [Next]_vars => (TypeInv /\ ExclusionInv)'
  BY TypeStep, ExclusionStep
<1>5. QED
  BY <1>1, <1>2, <1>3, <1>4, PTL DEF Spec

-------------------------------------------------------------------------------
(***************************************************************************)
(* What a flush does to the set.                                           *)
(***************************************************************************)
(* A flush has entries to visit only while they are in the buffer. *)
TodoIsBuffered == \A fl \in Flushers : flush[fl].todo \subseteq Entries(write_map)

(* A flush that has lost its buffer, and a shutdown past its flush, leave  *)
(* an empty buffer.                                                        *)
BufferGone ==
  \A fl \in Flushers :
    flush[fl].pc \in {"dangling", "undefined", "syncing", "closed"} => Entries(write_map) = {}

ContentInv ==
  /\ TodoIsBuffered
  /\ BufferGone
  /\ PassedEntriesApplied

(* A pair is in the set when the buffer inserts it, or says nothing of it  *)
(* while the tree holds it.                                                *)
PresentUnder(wm, p) == wm[p] = "INSERT" \/ (wm[p] = "none" /\ p \in tree)

Present(p) == PresentUnder(write_map, p)

LEMMA ContentIsPresent ==
  /\ Content = {p \in Pairs : Present(p)}
  /\ Content' = {p \in Pairs : Present(p)'}
BY DEF Content, Overlay, Present, PresentUnder

(* An empty buffer has an operation on nothing. *)
LEMMA EntriesOf ==
  ASSUME NEW wm \in [Pairs -> Op]
  PROVE  /\ \A p \in Pairs : p \in Entries(wm) <=> wm[p] \in {"INSERT", "DELETE"}
         /\ Entries(wm) = {} <=> \A p \in Pairs : wm[p] = "none"
         /\ Entries(NoOps) = {}
BY DEF Entries, NoOps, Op

(* Clearing the buffer: what becomes of the flush records. *)
LEMMA ClearAndSetShape ==
  ASSUME TypeInv, NEW fl \in Flushers, NEW r, ClearAndSet(fl, r)
  PROVE  /\ write_map' = NoOps
         /\ flush'[fl] = r
         /\ \A g \in Flushers \ {fl} :
              \/ flush[g].todo = {} /\ flush'[g] = flush[g]
              \/ /\ flush[g].todo # {} /\ flush'[g].pc = "dangling"
                 /\ flush'[g].todo = {}
<1>1. \A g \in Flushers :
        \/ flush[g].todo = {} /\ Invalidated(g) = flush[g]
        \/ /\ flush[g].todo # {} /\ Invalidated(g).pc = "dangling"
           /\ Invalidated(g).todo = {}
  BY DEF Invalidated, IdleFlush
<1>2. QED
  BY <1>1 DEF ClearAndSet

LEMMA AfterFlushShape ==
  ASSUME NEW fl \in Flushers
  PROVE  /\ AfterFlush(fl).todo = {}
         /\ fl = "request" => AfterFlush(fl).pc = "idle"
         /\ fl = "shutdown" => AfterFlush(fl).pc = "syncing"
BY DEF AfterFlush, IdleFlush, Flushers

(* What the buffer is when a flush runs: as it was, or with one operation  *)
(* just recorded while no flush was under way.                             *)
FlushableBuffer(fl, wm) ==
  /\ flush[fl].pc \in {"idle", "waiting"}
  /\ \/ wm = write_map
     \/ \A g \in Flushers : flush[g].pc = "idle"

LEMMA RunFlushContent ==
  ASSUME TypeInv, ExclusionInv, ContentInv, NEW fl \in Flushers,
         NEW wm \in [Pairs -> Op], NEW ka, FlushableBuffer(fl, wm), RunFlush(fl, wm, ka)
  PROVE  /\ ContentInv'
         /\ \A p \in Pairs : Present(p)' <=> PresentUnder(wm, p)
<1>0. /\ write_map \in [Pairs -> Op]
      /\ flush \in [Flushers -> FlushRecord]
  BY DEF TypeInv, TypeOK, FlushRecord
<1>1. \A g \in Flushers : flush[g].pc # "iterating" => flush[g].todo = {}
  BY DEF ExclusionInv, RecordsMatchPhase
<1>2. flush[fl].pc # "iterating"
  BY DEF FlushableBuffer
<1>3. \A g \in Flushers \ {fl} :
        /\ flush[g].todo \subseteq Entries(wm)
        /\ flush[g].pc \in {"dangling", "undefined", "syncing", "closed"} => Entries(wm) = {}
        /\ flush[g].pc = "iterating" => wm = write_map
  <2>1. CASE wm = write_map
    BY <2>1 DEF ContentInv, TodoIsBuffered, BufferGone
  <2>2. CASE \A g \in Flushers : flush[g].pc = "idle"
    BY <1>1, <2>2
  <2>3. QED
    BY <2>1, <2>2 DEF FlushableBuffer
<1>4. CASE /\ Entries(wm) = {}
           /\ flush' = [flush EXCEPT ![fl] = AfterFlush(fl)]
           /\ write_map' = wm /\ UNCHANGED tree
  <2>1. flush'[fl] = AfterFlush(fl) /\ \A g \in Flushers \ {fl} : flush'[g] = flush[g]
    BY <1>0, <1>4
  <2>2. flush'[fl].todo = {}
    BY <2>1, AfterFlushShape
  <2>3. TodoIsBuffered'
    BY <1>3, <1>4, <2>1, <2>2 DEF TodoIsBuffered
  <2>4. BufferGone' /\ PassedEntriesApplied'
    BY <1>4 DEF BufferGone, PassedEntriesApplied
  <2>5. QED
    BY <1>4, <2>3, <2>4 DEF ContentInv, Present, PresentUnder
<1>5. CASE /\ tree = {} /\ tree' = InsertsIn(wm)
           /\ ClearAndSet(fl, AfterFlush(fl))
  <2>1. /\ write_map' = NoOps /\ flush'[fl] = AfterFlush(fl)
        /\ \A g \in Flushers \ {fl} :
             \/ flush[g].todo = {} /\ flush'[g] = flush[g]
             \/ /\ flush[g].todo # {} /\ flush'[g].pc = "dangling"
                /\ flush'[g].todo = {}
    BY <1>5, ClearAndSetShape
  <2>2. Entries(write_map') = {}
    BY <2>1, EntriesOf, FrameTypes
  <2>3. \A g \in Flushers : flush'[g].todo = {}
    BY <2>1, AfterFlushShape
  <2>4. ContentInv'
    BY <2>2, <2>3 DEF ContentInv, TodoIsBuffered, BufferGone, PassedEntriesApplied
  <2>5. \A p \in Pairs : write_map'[p] = "none"
    BY <2>1 DEF NoOps
  <2>6. QED
    BY <1>5, <2>4, <2>5 DEF Present, PresentUnder, InsertsIn
<1>6. CASE /\ flush' = [flush EXCEPT ![fl] = [pc |-> "iterating", todo |-> Entries(wm)]]
           /\ write_map' = wm /\ UNCHANGED tree
           /\ Entries(wm) # {}
  <2>1. /\ flush'[fl].pc = "iterating" /\ flush'[fl].todo = Entries(wm)
        /\ \A g \in Flushers \ {fl} : flush'[g] = flush[g]
    BY <1>0, <1>6
  <2>2. TodoIsBuffered'
    BY <1>3, <1>6, <2>1 DEF TodoIsBuffered
  <2>3. BufferGone'
    BY <1>3, <1>6, <2>1 DEF BufferGone
  <2>4. PassedEntriesApplied'
    <3>1. \A g \in Flushers \ {fl} : ~AloneInLoop(g)'
      BY <2>1 DEF AloneInLoop
    <3>2. QED
      BY <1>6, <2>1, <3>1 DEF PassedEntriesApplied
  <2>5. QED
    BY <1>6, <2>2, <2>3, <2>4 DEF ContentInv, Present, PresentUnder
<1>7. QED
  BY <1>4, <1>5, <1>6 DEF RunFlush

(* The same with the wait in front. *)
LEMMA StartFlushContent ==
  ASSUME TypeInv, ExclusionInv, ContentInv, NEW fl \in Flushers,
         NEW wm \in [Pairs -> Op], NEW ka, FlushableBuffer(fl, wm), StartFlush(fl, wm, ka)
  PROVE  /\ ContentInv'
         /\ \A p \in Pairs : Present(p)' <=> PresentUnder(wm, p)
<1>0. flush \in [Flushers -> FlushRecord]
  BY DEF TypeInv, TypeOK, FlushRecord
<1>1. CASE RunFlush(fl, wm, ka)
  BY <1>1, RunFlushContent
<1>2. CASE /\ flush' = [flush EXCEPT ![fl].pc = "waiting"]
           /\ write_map' = wm /\ UNCHANGED tree
  <2>1. /\ flush'[fl].pc = "waiting" /\ flush'[fl].todo = flush[fl].todo
        /\ \A g \in Flushers \ {fl} : flush'[g] = flush[g]
    BY <1>0, <1>2 DEF FlushRecord
  <2>2. flush[fl].todo = {}
    BY DEF FlushableBuffer, ExclusionInv, RecordsMatchPhase
  <2>3. CASE wm = write_map
    <3>1. ContentInv'
      BY <1>2, <2>1, <2>2, <2>3
         DEF ContentInv, TodoIsBuffered, BufferGone,
             PassedEntriesApplied, AloneInLoop, FlushableBuffer
    <3>2. QED
      BY <1>2, <2>1, <3>1 DEF Present, PresentUnder, Flushers
  <2>4. CASE \A g \in Flushers : flush[g].pc = "idle"
    <3>1. \A g \in Flushers : flush'[g].todo = {} /\ flush'[g].pc \in {"idle", "waiting"}
      BY <2>1, <2>4 DEF ExclusionInv, RecordsMatchPhase
    <3>2. ContentInv'
      BY <1>2, <3>1
         DEF ContentInv, TodoIsBuffered, BufferGone,
             PassedEntriesApplied
    <3>3. QED
      BY <1>2, <2>1, <3>2 DEF Present, PresentUnder, Flushers
  <2>5. QED
    BY <2>3, <2>4 DEF FlushableBuffer
<1>3. QED
  BY <1>1, <1>2 DEF StartFlush

(* While requests are permitted no flush is under way. *)
LEMMA QuietWhenIssuing ==
  ASSUME TypeInv, ExclusionInv, MayIssue
  PROVE  \A g \in Flushers : flush[g].pc = "idle"
BY DEF MayIssue, permit_operation, Open, ExclusionInv, RequestFlushGuarded,
       TypeInv, TypeOK, FlushPC, Flushers

LEMMA RecordContent ==
  ASSUME TypeInv, ExclusionInv, ContentInv, MayIssue,
         NEW wm \in [Pairs -> Op], NEW ka, Record(wm, ka)
  PROVE  /\ ContentInv'
         /\ \A p \in Pairs : Present(p)' <=> PresentUnder(wm, p)
<1>1. \A g \in Flushers : flush[g].pc = "idle" /\ flush[g].todo = {}
  BY QuietWhenIssuing DEF ExclusionInv, RecordsMatchPhase
<1>2. CASE StartFlush("request", wm, ka)
  BY <1>1, <1>2, StartFlushContent DEF FlushableBuffer, Flushers
<1>3. CASE write_map' = wm /\ UNCHANGED <<tree, is_during_flush, flush>>
  <2>1. ContentInv'
    BY <1>1, <1>3
       DEF ContentInv, TodoIsBuffered, BufferGone,
           PassedEntriesApplied
  <2>2. QED
    BY <1>3, <2>1 DEF Present, PresentUnder
<1>4. QED
  BY <1>2, <1>3 DEF Record

(* Steps that leave buffer, tree and flush records alone. *)
LEMMA ContentSame ==
  ASSUME ContentInv, UNCHANGED <<write_map, tree, flush>>
  PROVE  ContentInv' /\ Content' = Content
BY DEF ContentInv, TodoIsBuffered, BufferGone,
       PassedEntriesApplied, AloneInLoop, Content, Overlay

(* A flush that starts with the buffer as it is keeps the set. *)
LEMMA SetKept ==
  ASSUME \A p \in Pairs : Present(p)' <=> PresentUnder(write_map, p)
  PROVE  Content' = Content
BY ContentIsPresent DEF Present

(* One round of a flush's loop. *)
LEMMA ApplyContent ==
  ASSUME TypeInv, ExclusionInv, ContentInv, NEW fl \in Flushers, FlushApply(fl)
  PROVE  ContentInv' /\ Content' = Content
<1>0. /\ write_map \in [Pairs -> Op]
      /\ flush \in [Flushers -> FlushRecord]
      /\ tree \in SUBSET Pairs
  BY DEF TypeInv, TypeOK, FlushRecord
<1>1. PICK S \in SUBSET flush[fl].todo :
        /\ tree' = Applied(S)
        /\ flush' = [flush EXCEPT ![fl].todo = @ \ S]
  <2>1. PICK p \in flush[fl].todo :
          \/ tree' = Applied({p}) /\ Advance(fl, flush[fl].todo \ {p})
          \/ tree' = Applied(flush[fl].todo) /\ Advance(fl, {})
    BY DEF FlushApply
  <2>2. CASE tree' = Applied({p}) /\ Advance(fl, flush[fl].todo \ {p})
    BY <2>2 DEF Advance
  <2>3. CASE tree' = Applied(flush[fl].todo) /\ Advance(fl, {})
    BY <2>3 DEF Advance
  <2>4. QED
    BY <2>1, <2>2, <2>3
<1>2. write_map' = write_map /\ flush[fl].pc = "iterating"
  BY <1>0, FlushGoesOn DEF FlushRecord
<1>3. \A g \in Flushers :
        /\ flush'[g].pc = flush[g].pc
        /\ flush'[g].todo = IF g = fl THEN flush[g].todo \ S ELSE flush[g].todo
  BY <1>0, <1>1 DEF FlushRecord
<1>4. S \subseteq Entries(write_map)
  BY <1>1 DEF ContentInv, TodoIsBuffered
<1>5. \A q \in Pairs : q \in tree' <=> IF q \in S THEN write_map[q] = "INSERT" ELSE q \in tree
  BY <1>1 DEF Applied
<1>6. TodoIsBuffered'
  BY <1>2, <1>3 DEF ContentInv, TodoIsBuffered
<1>7. BufferGone'
  BY <1>2, <1>3 DEF ContentInv, BufferGone
<1>8. PassedEntriesApplied'
  <2> SUFFICES ASSUME NEW g \in Flushers, flush'[g].pc = "iterating", AloneInLoop(g)',
                      NEW q \in Entries(write_map'), q \notin flush'[g].todo
               PROVE  q \in tree' <=> write_map'[q] = "INSERT"
    BY DEF PassedEntriesApplied
  <2>1. g = fl /\ AloneInLoop(fl)
    BY <1>2, <1>3 DEF AloneInLoop
  <2>2. q \in Pairs /\ q \in Entries(write_map)
    BY <1>2 DEF Entries
  <2>3. CASE q \in S
    BY <1>2, <1>5, <2>2, <2>3
  <2>4. CASE q \notin S
    <3>1. q \notin flush[fl].todo
      BY <1>3, <2>1, <2>4
    <3>2. q \in tree <=> write_map[q] = "INSERT"
      BY <1>2, <2>1, <2>2, <3>1 DEF ContentInv, PassedEntriesApplied
    <3>3. QED
      BY <1>2, <1>5, <2>2, <2>4, <3>2
  <2>5. QED
    BY <2>3, <2>4
<1>9. \A q \in Pairs : Present(q)' <=> Present(q)
  BY <1>0, <1>2, <1>4, <1>5, EntriesOf DEF Present, PresentUnder
<1>10. QED
  BY <1>6, <1>7, <1>8, <1>9, ContentIsPresent DEF ContentInv

(* A loop that another one disturbs may lose pairs, and no invariant. *)
LEMMA DisturbedContent ==
  ASSUME TypeInv, ExclusionInv, ContentInv, NEW fl \in Flushers, FlushDisturbed(fl)
  PROVE  ContentInv' /\ ~Undisturbed
<1>0. flush \in [Flushers -> FlushRecord] /\ tree \in SUBSET Pairs
  BY DEF TypeInv, TypeOK, FlushRecord
<1>1. PICK rest \in SUBSET flush[fl].todo : flush' = [flush EXCEPT ![fl].todo = rest]
  BY <1>0, FlushGoesOn DEF FlushRecord
<1>2. write_map' = write_map /\ flush[fl].pc = "iterating"
  BY <1>0, FlushGoesOn DEF FlushRecord
<1>3. PICK h \in Flushers \ {fl} : flush[h].pc = "iterating"
  BY DEF FlushDisturbed
<1>4. \A g \in Flushers : /\ flush'[g].pc = flush[g].pc
                          /\ flush'[g].todo \subseteq flush[g].todo
  BY <1>0, <1>1 DEF FlushRecord
<1>5. \A g \in Flushers : ~AloneInLoop(g)'
  BY <1>2, <1>3, <1>4 DEF AloneInLoop
<1>6. ContentInv'
  BY <1>2, <1>4, <1>5 DEF ContentInv, TodoIsBuffered, BufferGone, PassedEntriesApplied
<1>7. QED
  BY <1>2, <1>3, <1>6 DEF Undisturbed, Open, Flushers

(* The loop of a flush is over. *)
LEMMA FinishContent ==
  ASSUME TypeInv, ExclusionInv, ContentInv, NEW fl \in Flushers, FlushFinish(fl)
  PROVE  ContentInv' /\ (Undisturbed => Content' = Content)
<1>0. /\ write_map \in [Pairs -> Op]
      /\ flush[fl].pc = "iterating" /\ flush[fl].todo = {}
      /\ tree' = tree
  BY DEF TypeInv, TypeOK, FlushFinish
<1>1. /\ write_map' = NoOps /\ flush'[fl] = AfterFlush(fl)
      /\ \A g \in Flushers \ {fl} :
           \/ flush[g].todo = {} /\ flush'[g] = flush[g]
           \/ /\ flush[g].todo # {} /\ flush'[g].pc = "dangling"
              /\ flush'[g].todo = {}
  BY ClearAndSetShape DEF FlushFinish
<1>2. /\ Entries(write_map') = {}
      /\ \A g \in Flushers : flush'[g].todo = {}
  BY <1>1, EntriesOf, FrameTypes, AfterFlushShape
<1>3. ContentInv'
  BY <1>2 DEF ContentInv, TodoIsBuffered, BufferGone, PassedEntriesApplied
<1>4. ASSUME Undisturbed PROVE Content' = Content
  <2>1. AloneInLoop(fl)
    <3>1. fl = "request" => flush["shutdown"].pc = "idle"
      BY <1>0, <1>4 DEF Undisturbed, Open
    <3>2. fl = "shutdown" => flush["request"].pc = "idle"
      BY <1>0, <1>4 DEF Undisturbed, Open
    <3>3. QED
      BY <3>1, <3>2 DEF AloneInLoop, Flushers
  <2>2. \A q \in Entries(write_map) : q \in tree <=> write_map[q] = "INSERT"
    BY <1>0, <2>1 DEF ContentInv, PassedEntriesApplied
  <2>3. \A q \in Pairs : write_map'[q] = "none"
    BY <1>1 DEF NoOps
  <2>4. \A q \in Pairs : Present(q)' <=> Present(q)
    BY <1>0, <2>2, <2>3, EntriesOf DEF Present, PresentUnder, Op
  <2>5. QED
    BY <2>4, ContentIsPresent
<1>5. QED
  BY <1>3, <1>4

(* What a step may do to the set. *)
ContentChange ==
  \/ ~Undisturbed
  \/ Content' = Content
  \/ \E p \in Pairs : MayInsert(p) /\ InsertAsync(p) /\ Content' = Content \cup {p}
  \/ \E p \in Pairs : RemoveAsync(p) /\ Content' = Content \ {p}

(* An insertion adds its pair. *)
LEMMA InsertContent ==
  ASSUME TypeInv, ExclusionInv, ContentInv, NEW p \in Pairs, MayInsert(p), InsertAsync(p)
  PROVE  ContentInv' /\ Content' = Content \cup {p}
<1> DEFINE wm == [write_map EXCEPT ![p] = "INSERT"]
<1>0. write_map \in [Pairs -> Op]
  BY DEF TypeInv, TypeOK
<1>1. wm \in [Pairs -> Op]
  BY <1>0 DEF Op
<1>2. ContentInv' /\ \A q \in Pairs : Present(q)' <=> PresentUnder(wm, q)
  <2>1. Record(wm, known_absent_keys \ {p[1]}) /\ MayIssue
    BY DEF InsertAsync, MayInsert
  <2>2. QED
    BY <1>1, <2>1, RecordContent
<1>3. \A q \in Pairs : PresentUnder(wm, q) <=> q = p \/ Present(q)
  BY <1>0 DEF Present, PresentUnder
<1>4. QED
  BY <1>2, <1>3, ContentIsPresent

(* A removal takes away its pair, or nothing: a pending insertion of a     *)
(* pair the tree holds is cancelled only.                                  *)
LEMMA RemoveContent ==
  ASSUME TypeInv, ExclusionInv, ContentInv, NEW p \in Pairs, MayIssue, RemoveAsync(p)
  PROVE  ContentInv' /\ (Content' = Content \ {p} \/ Content' = Content)
<1>0. write_map \in [Pairs -> Op]
  BY DEF TypeInv, TypeOK
<1>1. \A g \in Flushers : flush[g].pc = "idle" /\ flush[g].todo = {}
  BY QuietWhenIssuing DEF ExclusionInv, RecordsMatchPhase
<1>2. CASE RemoveRecord(p)
  <2> DEFINE wm == [write_map EXCEPT ![p] = "DELETE"]
  <2>1. wm \in [Pairs -> Op]
    BY <1>0 DEF Op
  <2>2. ContentInv' /\ \A q \in Pairs : Present(q)' <=> PresentUnder(wm, q)
    <3>1. Record(wm, known_absent_keys \ {p[1]})
      BY <1>2 DEF RemoveRecord
    <3>2. QED
      BY <2>1, <3>1, RecordContent
  <2>3. \A q \in Pairs : PresentUnder(wm, q) <=> q # p /\ Present(q)
    BY <1>0 DEF Present, PresentUnder
  <2>4. QED
    BY <2>2, <2>3, ContentIsPresent
<1>3. CASE RemoveAbsent(p)
  BY <1>3, ContentSame DEF RemoveAbsent
<1>4. CASE RemovePending(p)
  <2>1. /\ write_map' = [write_map EXCEPT ![p] = IF @ = "INSERT" THEN "none" ELSE @]
        /\ UNCHANGED <<tree, flush>>
    BY <1>4 DEF RemovePending
  <2>2. ContentInv'
    BY <1>1, <2>1
       DEF ContentInv, TodoIsBuffered, BufferGone,
           PassedEntriesApplied
  <2>3. /\ \A q \in Pairs \ {p} : Present(q)' <=> Present(q)
        /\ write_map[p] = "INSERT" => Present(p)
        /\ write_map[p] # "INSERT" => (Present(p)' <=> Present(p))
    BY <1>0, <2>1 DEF Present, PresentUnder
  <2>4. CASE write_map[p] = "INSERT" /\ ~Present(p)'
    <3>1. \A q \in Pairs : Present(q)' <=> q # p /\ Present(q)
      BY <2>3, <2>4
    <3>2. QED
      BY <2>2, <3>1, ContentIsPresent
  <2>5. CASE ~(write_map[p] = "INSERT" /\ ~Present(p)')
    <3>1. \A q \in Pairs : Present(q)' <=> Present(q)
      BY <2>3, <2>5
    <3>2. QED
      BY <2>2, <3>1, ContentIsPresent
  <2>6. QED
    BY <2>4, <2>5
<1>5. QED
  BY <1>2, <1>3, <1>4 DEF RemoveAsync

(* shutdown() and the process that opens the files after it. *)
LEMMA ShutdownContent ==
  ASSUME TypeInv, ExclusionInv, ContentInv, Shutdown \/ SyncFinish \/ Reopen
  PROVE  ContentInv' /\ (Undisturbed => Content' = Content)
<1>0. /\ write_map \in [Pairs -> Op]
      /\ flush \in [Flushers -> FlushRecord]
  BY DEF TypeInv, TypeOK, FlushRecord
<1>1. CASE Shutdown
  BY <1>0, <1>1, StartFlushContent, SetKept DEF Shutdown, FlushableBuffer, Flushers
<1>2. CASE SyncFinish
  <2>1. /\ flush["shutdown"].pc = "syncing" /\ flush'["shutdown"].pc = "closed"
        /\ flush'["shutdown"].todo = flush["shutdown"].todo
        /\ flush'["request"] = flush["request"]
        /\ UNCHANGED <<write_map, tree>>
    BY <1>0, <1>2 DEF SyncFinish, Flushers, FlushRecord
  <2>2. ContentInv'
    BY <2>1 DEF ContentInv, TodoIsBuffered, BufferGone,
                PassedEntriesApplied, AloneInLoop, Flushers
  <2>3. \A q \in Pairs : Present(q)' <=> Present(q)
    BY <2>1 DEF Present, PresentUnder
  <2>4. QED
    BY <2>2, <2>3, ContentIsPresent
<1>3. CASE Reopen
  <2>1. /\ write_map' = NoOps /\ UNCHANGED tree
        /\ \A g \in Flushers : flush'[g] = IdleFlush
    BY <1>3 DEF Reopen
  <2>2. \A g \in Flushers : /\ flush'[g].pc = "idle" /\ flush'[g].todo = {}
    BY <2>1 DEF IdleFlush
  <2>3. ContentInv'
    BY <2>1, <2>2 DEF ContentInv, TodoIsBuffered, BufferGone,
                      PassedEntriesApplied
  <2>4. ASSUME Undisturbed PROVE Content' = Content
    <3>1. flush["request"].pc = "idle" /\ flush["shutdown"].pc = "closed"
      BY <1>3, <2>4 DEF Reopen, Undisturbed, Open
    <3>2. Entries(write_map) = {}
      BY <3>1 DEF ContentInv, BufferGone, Flushers
    <3>3. \A q \in Pairs : write_map[q] = "none" /\ write_map'[q] = "none"
      BY <1>0, <2>1, <3>2, EntriesOf DEF NoOps
    <3>4. \A q \in Pairs : Present(q)' <=> Present(q)
      BY <2>1, <2>2, <3>2, <3>3 DEF Present, PresentUnder, Flushers
    <3>5. QED
      BY <3>4, ContentIsPresent
  <2>5. QED
    BY <2>3, <2>4
<1>4. QED
  BY <1>1, <1>2, <1>3

LEMMA ContentStep ==
  ASSUME TypeInv, ExclusionInv, ContentInv, [Next]_vars
  PROVE  ContentInv' /\ ContentChange
<1>0. write_map \in [Pairs -> Op]
  BY DEF TypeInv, TypeOK
<1>1. ASSUME NEW p \in Pairs, MayInsert(p), InsertAsync(p)
      PROVE  ContentInv' /\ ContentChange
  BY <1>1, InsertContent DEF ContentChange
<1>2. ASSUME NEW p \in Pairs, MayIssue, RemoveAsync(p)
      PROVE  ContentInv' /\ ContentChange
  BY <1>2, RemoveContent DEF ContentChange
<1>3. CASE MayIssue /\ FlushAsync
  <2>1. FlushableBuffer("request", write_map)
    BY <1>3, QuietWhenIssuing DEF FlushableBuffer, Flushers
  <2>2. QED
    BY <1>0, <1>3, <2>1, StartFlushContent, SetKept DEF FlushAsync, ContentChange, Flushers
<1>4. ASSUME NEW f \in Frames, FindReturn(f)
      PROVE  ContentInv' /\ ContentChange
  <2> DEFINE result == Overlay(find[f].ops, find[f].rows)
             ka == AbsentKeysAfter(find[f].lo, find[f].hi, find[f].ops, result)
  <2>1. CASE UNCHANGED <<write_map, tree, flush>>
    BY <2>1, ContentSame DEF ContentChange
  <2>2. ASSUME NEW fl \in Flushers, flush[fl].pc = "waiting", RunFlush(fl, write_map, ka)
        PROVE  ContentInv' /\ ContentChange
    BY <1>0, <2>2, RunFlushContent, SetKept DEF FlushableBuffer, ContentChange
  <2>3. QED
    BY <1>4, <2>1, <2>2 DEF FindReturn
<1>5. ASSUME NEW fl \in Flushers, FlushApply(fl) \/ FlushDisturbed(fl) \/ FlushFinish(fl)
      PROVE  ContentInv' /\ ContentChange
  BY <1>5, ApplyContent, DisturbedContent, FinishContent DEF ContentChange
<1>6. ASSUME NEW fl \in Flushers, FlushUndefined(fl)
      PROVE  ContentInv' /\ ContentChange
  <2>1. ~Undisturbed
    BY <1>6 DEF FlushUndefined, Undisturbed, Open, ExclusionInv, RequestFlushGuarded, Flushers
  <2>2. /\ flush[fl].pc = "dangling" /\ flush'[fl].pc = "undefined"
        /\ flush'[fl].todo = flush[fl].todo
        /\ \A g \in Flushers \ {fl} : flush'[g] = flush[g]
        /\ write_map' = write_map
    BY <1>6 DEF FlushUndefined, TypeInv, TypeOK
  <2>3. Entries(write_map) = {}
    BY <2>2 DEF ContentInv, BufferGone
  <2>4. ContentInv'
    BY <2>2, <2>3 DEF ContentInv, TodoIsBuffered, BufferGone,
                      PassedEntriesApplied, Flushers
  <2>5. QED
    BY <2>1, <2>4 DEF ContentChange
<1>7. CASE Shutdown \/ SyncFinish \/ Reopen
  BY <1>7, ShutdownContent DEF ContentChange
<1>8. ASSUME \/ \E f \in Frames, q \in Queries : FindBegin(f, q[1], q[2])
             \/ \E f \in Frames : FindRead(f) \/ Collect(f)
             \/ UNCHANGED vars
      PROVE  ContentInv' /\ ContentChange
  BY <1>8, ContentSame DEF FindBegin, FindRead, ReadLeaf, Collect, vars, ContentChange
<1>9. QED
  BY <1>1, <1>2, <1>3, <1>4, <1>5, <1>6, <1>7, <1>8 DEF Next, FindStep, FlushStep

LEMMA ContentInit == Init => ContentInv
BY EntriesOf, FrameTypes
   DEF Init, ContentInv, TodoIsBuffered, BufferGone,
       PassedEntriesApplied, Flushers, IdleFlush

IInv == TypeInv /\ ExclusionInv /\ ContentInv

(* Everything the proofs about the set need is inductive. *)
THEOREM IInvCorrect == Spec => []IInv
<1>1. Init => IInv
  BY TypeInit, ExclusionInit, ContentInit DEF IInv
<1>2. IInv /\ [Next]_vars => IInv'
  BY TypeStep, ExclusionStep, ContentStep DEF IInv
<1>3. QED
  BY <1>1, <1>2, PTL DEF Spec

(* A flush leaves nothing of its batch behind: the entries its loop has    *)
(* passed agree with the tree, as long as no other flush is in its loop.   *)
THEOREM BatchApplied == Spec => []PassedEntriesApplied
<1>1. IInv => PassedEntriesApplied
  BY DEF IInv, ContentInv
<1>2. QED
  BY <1>1, IInvCorrect, PTL

(* The set clients see changes only by their own requests: no flush,       *)
(* bulk load, lookup, shutdown between flushes or restart changes it.      *)
THEOREM ContentOnlyByRequest == Spec => ContentChangesByRequest
<1>1. IInv /\ [Next]_vars => [ContentChange]_vars
  BY ContentStep DEF IInv
<1>2. Spec => [][ContentChange]_vars
  BY <1>1, IInvCorrect, PTL DEF Spec
<1>3. QED
  <2>1. ContentChange =>
          \/ ~Undisturbed
          \/ Content' = Content
          \/ \E p \in Pairs : InsertAsync(p) /\ Content' = Content \cup {p}
          \/ \E p \in Pairs : RemoveAsync(p) /\ Content' = Content \ {p}
    BY DEF ContentChange
  <2>2. QED
    BY <1>2, <2>1, PTL DEF ContentChangesByRequest

-------------------------------------------------------------------------------
(***************************************************************************)
(* What the discipline of the clients buys them.                           *)
(***************************************************************************)

(* Only shutdown() closes the index. *)
LEMMA OpenKept ==
  ASSUME TypeInv, ExclusionInv, Open,
         \/ \E p \in Pairs : InsertAsync(p) \/ RemoveAsync(p)
         \/ FlushAsync
         \/ \E f \in Frames, q \in Queries : FindBegin(f, q[1], q[2])
         \/ \E f \in Frames : FindStep(f) \/ Collect(f)
         \/ \E fl \in Flushers : FlushStep(fl)
         \/ UNCHANGED vars
  PROVE  Open'
<1>0. /\ write_map \in [Pairs -> Op]
      /\ flush \in [Flushers -> FlushRecord]
      /\ flush["shutdown"].pc = "idle" /\ flush["shutdown"].todo = {}
  BY DEF TypeInv, TypeOK, FlushRecord, Open, ExclusionInv, RecordsMatchPhase, Flushers
<1>1. ASSUME flush'["shutdown"] = flush["shutdown"] PROVE Open'
  BY <1>0, <1>1 DEF Open
<1>2. ASSUME NEW r, ClearAndSet("request", r) PROVE Open'
  BY <1>0, <1>1, <1>2, ClearAndSetShape DEF Flushers
<1>3. ASSUME NEW wm, NEW ka, RunFlush("request", wm, ka) PROVE Open'
  BY <1>0, <1>1, <1>2, <1>3 DEF RunFlush, Flushers
<1>4. ASSUME NEW wm, NEW ka, StartFlush("request", wm, ka) PROVE Open'
  BY <1>0, <1>1, <1>3, <1>4 DEF StartFlush, Flushers
<1>5. ASSUME NEW wm, NEW ka, Record(wm, ka) PROVE Open'
  BY <1>1, <1>4, <1>5 DEF Record
<1>6. ASSUME NEW p \in Pairs, InsertAsync(p) \/ RemoveAsync(p) PROVE Open'
  BY <1>1, <1>5, <1>6 DEF InsertAsync, RemoveAsync, RemovePending, RemoveAbsent, RemoveRecord
<1>7. CASE FlushAsync
  BY <1>4, <1>7 DEF FlushAsync
<1>8. ASSUME NEW f \in Frames, FindReturn(f) PROVE Open'
  BY <1>0, <1>1, <1>3, <1>8 DEF FindReturn, Flushers
<1>9. ASSUME NEW fl \in Flushers, FlushStep(fl) PROVE Open'
  <2>1. fl = "request"
    BY <1>0, <1>9 DEF FlushStep, FlushApply, FlushDisturbed, FlushFinish, FlushUndefined, Flushers
  <2>2. CASE FlushApply(fl) \/ FlushDisturbed(fl)
    BY <1>0, <1>1, <2>1, <2>2 DEF FlushApply, FlushDisturbed, Advance, Flushers
  <2>3. CASE FlushFinish(fl)
    BY <1>2, <2>1, <2>3 DEF FlushFinish
  <2>4. CASE FlushUndefined(fl)
    BY <1>0, <1>1, <2>1, <2>4 DEF FlushUndefined, Flushers
  <2>5. QED
    BY <1>9, <2>2, <2>3, <2>4 DEF FlushStep
<1>10. ASSUME \/ \E f \in Frames, q \in Queries : FindBegin(f, q[1], q[2])
              \/ \E f \in Frames : FindRead(f) \/ Collect(f)
              \/ UNCHANGED vars
       PROVE  Open'
  BY <1>1, <1>10 DEF FindBegin, FindRead, ReadLeaf, Collect, vars
<1>11. QED
  BY <1>6, <1>7, <1>8, <1>9, <1>10 DEF FindStep

LEMMA OpenUntilShutdown ==
  ASSUME TypeInv, ExclusionInv, Open, [Next]_vars
  PROVE  Open' \/ (MayShutdown /\ Shutdown)
<1>1. ~SyncFinish /\ ~Reopen
  BY DEF SyncFinish, Reopen, Open
<1>2. QED
  BY <1>1, OpenKept DEF Next

(* Once shutdown() has begun with no flush running, it runs alone. *)
LEMMA QuietStep ==
  ASSUME TypeInv, ExclusionInv, QuietShutdown, Undisturbed, [Next]_vars
  PROVE  Undisturbed'
<1>0. /\ write_map \in [Pairs -> Op]
      /\ flush \in [Flushers -> FlushRecord]
  BY DEF TypeInv, TypeOK, FlushRecord
<1>1. CASE Open
  <2>1. CASE Open'
    BY <2>1 DEF Undisturbed
  <2>2. CASE MayShutdown /\ Shutdown
    <3>1. flush["request"].pc = "idle" /\ flush["request"].todo = {}
      <4>1. ~is_during_flush
        BY <2>2 DEF MayShutdown
      <4>2. flush["request"].pc = "idle"
        BY <1>0, <1>1, <4>1 DEF ExclusionInv, RequestFlushGuarded, Open, FlushRecord, FlushPC, Flushers
      <4>3. QED
        BY <4>2 DEF ExclusionInv, RecordsMatchPhase, Flushers
    <3>2. RunFlush("shutdown", write_map, known_absent_keys)
      BY <2>2, CounterZero DEF MayShutdown, Shutdown, StartFlush
    <3>3. flush'["request"] = flush["request"]
          /\ \/ flush'["shutdown"] = AfterFlush("shutdown")
             \/ flush'["shutdown"].pc = "iterating"
      BY <1>0, <3>1, <3>2, RunFlushShape DEF TypeInv, Flushers
    <3>4. QED
      BY <3>1, <3>3, AfterFlushShape DEF Undisturbed, Flushers
  <2>3. QED
    BY <1>1, <2>1, <2>2, OpenUntilShutdown
<1>2. CASE ~Open
  <2>1. /\ flush["request"].pc = "idle" /\ flush["request"].todo = {}
        /\ flush["shutdown"].pc \notin {"idle", "dangling", "undefined"}
    BY <1>2 DEF Undisturbed, Open, ExclusionInv, RecordsMatchPhase, Flushers
  <2>2. ASSUME UNCHANGED flush PROVE Undisturbed'
    BY <2>1, <2>2 DEF Undisturbed
  <2>3. ASSUME NEW fl \in Flushers, FlushStep(fl) PROVE Undisturbed'
    <3>1. fl = "shutdown" /\ ~FlushUndefined(fl)
      BY <2>1, <2>3 DEF FlushStep, FlushApply, FlushDisturbed, AtIterator, FlushFinish,
                        FlushUndefined, Flushers
    <3>2. CASE FlushApply(fl) \/ FlushDisturbed(fl)
      <4>1. PICK rest : flush' = [flush EXCEPT ![fl].todo = rest]
        BY <3>2 DEF FlushApply, FlushDisturbed, Advance
      <4>2. \A g \in Flushers : flush'[g].pc = flush[g].pc
        BY <1>0, <4>1 DEF FlushRecord
      <4>3. QED
        BY <2>1, <4>2 DEF Undisturbed, Flushers
    <3>3. CASE FlushFinish(fl)
      <4>1. flush'["shutdown"] = AfterFlush("shutdown") /\ flush'["request"] = flush["request"]
        BY <2>1, <3>1, <3>3, ClearAndSetShape DEF FlushFinish, Flushers
      <4>2. QED
        BY <2>1, <4>1, AfterFlushShape DEF Undisturbed, Flushers
    <3>4. QED
      BY <2>3, <3>1, <3>2, <3>3 DEF FlushStep
  <2>4. CASE SyncFinish
    BY <1>0, <2>1, <2>4 DEF SyncFinish, Undisturbed, Flushers
  <2>5. CASE Reopen
    BY <2>5 DEF Reopen, Undisturbed, Open, Flushers, IdleFlush
  <2>6. \A f \in Frames : ~FindReturn(f)
    BY <1>2 DEF FindReturn, ExclusionInv, ShutdownComesLast
  <2>7. ~Shutdown /\ ~MayIssue /\ \A p \in Pairs : ~MayInsert(p)
    BY <1>2 DEF Shutdown, MayIssue, MayInsert, Open
  <2>8. ASSUME (\E f \in Frames : FindRead(f) \/ Collect(f)) \/ UNCHANGED vars
        PROVE  Undisturbed'
    BY <2>2, <2>8 DEF FindRead, ReadLeaf, Collect, vars
  <2>9. QED
    BY <2>3, <2>4, <2>5, <2>6, <2>7, <2>8 DEF Next, FindStep
<1>3. QED
  BY <1>1, <1>2

(* Clients that shut down between flushes only never lose a flush to the   *)
(* shutdown, so every step of theirs is one ContentChangesByRequest is     *)
(* about.                                                                  *)
THEOREM QuietShutdownUndisturbed ==
  ASSUME QuietShutdown
  PROVE  Spec => []Undisturbed
<1>1. Init => Undisturbed
  BY DEF Init, Undisturbed, Open, IdleFlush, Flushers
<1>2. IInv /\ Undisturbed /\ [Next]_vars => Undisturbed'
  BY QuietStep DEF IInv
<1>3. QED
  BY <1>1, <1>2, IInvCorrect, PTL DEF Spec

(***************************************************************************)
(* Keys remembered as absent.                                              *)
(***************************************************************************)

(* A lookup of all values of a key covers every pair of the key: the pairs *)
(* keep clear of the end of the range, which find_all_async leaves out.    *)
ValuesInRange == \A p \in Pairs : val_min <= p[2] /\ p[2] < val_max

(* A lookup in flight will answer with every pair of its range that is in  *)
(* the set now, not only when it was issued.                               *)
SnapshotCovers ==
  \A f \in Frames : Reading(f) =>
    \A p \in Content : InRange(p, find[f].lo, find[f].hi) => p \in Answer(f)

LEMMA SnapshotStep ==
  ASSUME IInv, SettledLookups, SnapshotCovers, [Next]_vars
  PROVE  SnapshotCovers'
<1> SUFFICES ASSUME NEW f \in Frames, Reading(f)',
                    NEW p \in Content', InRange(p, find'[f].lo, find'[f].hi)
             PROVE  p \in Answer(f)'
  BY DEF SnapshotCovers
<1>0. find \in [Frames -> Frame] /\ p \in Pairs
  BY ContentIsPresent DEF IInv, TypeInv, TypeOK
<1>1. CASE Reading(f)
  <2>1. find'[f].lo = find[f].lo /\ find'[f].hi = find[f].hi
    <3>1. ASSUME FindRead(f)
          PROVE  find'[f].lo = find[f].lo /\ find'[f].hi = find[f].hi
      <4>1. PICK leaf : find' = [find EXCEPT ![f].unread = @ \ leaf,
                                            ![f].rows = @ \cup (tree \cap leaf)]
        BY <3>1 DEF FindRead, ReadLeaf
      <4>2. QED
        BY <1>0, <4>1 DEF Frame
    <3>2. ~FindReturn(f) /\ find'[f].pc # "free"
      BY <1>0 DEF FindReturn, Reading, Done, FreeFrame
    <3>3. \A q \in Queries : ~FindBegin(f, q[1], q[2])
      BY <1>1 DEF FindBegin, Reading
    <3>4. QED
      BY <3>1, <3>2, <3>3, LookupStep DEF IInv
  <2>2. Answer(f)' = Answer(f)
    BY <1>1, AnswerStep DEF IInv, AnswerAsOfIssue, Reading
  <2>3. p \in Content
    <3>1. Open /\ Undisturbed
      BY <1>1 DEF IInv, ExclusionInv, ShutdownComesLast, Undisturbed
    <3>2. ASSUME NEW q \in Pairs, MayInsert(q)
          PROVE  ~InRange(q, find[f].lo, find[f].hi)
      BY <1>1, <3>2 DEF MayInsert
    <3>3. QED
      BY <2>1, <3>1, <3>2, ContentStep DEF ContentChange, IInv
  <2>4. QED
    BY <1>1, <2>1, <2>2, <2>3 DEF SnapshotCovers
<1>2. CASE ~Reading(f)
  <2>1. PICK q \in Queries : FindBegin(f, q[1], q[2])
    <3>1. find'[f] # find[f] /\ ~FindRead(f) /\ ~FindReturn(f) /\ find'[f].pc # "free"
      BY <1>2 DEF FindRead, FindReturn, Reading
    <3>2. QED
      BY <3>1, LookupStep DEF IInv
  <2>2. Content' = Content
    BY <2>1, ContentSame DEF FindBegin, IInv
  <2>3. find[f].pc = "free"
    BY <2>1 DEF FindBegin
  <2>4. find'[f].pc # "free"
    BY DEF Reading
  <2>5. Answer(f)' = {r \in Content : InRange(r, find'[f].lo, find'[f].hi)}
    BY <2>3, <2>4, AnswerStep DEF IInv, AnswerAsOfIssue
  <2>6. QED
    BY <2>2, <2>5
<1>3. QED
  BY <1>1, <1>2

(* A flush may clear the absent keys, and adds none to them. *)
LEMMA FlushForgetsAbsence ==
  ASSUME NEW fl, NEW wm, NEW ka, RunFlush(fl, wm, ka) \/ StartFlush(fl, wm, ka)
  PROVE  known_absent_keys' \subseteq ka
BY DEF RunFlush, StartFlush

(* Only the end of a lookup adds a key to the absent ones. *)
LEMMA AbsenceStep ==
  ASSUME [Next]_vars
  PROVE  \/ known_absent_keys' \subseteq known_absent_keys
         \/ \E f \in Frames : FindReturn(f)
         \/ \E f \in Frames, q \in Queries : FindBegin(f, q[1], q[2])
<1>1. ASSUME NEW wm, NEW ka, ka \subseteq known_absent_keys, Record(wm, ka)
      PROVE  known_absent_keys' \subseteq known_absent_keys
  BY <1>1, FlushForgetsAbsence DEF Record
<1>2. ASSUME NEW p \in Pairs, InsertAsync(p) \/ RemoveAsync(p)
      PROVE  known_absent_keys' \subseteq known_absent_keys
  BY <1>1, <1>2 DEF InsertAsync, RemoveAsync, RemovePending, RemoveAbsent, RemoveRecord
<1>3. CASE FlushAsync \/ Shutdown
  BY <1>3, FlushForgetsAbsence DEF FlushAsync, Shutdown
<1>4. ASSUME \/ \E f \in Frames : FindRead(f) \/ Collect(f)
             \/ \E fl \in Flushers : FlushStep(fl)
             \/ SyncFinish \/ Reopen \/ UNCHANGED vars
      PROVE  known_absent_keys' \subseteq known_absent_keys
  BY <1>4 DEF FindRead, ReadLeaf, Collect, FlushStep, FlushApply, FlushDisturbed, Advance,
              FlushFinish, FlushUndefined, SyncFinish, Reopen, vars
<1>5. QED
  BY <1>2, <1>3, <1>4 DEF Next, FindStep

(* A lookup that ends adds its key only if the set has no pair of it. *)
LEMMA ReturnAbsence ==
  ASSUME IInv, ValuesInRange, SnapshotCovers, NEW f \in Frames, FindReturn(f),
         NEW p \in Content, p[1] \in known_absent_keys'
  PROVE  p[1] \in known_absent_keys
<1> DEFINE result == Overlay(find[f].ops, find[f].rows)
           ka == AbsentKeysAfter(find[f].lo, find[f].hi, find[f].ops, result)
<1>0. /\ find[f] \in Frame
      /\ p \in Pairs /\ p[1] \in Int /\ p[2] \in Int
      /\ val_min \in Int /\ val_max \in Int
  BY ConstantsAssumption, ContentIsPresent DEF IInv, TypeInv, TypeOK
<1>1. known_absent_keys' \subseteq ka
  BY FlushForgetsAbsence DEF FindReturn
<1>2. Reading(f) /\ find[f].unread = {} /\ Answer(f) = result
  BY DEF FindReturn, Answer, Overlay
<1> SUFFICES ASSUME p[1] \notin known_absent_keys PROVE FALSE
  OBVIOUS
<1>3. /\ IsFullKeyRange(find[f].lo, find[f].hi) /\ result = {}
      /\ p[1] = find[f].lo[1]
  BY <1>1 DEF AbsentKeysAfter
<1>4. InRange(p, find[f].lo, find[f].hi)
  BY <1>0, <1>3 DEF InRange, Less, IsFullKeyRange, ValuesInRange, Frame
<1>5. p \in result
  BY <1>2, <1>4 DEF SnapshotCovers
<1>6. QED
  BY <1>3, <1>5

(* So does one that finds the tree empty and is over at once. *)
LEMMA BeginAbsence ==
  ASSUME IInv, ValuesInRange, NEW f \in Frames, NEW q \in Queries, FindBegin(f, q[1], q[2]),
         NEW p \in Content, p[1] \in known_absent_keys'
  PROVE  p[1] \in known_absent_keys
<1> DEFINE ops == [r \in Pairs |-> IF InRange(r, q[1], q[2]) THEN write_map[r] ELSE "none"]
           result == Overlay(ops, {})
<1>0. /\ p \in Pairs /\ p[1] \in Int /\ p[2] \in Int
      /\ val_min \in Int /\ val_max \in Int
      /\ q[1] \in Int \X Int /\ q[2] \in Int \X Int
  BY ConstantsAssumption, ContentIsPresent DEF Queries, Keys
<1> SUFFICES ASSUME p[1] \notin known_absent_keys PROVE FALSE
  OBVIOUS
<1>1. tree = {} /\ known_absent_keys' = AbsentKeysAfter(q[1], q[2], ops, result)
  BY DEF FindBegin
<1>2. IsFullKeyRange(q[1], q[2]) /\ result = {} /\ p[1] = q[1][1]
  BY <1>1 DEF AbsentKeysAfter
<1>3. InRange(p, q[1], q[2])
  BY <1>0, <1>2 DEF InRange, Less, IsFullKeyRange, ValuesInRange
<1>4. write_map[p] = "INSERT"
  BY <1>1 DEF Content, Overlay
<1>5. p \in result
  BY <1>0, <1>3, <1>4 DEF Overlay
<1>6. QED
  BY <1>2, <1>5

LEMMA AbsentStep ==
  ASSUME IInv, Undisturbed, ValuesInRange, SnapshotCovers, AbsentKeysAreAbsent, [Next]_vars
  PROVE  AbsentKeysAreAbsent'
<1> SUFFICES ASSUME NEW p \in Content', p[1] \in known_absent_keys'
             PROVE  FALSE
  BY DEF AbsentKeysAreAbsent
<1>1. \A f \in Frames : ~(FindReturn(f) /\ p \in Content)
  BY ReturnAbsence DEF AbsentKeysAreAbsent
<1>a. \A f \in Frames, q \in Queries : ~(FindBegin(f, q[1], q[2]) /\ p \in Content)
  BY BeginAbsence DEF AbsentKeysAreAbsent
<1>2. CASE p \in Content
  BY <1>1, <1>a, <1>2, AbsenceStep DEF AbsentKeysAreAbsent
<1>3. CASE p \notin Content
  <2>1. InsertAsync(p)
    BY <1>3, ContentStep, ContentIsPresent DEF ContentChange, IInv
  <2>2. PICK wm : Record(wm, known_absent_keys \ {p[1]})
    BY <2>1 DEF InsertAsync
  <2>3. known_absent_keys' \subseteq known_absent_keys \ {p[1]}
    BY <2>2, FlushForgetsAbsence DEF Record
  <2>4. QED
    BY <2>3
<1>4. QED
  BY <1>2, <1>3

(* remove_async may drop a removal of a key remembered as absent: the set  *)
(* has no pair of it, if clients insert nothing a lookup in flight covers  *)
(* and shut down between flushes.                                          *)
THEOREM AbsenceCorrect ==
  ASSUME SettledLookups, QuietShutdown, ValuesInRange
  PROVE  Spec => []AbsentKeysAreAbsent
<1>1. Init => SnapshotCovers /\ AbsentKeysAreAbsent
  BY DEF Init, SnapshotCovers, AbsentKeysAreAbsent, Reading, FreeFrame
<1>2. IInv /\ SnapshotCovers /\ [Next]_vars => SnapshotCovers'
  BY SnapshotStep
<1>3. IInv /\ Undisturbed /\ SnapshotCovers /\ AbsentKeysAreAbsent /\ [Next]_vars
        => AbsentKeysAreAbsent'
  BY AbsentStep
<1>4. Spec => []Undisturbed
  BY QuietShutdownUndisturbed
<1>5. QED
  BY <1>1, <1>2, <1>3, <1>4, IInvCorrect, PTL DEF Spec

(***************************************************************************)
(* Pending insertions.                                                     *)
(***************************************************************************)

(* A pair the tree holds has been put there by a flush that passed it. *)
Passed(p) == \E fl \in Flushers : flush[fl].pc = "iterating" /\ p \notin flush[fl].todo

(* A flush that starts or is resumed puts nothing into the tree that is    *)
(* still pending.                                                          *)
LEMMA PendingRun ==
  ASSUME TypeInv, ExclusionInv, NEW fl \in Flushers, flush[fl].pc \in {"idle", "waiting"},
         NEW wm \in [Pairs -> Op], NEW ka,
         \A p \in InsertsIn(wm) : p \in tree => Passed(p),
         RunFlush(fl, wm, ka) \/ StartFlush(fl, wm, ka)
  PROVE  PendingInsertIsNew'
<1>0. flush \in [Flushers -> FlushRecord]
  BY DEF TypeInv, TypeOK, FlushRecord
<1>1. CASE write_map' = NoOps
  BY <1>1 DEF PendingInsertIsNew, InsertsIn, NoOps
<1>2. ASSUME write_map' = wm, tree' = tree,
             NEW r, flush' = [flush EXCEPT ![fl] = r]
      PROVE  PendingInsertIsNew'
  <2>1. \A g \in Flushers \ {fl} : flush'[g] = flush[g]
    BY <1>0, <1>2
  <2>2. QED
    BY <1>2, <2>1 DEF PendingInsertIsNew, Passed, InsertsIn
<1>3. ASSUME NEW r, ClearAndSet(fl, r) PROVE PendingInsertIsNew'
  BY <1>1, <1>3 DEF ClearAndSet
<1>4. CASE RunFlush(fl, wm, ka)
  BY <1>2, <1>3, <1>4 DEF RunFlush
<1>5. CASE StartFlush(fl, wm, ka)
  BY <1>2, <1>4, <1>5 DEF StartFlush
<1>6. QED
  BY <1>4, <1>5

LEMMA PendingRecord ==
  ASSUME TypeInv, ExclusionInv, MayIssue, NEW wm \in [Pairs -> Op], NEW ka,
         \A p \in InsertsIn(wm) : p \in tree => Passed(p), Record(wm, ka)
  PROVE  PendingInsertIsNew'
<1>1. CASE StartFlush("request", wm, ka)
  BY <1>1, PendingRun, QuietWhenIssuing DEF Flushers
<1>2. CASE write_map' = wm /\ UNCHANGED <<tree, flush>>
  BY <1>2 DEF PendingInsertIsNew, Passed, InsertsIn
<1>3. QED
  BY <1>1, <1>2 DEF Record

(* A loop puts into the tree only pairs it passes. *)
LEMMA PassedMeanwhile ==
  ASSUME NEW fl \in Flushers, flush \in [Flushers -> FlushRecord],
         FlushApply(fl) \/ FlushDisturbed(fl)
  PROVE  \E S \in SUBSET flush[fl].todo :
           /\ tree' \subseteq tree \cup S
           /\ flush' = [flush EXCEPT ![fl].todo = @ \ S]
<1>1. CASE FlushApply(fl)
  <2>1. PICK p \in flush[fl].todo :
          \/ tree' = Applied({p}) /\ Advance(fl, flush[fl].todo \ {p})
          \/ tree' = Applied(flush[fl].todo) /\ Advance(fl, {})
    BY <1>1 DEF FlushApply
  <2>2. CASE tree' = Applied({p}) /\ Advance(fl, flush[fl].todo \ {p})
    BY <2>2 DEF Advance, Applied
  <2>3. CASE tree' = Applied(flush[fl].todo) /\ Advance(fl, {})
    <3>1. flush[fl].todo \ flush[fl].todo = {}
      OBVIOUS
    <3>2. flush' = [flush EXCEPT ![fl].todo = @ \ flush[fl].todo]
      BY <2>3, <3>1 DEF Advance
    <3>3. tree' \subseteq tree \cup flush[fl].todo
      BY <2>3 DEF Applied
    <3>4. QED
      BY <3>2, <3>3
  <2>4. QED
    BY <2>1, <2>2, <2>3
<1>2. CASE FlushDisturbed(fl)
  <2>1. PICK p \in flush[fl].todo :
          /\ tree' \in SUBSET (tree \cup {p})
          /\ Advance(fl, flush[fl].todo \ {p})
    BY <1>2 DEF FlushDisturbed
  <2>2. QED
    BY <2>1 DEF Advance
<1>3. QED
  BY <1>1, <1>2

LEMMA PendingStep ==
  ASSUME IInv, FreshInserts, PendingInsertIsNew, [Next]_vars
  PROVE  PendingInsertIsNew'
<1>0. /\ write_map \in [Pairs -> Op]
      /\ flush \in [Flushers -> FlushRecord]
      /\ \A p \in InsertsIn(write_map) : p \in tree => Passed(p)
  BY DEF IInv, TypeInv, TypeOK, FlushRecord, PendingInsertIsNew, Passed
<1>1. ASSUME UNCHANGED <<write_map, tree, flush>> PROVE PendingInsertIsNew'
  BY <1>1 DEF PendingInsertIsNew, InsertsIn
<1>2. ASSUME write_map' = NoOps PROVE PendingInsertIsNew'
  BY <1>2 DEF PendingInsertIsNew, InsertsIn, NoOps
<1>3. ASSUME NEW p \in Pairs, MayInsert(p), InsertAsync(p)
      PROVE  PendingInsertIsNew'
  <2> DEFINE wm == [write_map EXCEPT ![p] = "INSERT"]
  <2>1. wm \in [Pairs -> Op]
    BY <1>0 DEF Op
  <2>2. p \notin tree /\ MayIssue
    BY <1>3 DEF MayInsert
  <2>3. \A q \in InsertsIn(wm) : q \in tree => Passed(q)
    BY <1>0, <2>2 DEF InsertsIn
  <2>4. Record(wm, known_absent_keys \ {p[1]})
    BY <1>3 DEF InsertAsync
  <2>5. QED
    BY <2>1, <2>2, <2>3, <2>4, PendingRecord DEF IInv
<1>4. ASSUME NEW p \in Pairs, MayIssue, RemoveAsync(p)
      PROVE  PendingInsertIsNew'
  <2>1. CASE RemoveRecord(p)
    <3> DEFINE wm == [write_map EXCEPT ![p] = "DELETE"]
    <3>1. wm \in [Pairs -> Op]
      BY <1>0 DEF Op
    <3>2. \A q \in InsertsIn(wm) : q \in tree => Passed(q)
      BY <1>0 DEF InsertsIn
    <3>3. Record(wm, known_absent_keys \ {p[1]})
      BY <2>1 DEF RemoveRecord
    <3>4. QED
      BY <1>4, <3>1, <3>2, <3>3, PendingRecord DEF IInv
  <2>2. CASE RemovePending(p)
    <3>1. /\ write_map' = [write_map EXCEPT ![p] = IF @ = "INSERT" THEN "none" ELSE @]
          /\ UNCHANGED <<tree, flush>>
      BY <2>2 DEF RemovePending
    <3>2. QED
      BY <1>0, <3>1 DEF PendingInsertIsNew, Passed, InsertsIn
  <2>3. CASE RemoveAbsent(p)
    BY <1>1, <2>3 DEF RemoveAbsent
  <2>4. QED
    BY <1>4, <2>1, <2>2, <2>3 DEF RemoveAsync
<1>5. CASE MayIssue /\ FlushAsync
  BY <1>0, <1>5, PendingRun, QuietWhenIssuing DEF FlushAsync, IInv, Flushers
<1>6. ASSUME NEW f \in Frames, FindReturn(f)
      PROVE  PendingInsertIsNew'
  BY <1>0, <1>1, <1>6, PendingRun DEF FindReturn, IInv
<1>7. ASSUME NEW fl \in Flushers, FlushApply(fl) \/ FlushDisturbed(fl)
      PROVE  PendingInsertIsNew'
  <2>1. PICK S \in SUBSET flush[fl].todo :
          /\ tree' \subseteq tree \cup S
          /\ flush' = [flush EXCEPT ![fl].todo = @ \ S]
    BY <1>0, <1>7, PassedMeanwhile
  <2>2. flush[fl].pc = "iterating" /\ write_map' = write_map
    BY <1>7, FlushGoesOn DEF IInv, TypeInv, TypeOK
  <2>3. \A g \in Flushers :
          /\ flush'[g].pc = flush[g].pc
          /\ flush'[g].todo = IF g = fl THEN flush[g].todo \ S ELSE flush[g].todo
    BY <1>0, <2>1 DEF FlushRecord
  <2>4. \A q \in S : Passed(q)'
    BY <2>2, <2>3 DEF Passed
  <2>5. \A q \in Pairs : Passed(q) => Passed(q)'
    BY <2>3 DEF Passed
  <2>6. \A q \in InsertsIn(write_map) : q \in tree' => Passed(q)'
    BY <1>0, <2>1, <2>4, <2>5 DEF InsertsIn
  <2>7. QED
    BY <2>2, <2>6 DEF PendingInsertIsNew, Passed, InsertsIn
<1>8. ASSUME NEW fl \in Flushers, FlushFinish(fl)
      PROVE  PendingInsertIsNew'
  BY <1>2, <1>8 DEF FlushFinish, ClearAndSet
<1>9. ASSUME NEW fl \in Flushers, FlushUndefined(fl)
      PROVE  PendingInsertIsNew'
  <2>1. Entries(write_map) = {} /\ write_map' = write_map
    BY <1>9 DEF FlushUndefined, IInv, ContentInv, BufferGone
  <2>2. QED
    BY <2>1 DEF PendingInsertIsNew, InsertsIn, Entries
<1>10. CASE Shutdown
  BY <1>0, <1>10, PendingRun DEF Shutdown, IInv, Flushers
<1>11. CASE SyncFinish
  <2>1. /\ UNCHANGED <<write_map, tree>>
        /\ \A g \in Flushers : flush[g].pc = "iterating" => flush'[g] = flush[g]
    BY <1>0, <1>11 DEF SyncFinish, Flushers
  <2>2. QED
    BY <1>0, <2>1 DEF PendingInsertIsNew, Passed, InsertsIn
<1>12. CASE Reopen
  BY <1>2, <1>12 DEF Reopen
<1>13. ASSUME \/ \E f \in Frames, q \in Queries : FindBegin(f, q[1], q[2])
              \/ \E f \in Frames : FindRead(f) \/ Collect(f)
              \/ UNCHANGED vars
       PROVE  PendingInsertIsNew'
  BY <1>1, <1>13 DEF FindBegin, FindRead, ReadLeaf, Collect, vars
<1>14. QED
  BY <1>3, <1>4, <1>5, <1>6, <1>7, <1>8, <1>9, <1>10, <1>11, <1>12, <1>13
     DEF Next, FindStep, FlushStep

(* remove_async may cancel a pending insertion by forgetting it: the tree  *)
(* does not hold its pair, if clients insert only pairs the tree does not  *)
(* hold; whatever they do otherwise.                                       *)
THEOREM PendingInsertsNew ==
  ASSUME FreshInserts
  PROVE  Spec => []PendingInsertIsNew
<1>1. Init => PendingInsertIsNew
  BY DEF Init, PendingInsertIsNew, InsertsIn, NoOps
<1>2. IInv /\ PendingInsertIsNew /\ [Next]_vars => PendingInsertIsNew'
  BY PendingStep
<1>3. QED
  BY <1>1, <1>2, IInvCorrect, PTL DEF Spec

(* With both, a removal takes exactly its pair out of the set. *)
LEMMA RemoveExact ==
  ASSUME IInv, AbsentKeysAreAbsent, PendingInsertIsNew,
         NEW p \in Pairs, MayIssue, RemoveAsync(p)
  PROVE  Content' = Content \ {p}
<1>0. write_map \in [Pairs -> Op]
  BY DEF IInv, TypeInv, TypeOK
<1>1. \A g \in Flushers : flush[g].pc = "idle"
  BY QuietWhenIssuing DEF IInv
<1>2. CASE RemoveRecord(p)
  <2> DEFINE wm == [write_map EXCEPT ![p] = "DELETE"]
  <2>1. wm \in [Pairs -> Op]
    BY <1>0 DEF Op
  <2>2. \A q \in Pairs : Present(q)' <=> PresentUnder(wm, q)
    <3>1. Record(wm, known_absent_keys \ {p[1]})
      BY <1>2 DEF RemoveRecord
    <3>2. QED
      BY <2>1, <3>1, RecordContent DEF IInv
  <2>3. \A q \in Pairs : PresentUnder(wm, q) <=> q # p /\ Present(q)
    BY <1>0 DEF Present, PresentUnder
  <2>4. QED
    BY <2>2, <2>3, ContentIsPresent
<1>3. CASE RemoveAbsent(p)
  <2>1. Content' = Content
    BY <1>3, ContentSame DEF RemoveAbsent, IInv
  <2>2. p \notin Content
    BY <1>3 DEF RemoveAbsent, AbsentKeysAreAbsent
  <2>3. QED
    BY <2>1, <2>2
<1>4. CASE RemovePending(p)
  <2>1. /\ write_map[p] # "none"
        /\ write_map' = [write_map EXCEPT ![p] = IF @ = "INSERT" THEN "none" ELSE @]
        /\ UNCHANGED <<tree, flush>>
    BY <1>4 DEF RemovePending
  <2>2. write_map[p] = "INSERT" => p \notin tree
    BY <1>1 DEF PendingInsertIsNew, InsertsIn
  <2>3. ~Present(p)'
    BY <1>0, <1>1, <2>1, <2>2 DEF Present, PresentUnder, Flushers, Op
  <2>4. \A q \in Pairs \ {p} : Present(q)' <=> Present(q)
    BY <1>0, <2>1 DEF Present, PresentUnder
  <2>5. \A q \in Pairs : Present(q)' <=> q # p /\ Present(q)
    BY <2>3, <2>4
  <2>6. QED
    BY <2>5, ContentIsPresent
<1>5. QED
  BY <1>2, <1>3, <1>4 DEF RemoveAsync
==============================================================================
