---------------------------- MODULE MainLoop_proofs ----------------------------
(***************************************************************************)
(* The main loop is a client of AsyncBPT, and the program it makes of the  *)
(* index is the reference store.                                           *)
(***************************************************************************)
EXTENDS MainLoop, AsyncBPT_proofs

(* The queue of lookups to print holds each of its frames once, none of    *)
(* them freed yet, and is empty when shutdown() begins.                    *)
LoopInv ==
  /\ pending_find_tasks \in Seq(Frames)
  /\ \A i \in 1 .. Len(pending_find_tasks) : find[pending_find_tasks[i]].pc # "free"
  /\ \A i, j \in 1 .. Len(pending_find_tasks) :
       pending_find_tasks[i] = pending_find_tasks[j] => i = j
  /\ ~Open => pending_find_tasks = <<>>

(* Steps that leave the queue alone keep it if they free no frame. *)
LEMMA QueueKept ==
  ASSUME LoopInv, pending_find_tasks' = pending_find_tasks,
         \A f \in Frames : find[f].pc # "free" => find'[f].pc # "free",
         Open => Open' \/ pending_find_tasks = <<>>
  PROVE  LoopInv'
<1>1. \A i \in 1 .. Len(pending_find_tasks) : pending_find_tasks[i] \in Frames
  BY DEF LoopInv
<1>2. QED
  BY <1>1 DEF LoopInv

(* The coroutines Poll resumes free no frame. *)
LEMMA PollKeepsFrames ==
  ASSUME TypeInv, Poll
  PROVE  \A f \in Frames : find[f].pc # "free" => find'[f].pc # "free"
<1>0. find \in [Frames -> Frame]
  BY DEF TypeInv, TypeOK
<1>1. ASSUME NEW g \in Frames, FindRead(g)
      PROVE  \A f \in Frames : find'[f].pc = find[f].pc
  <2>1. PICK leaf : find' = [find EXCEPT ![g].unread = @ \ leaf,
                                        ![g].rows = @ \cup (tree \cap leaf)]
    BY <1>1 DEF FindRead, ReadLeaf
  <2>2. QED
    BY <1>0, <2>1 DEF Frame
<1>2. ASSUME NEW g \in Frames, FindReturn(g)
      PROVE  \A f \in Frames : find[f].pc # "free" => find'[f].pc # "free"
  <2>1. find'[g].pc = "done" /\ \A f \in Frames \ {g} : find'[f] = find[f]
    BY <1>0, <1>2 DEF FindReturn, Done, FreeFrame
  <2>2. QED
    BY <2>1
<1>3. ASSUME (\E fl \in Flushers : FlushStep(fl)) \/ SyncFinish
      PROVE  find' = find
  BY <1>3 DEF FlushStep, FlushApply, FlushDisturbed, Advance, FlushFinish, FlushUndefined, SyncFinish
<1>4. QED
  BY <1>1, <1>2, <1>3 DEF Poll, FindStep

(* Every step of the loop is a step of a client, or of the index.          *)
LEMMA LoopStepIsStep ==
  ASSUME LoopInv, [LoopNext]_allVars
  PROVE  [Next]_vars
<1>1. ASSUME NEW p \in Pairs, IssueInsert(p) \/ IssueDelete(p) PROVE Next
  BY <1>1 DEF IssueInsert, IssueDelete, TakeRequest, Next
<1>2. ASSUME NEW f \in Frames, NEW k \in Keys, IssueFind(f, k) PROVE Next
  <2> DEFINE q == << <<k, val_min>>, <<k, val_max>> >>
  <2>1. q \in Queries /\ q[1] = <<k, val_min>> /\ q[2] = <<k, val_max>>
    BY DEF Queries
  <2>2. MayIssue /\ FindBegin(f, q[1], q[2])
    BY <1>2, <2>1 DEF IssueFind, TakeRequest
  <2>3. QED
    BY <2>1, <2>2 DEF Next
<1>3. CASE PrintFront
  <2>1. Head(pending_find_tasks) \in Frames /\ Collect(Head(pending_find_tasks))
    BY <1>3 DEF PrintFront, LoopInv
  <2>2. QED
    BY <2>1 DEF Next
<1>4. CASE Poll
  BY <1>4 DEF Poll, Next
<1>5. CASE LoopExit \/ RunAgain
  BY <1>5 DEF LoopExit, RunAgain, Next
<1>6. CASE InputEnds \/ UNCHANGED allVars
  BY <1>6 DEF InputEnds, allVars
<1>7. QED
  BY <1>1, <1>2, <1>3, <1>4, <1>5, <1>6 DEF LoopNext

LEMMA LoopStep ==
  ASSUME TypeInv, ExclusionInv, LoopInv, [LoopNext]_allVars
  PROVE  LoopInv'
<1>0. find \in [Frames -> Frame]
  BY DEF TypeInv, TypeOK
<1>1. ASSUME NEW p \in Pairs, IssueInsert(p) \/ IssueDelete(p)
      PROVE  LoopInv'
  <2>1. find' = find /\ Open /\ pending_find_tasks' = pending_find_tasks
    BY <1>1 DEF IssueInsert, IssueDelete, TakeRequest, MayIssue, InsertAsync, RemoveAsync
  <2>2. Open'
    BY <1>1, <2>1, OpenKept DEF IssueInsert, IssueDelete
  <2>3. QED
    BY <2>1, <2>2, QueueKept
<1>2. ASSUME NEW f \in Frames, NEW k \in Keys, IssueFind(f, k)
      PROVE  LoopInv'
  <2>1. /\ find[f].pc = "free" /\ find'[f].pc # "free"
        /\ \A g \in Frames \ {f} : find'[g] = find[g]
        /\ UNCHANGED flush
    BY <1>0, <1>2, BeginShape DEF IssueFind
  <2>2. Open'
    BY <1>2, <2>1 DEF IssueFind, TakeRequest, MayIssue, Open
  <2>3. pending_find_tasks' = Append(pending_find_tasks, f)
    BY <1>2 DEF IssueFind
  <2>4. \A i \in 1 .. Len(pending_find_tasks) :
          pending_find_tasks[i] \in Frames \ {f}
    BY <2>1 DEF LoopInv
  <2>5. /\ pending_find_tasks' \in Seq(Frames)
        /\ Len(pending_find_tasks') = Len(pending_find_tasks) + 1
        /\ \A i \in 1 .. Len(pending_find_tasks) :
             pending_find_tasks'[i] = pending_find_tasks[i]
        /\ pending_find_tasks'[Len(pending_find_tasks) + 1] = f
    BY <2>3 DEF LoopInv
  <2>6. \A i \in 1 .. Len(pending_find_tasks') : find'[pending_find_tasks'[i]].pc # "free"
    BY <2>1, <2>4, <2>5 DEF LoopInv
  <2>7. \A i, j \in 1 .. Len(pending_find_tasks') :
          pending_find_tasks'[i] = pending_find_tasks'[j] => i = j
    BY <2>4, <2>5 DEF LoopInv
  <2>8. QED
    BY <2>2, <2>5, <2>6, <2>7 DEF LoopInv
<1>3. CASE PrintFront
  <2> DEFINE f == Head(pending_find_tasks)
             n == Len(pending_find_tasks)
  <2>1. /\ n \in Nat /\ n > 0 /\ f = pending_find_tasks[1] /\ f \in Frames
        /\ pending_find_tasks' \in Seq(Frames)
        /\ Len(pending_find_tasks') = n - 1
        /\ \A i \in 1 .. n - 1 : pending_find_tasks'[i] = pending_find_tasks[i + 1]
    BY <1>3 DEF PrintFront, LoopInv
  <2>2. \A g \in Frames \ {f} : find'[g] = find[g]
    BY <1>0, <1>3 DEF PrintFront, Collect
  <2>3. \A i \in 1 .. n - 1 : pending_find_tasks[i + 1] \in Frames \ {f}
    BY <2>1 DEF LoopInv
  <2>4. \A i \in 1 .. n - 1 : find'[pending_find_tasks'[i]].pc # "free"
    BY <2>1, <2>2, <2>3 DEF LoopInv
  <2>5. \A i, j \in 1 .. n - 1 : pending_find_tasks'[i] = pending_find_tasks'[j] => i = j
    BY <2>1 DEF LoopInv
  <2>6. ~Open' => pending_find_tasks' = <<>>
    BY <1>3 DEF PrintFront, Collect, LoopInv, Open
  <2>7. QED
    BY <2>1, <2>4, <2>5, <2>6 DEF LoopInv
<1>4. CASE Poll
  <2>1. pending_find_tasks' = pending_find_tasks
    BY <1>4 DEF Poll, loopVars
  <2>2. Open => Open'
    <3>1. Open => ~SyncFinish
      BY DEF SyncFinish, Open
    <3>2. QED
      BY <1>4, <3>1, OpenKept DEF Poll
  <2>3. QED
    BY <1>4, <2>1, <2>2, PollKeepsFrames, QueueKept
<1>5. CASE LoopExit
  <2>1. find' = find /\ pending_find_tasks' = pending_find_tasks /\ pending_find_tasks = <<>>
    BY <1>5 DEF LoopExit, Shutdown, loopVars
  <2>2. QED
    BY <2>1, QueueKept
<1>6. CASE RunAgain
  <2>1. pending_find_tasks' = <<>>
    BY <1>6 DEF RunAgain
  <2>2. QED
    BY <2>1 DEF LoopInv
<1>7. CASE InputEnds \/ UNCHANGED allVars
  <2>1. UNCHANGED <<find, flush, pending_find_tasks>>
    BY <1>7 DEF InputEnds, allVars, vars, loopVars
  <2>2. QED
    BY <2>1, QueueKept DEF Open
<1>8. QED
  BY <1>1, <1>2, <1>3, <1>4, <1>5, <1>6, <1>7 DEF LoopNext

LInv == TypeInv /\ ExclusionInv /\ LoopInv

LEMMA LoopInvCorrect == LoopSpec => []LInv
<1>1. LoopInit => LInv
  <2>1. LoopInit => LoopInv
    BY DEF LoopInit, LoopInv
  <2>2. QED
    BY <2>1, TypeInit, ExclusionInit DEF LoopInit, LInv
<1>2. LInv /\ [LoopNext]_allVars => LInv'
  BY LoopStepIsStep, LoopStep, TypeStep, ExclusionStep DEF LInv
<1>3. QED
  BY <1>1, <1>2, PTL DEF LoopSpec

(* The loop is a client of the index: whatever is proved of AsyncBPT holds *)
(* of the program.                                                         *)
THEOREM LoopIsClient == LoopSpec => Spec
<1>1. LoopInit => Init
  BY DEF LoopInit
<1>2. LInv /\ [LoopNext]_allVars => [Next]_vars
  BY LoopStepIsStep DEF LInv
<1>3. QED
  BY <1>1, <1>2, LoopInvCorrect, PTL DEF LoopSpec, Spec

-------------------------------------------------------------------------------
(***************************************************************************)
(* The program implements the store.                                       *)
(***************************************************************************)
Pending == [i \in 1 .. Len(pending_find_tasks) |-> Answer(pending_find_tasks[i])]

(* While the queue stays as it is, so do the answers in it. *)
LEMMA AnswersKept ==
  ASSUME IInv, LoopInv, LoopInv', [Next]_vars, pending_find_tasks' = pending_find_tasks
  PROVE  Pending' = Pending
<1>1. ASSUME NEW i \in 1 .. Len(pending_find_tasks)
      PROVE  Answer(pending_find_tasks[i])' = Answer(pending_find_tasks[i])
  <2> DEFINE f == pending_find_tasks[i]
  <2>1. f \in Frames
    BY DEF LoopInv
  <2>2. find[f].pc # "free" /\ find'[f].pc # "free"
    BY DEF LoopInv
  <2>3. Answer(f)' = Answer(f)
    BY <2>1, <2>2, AnswerStep DEF IInv, AnswerAsOfIssue
  <2>4. pending_find_tasks'[i] = f
    OBVIOUS
  <2>5. QED
    BY <2>3, <2>4
<1>2. QED
  BY <1>1 DEF Pending

(* The range find_all_async asks for holds exactly the pairs of the key. *)
LEMMA KeyRange ==
  ASSUME ValuesInRange, NEW k \in Keys, NEW p \in Pairs
  PROVE  InRange(p, <<k, val_min>>, <<k, val_max>>) <=> p[1] = k
<1>1. k \in Int /\ p[1] \in Int /\ p[2] \in Int /\ val_min \in Int /\ val_max \in Int
  BY ConstantsAssumption DEF Keys
<1>2. QED
  BY <1>1 DEF InRange, Less, ValuesInRange

(* A coroutine that poll() resumes changes nothing the store shows. *)
LEMMA PollIsStutter ==
  ASSUME IInv, Undisturbed, Poll
  PROVE  Content' = Content
<1>1. ASSUME NEW f \in Frames, FindRead(f) PROVE Content' = Content
  BY <1>1, ContentSame DEF FindRead, ReadLeaf, IInv
<1>2. ASSUME NEW f \in Frames, FindReturn(f) PROVE Content' = Content
  <2>1. find' # find
    BY <1>2 DEF FindReturn, Reading, Done, FreeFrame, IInv, TypeInv, TypeOK
  <2>2. \A p \in Pairs : ~InsertAsync(p) /\ ~RemoveAsync(p)
    BY <2>1 DEF InsertAsync, RemoveAsync
  <2>3. Next
    BY <1>2 DEF Next, FindStep
  <2>4. QED
    BY <2>2, <2>3, ContentStep DEF ContentChange, IInv
<1>3. ASSUME NEW fl \in Flushers, FlushStep(fl) PROVE Content' = Content
  <2>1. ~FlushUndefined(fl)
    BY DEF FlushUndefined, Undisturbed, Open, IInv, ExclusionInv, RequestFlushGuarded, Flushers
  <2>2. ~FlushDisturbed(fl)
    BY DisturbedContent DEF IInv
  <2>3. QED
    BY <1>3, <2>1, <2>2, ApplyContent, FinishContent DEF FlushStep, IInv
<1>4. CASE SyncFinish
  BY <1>4, ShutdownContent DEF IInv
<1>5. QED
  BY <1>1, <1>2, <1>3, <1>4 DEF Poll, FindStep

LEMMA StoreStep ==
  ASSUME IInv, LoopInv, LoopInv', Undisturbed, ValuesInRange, [LoopNext]_allVars,
         LossyRemove \/ (AbsentKeysAreAbsent /\ PendingInsertIsNew)
  PROVE  [Store!StoreNext]_(Store!storeVars)
<1>0. [Next]_vars
  BY LoopStepIsStep
<1>a. ASSUME pending_find_tasks' = pending_find_tasks PROVE Pending' = Pending
  BY <1>0, <1>a, AnswersKept
<1>s. ASSUME event' = event, Content' = Content, Pending' = Pending
      PROVE  [Store!StoreNext]_(Store!storeVars)
  BY <1>s DEF Store!storeVars, Pending
<1>1. ASSUME NEW p \in Pairs, IssueInsert(p)
      PROVE  Store!StoreInsert(p)
  <2>1. Content' = Content \cup {p}
    BY <1>1, InsertContent DEF IssueInsert, IInv
  <2>2. event' = <<"insert", p>> /\ Pending' = Pending
    BY <1>1, <1>a DEF IssueInsert, TakeRequest
  <2>3. QED
    BY <2>1, <2>2 DEF Store!StoreInsert, Pending
<1>2. ASSUME NEW p \in Pairs, IssueDelete(p)
      PROVE  Store!StoreRemove(p)
  <2>1. \/ Content' = Content \ {p}
        \/ LossyRemove /\ Content' = Content
    <3>1. CASE LossyRemove
      BY <1>2, <3>1, RemoveContent DEF IssueDelete, TakeRequest, IInv
    <3>2. CASE AbsentKeysAreAbsent /\ PendingInsertIsNew
      BY <1>2, <3>2, RemoveExact DEF IssueDelete, TakeRequest
    <3>3. QED
      BY <3>1, <3>2
  <2>2. event' = <<"delete", p>> /\ Pending' = Pending
    BY <1>2, <1>a DEF IssueDelete, TakeRequest
  <2>3. QED
    BY <2>1, <2>2 DEF Store!StoreRemove, Pending
<1>3. ASSUME NEW f \in Frames, NEW k \in Keys, IssueFind(f, k)
      PROVE  Store!StoreFind(k)
  <2> DEFINE n == Len(pending_find_tasks)
  <2>0. find \in [Frames -> Frame] /\ n \in Nat
    BY DEF IInv, TypeInv, TypeOK, LoopInv
  <2>1. FindBegin(f, <<k, val_min>>, <<k, val_max>>)
    BY <1>3 DEF IssueFind
  <2>2. /\ find[f].pc = "free" /\ find'[f].pc # "free"
        /\ find'[f].lo = <<k, val_min>> /\ find'[f].hi = <<k, val_max>>
    BY <2>0, <2>1, BeginShape
  <2>3. Content' = Content
    BY <2>1, ContentSame DEF FindBegin, IInv
  <2>4. Answer(f)' = {p \in Content : p[1] = k}
    <3>1. Answer(f)' = {p \in Content : InRange(p, <<k, val_min>>, <<k, val_max>>)}
      BY <1>0, <2>2, AnswerStep DEF IInv, AnswerAsOfIssue
    <3>2. Content \subseteq Pairs
      BY ContentIsPresent
    <3>3. QED
      BY <3>1, <3>2, KeyRange
  <2>5. /\ pending_find_tasks' = Append(pending_find_tasks, f)
        /\ Len(pending_find_tasks') = n + 1
        /\ \A i \in 1 .. n : /\ pending_find_tasks'[i] = pending_find_tasks[i]
                             /\ pending_find_tasks[i] \in Frames
        /\ pending_find_tasks'[n + 1] = f
    BY <1>3 DEF IssueFind, LoopInv
  <2>6. \A i \in 1 .. n : Answer(pending_find_tasks[i])' = Answer(pending_find_tasks[i])
    <3> SUFFICES ASSUME NEW i \in 1 .. n
                 PROVE  Answer(pending_find_tasks[i])' = Answer(pending_find_tasks[i])
      OBVIOUS
    <3>1. PICK g \in Frames : g = pending_find_tasks[i] /\ find[g].pc # "free"
      BY <2>5 DEF LoopInv
    <3>2. find'[pending_find_tasks'[i]].pc # "free" /\ pending_find_tasks'[i] = g
      BY <2>0, <2>5, <3>1 DEF LoopInv
    <3>3. \A h \in Frames : find[h].pc # "free" /\ find'[h].pc # "free" => Answer(h)' = Answer(h)
      BY <1>0, AnswerStep DEF IInv, AnswerAsOfIssue
    <3>4. QED
      BY <3>1, <3>2, <3>3
  <2>7. Pending' = Append(Pending, {p \in Content : p[1] = k})
    BY <2>0, <2>4, <2>5, <2>6 DEF Pending
  <2>8. event' = <<"find", k>>
    BY <1>3 DEF IssueFind, TakeRequest
  <2>9. QED
    BY <2>3, <2>7, <2>8 DEF Store!StoreFind, Store!PairsOfKey, Pending
<1>4. ASSUME PrintFront
      PROVE  Store!StorePrint
  <2> DEFINE f == Head(pending_find_tasks)
             n == Len(pending_find_tasks)
  <2>0. find \in [Frames -> Frame] /\ n \in Nat
    BY DEF IInv, TypeInv, TypeOK, LoopInv
  <2>1. /\ n > 0 /\ f = pending_find_tasks[1] /\ f \in Frames
        /\ Len(pending_find_tasks') = n - 1
        /\ \A i \in 1 .. n - 1 : /\ pending_find_tasks'[i] = pending_find_tasks[i + 1]
                                 /\ pending_find_tasks[i + 1] \in Frames
    BY <1>4 DEF PrintFront, LoopInv
  <2>2. Collect(f) /\ event' = <<"print", find[f].rows>>
    BY <1>4 DEF PrintFront
  <2>3. Content' = Content
    BY <2>2, ContentSame DEF Collect, IInv
  <2>4. Answer(f) = find[f].rows
    BY <2>2 DEF Collect, Answer, Reading
  <2>5. \A i \in 1 .. n - 1 :
          Answer(pending_find_tasks[i])' = Answer(pending_find_tasks[i + 1])
    <3> SUFFICES ASSUME NEW i \in 1 .. n - 1
                 PROVE  Answer(pending_find_tasks[i])' = Answer(pending_find_tasks[i + 1])
      OBVIOUS
    <3>1. i + 1 \in 1 .. n
      BY <2>0
    <3>2. PICK g \in Frames : g = pending_find_tasks[i + 1] /\ find[g].pc # "free"
      BY <2>1, <3>1 DEF LoopInv
    <3>3. find'[pending_find_tasks'[i]].pc # "free" /\ pending_find_tasks'[i] = g
      BY <2>0, <2>1, <3>2 DEF LoopInv
    <3>4. \A h \in Frames : find[h].pc # "free" /\ find'[h].pc # "free" => Answer(h)' = Answer(h)
      BY <1>0, AnswerStep DEF IInv, AnswerAsOfIssue
    <3>5. QED
      BY <3>2, <3>3, <3>4
  <2>6. Pending # <<>> /\ Head(Pending) = find[f].rows
    BY <2>0, <2>1, <2>4 DEF Pending
  <2>7. Pending' = Tail(Pending)
    BY <2>0, <2>1, <2>5 DEF Pending
  <2>8. QED
    BY <2>2, <2>3, <2>6, <2>7 DEF Store!StorePrint, Pending
<1>5. CASE Poll
  BY <1>5, <1>a, <1>s, PollIsStutter DEF Poll, loopVars
<1>6. CASE LoopExit
  <2>1. Content' = Content
    BY <1>6, ShutdownContent DEF LoopExit, IInv
  <2>2. QED
    BY <1>6, <1>a, <1>s, <2>1 DEF LoopExit, loopVars
<1>7. CASE RunAgain
  <2>1. Content' = Content
    BY <1>7, ShutdownContent DEF RunAgain, IInv
  <2>2. pending_find_tasks' = pending_find_tasks
    BY <1>7 DEF RunAgain, Reopen, LoopInv, Open
  <2>3. QED
    BY <1>7, <1>a, <1>s, <2>1, <2>2 DEF RunAgain
<1>8. CASE InputEnds \/ UNCHANGED allVars
  <2>1. UNCHANGED vars /\ UNCHANGED <<pending_find_tasks, event>>
    BY <1>8 DEF InputEnds, allVars, loopVars
  <2>2. Content' = Content
    BY <2>1, ContentSame DEF vars, IInv
  <2>3. QED
    BY <1>a, <1>s, <2>1, <2>2
<1>9. CASE LoopNext
  <2>1. ASSUME NEW k \in Keys, Store!StoreFind(k)
        PROVE  Store!StoreNext
    BY <2>1 DEF Store!StoreNext, Keys
  <2>2. (\E p \in Pairs : Store!StoreInsert(p) \/ Store!StoreRemove(p)) => Store!StoreNext
    BY DEF Store!StoreNext
  <2>3. Store!StorePrint => Store!StoreNext
    BY DEF Store!StoreNext
  <2>4. QED
    BY <1>9, <1>1, <1>2, <1>3, <1>4, <1>5, <1>6, <1>7, <1>8, <2>1, <2>2, <2>3 DEF LoopNext
<1>10. QED
  BY <1>8, <1>9

LEMMA StoreStart == LoopInit => Store!StoreInit
<1> SUFFICES ASSUME LoopInit PROVE Store!StoreInit
  OBVIOUS
<1>1. Pending = <<>>
  BY DEF LoopInit, Pending
<1>2. Content \in SUBSET Pairs
  BY ContentIsPresent
<1>3. QED
  BY <1>1, <1>2 DEF LoopInit, Store!StoreInit, Store!NoEvent, Pending

(* A program whose shutdown waits for its flushes is the reference store   *)
(* that may lose a removal, whatever its input: answers come out in the    *)
(* order of the requests, each as of its own request, over restarts.       *)
THEOREM LossyStore ==
  ASSUME QuietShutdown, ValuesInRange, LossyRemove
  PROVE  LoopSpec => ImplementsStore
<1>1. IInv /\ LInv /\ LInv' /\ Undisturbed /\ [LoopNext]_allVars
        => [Store!StoreNext]_(Store!storeVars)
  BY StoreStep DEF LInv
<1>2. QED
  BY <1>1, StoreStart, LoopInvCorrect, LoopIsClient, IInvCorrect, QuietShutdownUndisturbed, PTL
     DEF LoopSpec, ImplementsStore, Store!StoreSpec

(* With an input that inserts no pair the tree holds, and none a lookup in *)
(* flight covers, the program is exactly the reference store.              *)
THEOREM DisciplinedStore ==
  ASSUME QuietShutdown, ValuesInRange, FreshInserts, SettledLookups
  PROVE  LoopSpec => ImplementsStore
<1>1. IInv /\ LInv /\ LInv' /\ Undisturbed /\ AbsentKeysAreAbsent /\ PendingInsertIsNew
      /\ [LoopNext]_allVars
        => [Store!StoreNext]_(Store!storeVars)
  BY StoreStep DEF LInv
<1>2. QED
  BY <1>1, StoreStart, LoopInvCorrect, LoopIsClient, IInvCorrect, QuietShutdownUndisturbed,
     AbsenceCorrect, PendingInsertsNew, PTL
     DEF LoopSpec, ImplementsStore, Store!StoreSpec
===============================================================================
