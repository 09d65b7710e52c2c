------------------------------- MODULE MainLoop -------------------------------
(***************************************************************************)
(* The program src.cpp: one thread reads requests, issues each when        *)
(* permit_operation() allows, prints lookup answers from the front of a    *)
(* queue, polls the tree, and shuts the tree down once the input is used   *)
(* up and every answer is printed.                                         *)
(*                                                                         *)
(* It composes with AsyncBPT by sharing its variables; the clients of that *)
(* module are replaced by this loop.  The program may be run again on the  *)
(* files it left.                                                          *)
(***************************************************************************)
EXTENDS AsyncBPT, Sequences

CONSTANT LossyRemove    (* which PairStore the loop is compared with       *)

ASSUME LossyAssumption == LossyRemove \in BOOLEAN

VARIABLES
  pending_find_tasks,   (* frames of lookups not printed, oldest first     *)
  event,                (* the request taken or the answer printed last    *)
  more                  (* requests are left in the input                  *)

loopVars == <<pending_find_tasks, event, more>>
allVars == <<vars, loopVars>>

LoopInit ==
  /\ Init
  /\ pending_find_tasks = <<>>
  /\ event = <<"none", {}>>
  /\ more \in BOOLEAN

(* Part 1 of an iteration: the next request of the input, after which      *)
(* there may or may not be another.                                        *)
TakeRequest(r) == MayIssue /\ more /\ more' \in BOOLEAN /\ event' = r

IssueInsert(p) ==
  /\ TakeRequest(<<"insert", p>>)
  /\ MayInsert(p) /\ InsertAsync(p)
  /\ UNCHANGED pending_find_tasks

IssueDelete(p) ==
  /\ TakeRequest(<<"delete", p>>)
  /\ RemoveAsync(p)
  /\ UNCHANGED pending_find_tasks

IssueFind(f, k) ==
  /\ TakeRequest(<<"find", k>>)
  /\ FindBegin(f, <<k, val_min>>, <<k, val_max>>)
  /\ pending_find_tasks' = Append(pending_find_tasks, f)

(* The input ends before the announced number of requests. *)
InputEnds ==
  /\ MayIssue /\ more
  /\ more' = FALSE
  /\ UNCHANGED <<vars, pending_find_tasks, event>>

(* Mutant: the newest lookup is printed first. *)
PrintBack ==
  /\ pending_find_tasks # <<>>
  /\ LET n == Len(pending_find_tasks)
         f == pending_find_tasks[n]
     IN  /\ Collect(f)
         /\ event' = <<"print", find[f].rows>>
         /\ pending_find_tasks' = SubSeq(pending_find_tasks, 1, n - 1)
  /\ UNCHANGED more

(* Part 2: print the front lookup if it is done, and drop its frame. *)
PrintFront ==
  /\ pending_find_tasks # <<>>
  /\ LET f == Head(pending_find_tasks) IN
       /\ Collect(f)
       /\ event' = <<"print", find[f].rows>>
  /\ pending_find_tasks' = Tail(pending_find_tasks)
  /\ UNCHANGED more

(* Part 3: tree.poll() resumes a coroutine whose page has arrived. *)
Poll ==
  /\ \/ \E f \in Frames : FindStep(f)
     \/ \E fl \in Flushers : FlushStep(fl)
     \/ SyncFinish
  /\ UNCHANGED loopVars

(* The loop exit: everything issued, every answer printed. *)
LoopExit ==
  /\ ~more /\ pending_find_tasks = <<>>
  /\ MayShutdown /\ Shutdown
  /\ UNCHANGED loopVars

(* The program is started again. *)
RunAgain ==
  /\ Reopen
  /\ more' \in BOOLEAN
  /\ pending_find_tasks' = <<>>
  /\ UNCHANGED event

LoopNext ==
  \/ \E p \in Pairs : IssueInsert(p) \/ IssueDelete(p)
  \/ \E f \in Frames, k \in Keys : IssueFind(f, k)
  \/ InputEnds
  \/ PrintFront
  \/ Poll
  \/ LoopExit
  \/ RunAgain

LoopSpec == LoopInit /\ [][LoopNext]_allVars

(* Each iteration tries every part; io_uring completes what was submitted. *)
LoopFairness ==
  /\ \A f \in Frames : WF_allVars(UNCHANGED loopVars /\ FindStep(f))
  /\ WF_allVars(UNCHANGED loopVars /\ FlushStep("request"))
  /\ WF_allVars(UNCHANGED loopVars /\ (FlushStep("shutdown") \/ SyncFinish))
  /\ WF_allVars(PrintFront \/ LoopExit)

FairLoopSpec == LoopSpec /\ LoopFairness

-------------------------------------------------------------------------------
(***************************************************************************)
(* Correctness.                                                            *)
(***************************************************************************)

Store == INSTANCE PairStore WITH
  content <- Content,
  pending <- [i \in 1..Len(pending_find_tasks) |-> Answer(pending_find_tasks[i])],
  event <- event

(* The program is the reference set: requests take effect in the order     *)
(* they are read, and the answers come out in that order, each as of its   *)
(* own request, over any number of runs on the same files.                 *)
ImplementsStore == Store!StoreSpec

(* Every answer is printed. *)
AnswersArePrinted ==
  \A f \in Frames : find[f].pc # "free" ~> find[f].pc = "free"

(* When the input is used up the program ends, with its files closed. *)
ProgramEnds == ~more ~> flush["shutdown"].pc = "closed"
===============================================================================
