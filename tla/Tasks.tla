-------------------------------- MODULE Tasks --------------------------------
(***************************************************************************)
(* The coroutine runtime, include/tasks.h and include/smart_task.h: Task,  *)
(* SharedTask, SmartTask and CriteriaVariable, on one thread, as the       *)
(* program's coroutines use it.                                            *)
(*                                                                         *)
(* A coroutine starts running inside its caller.  When it suspends,        *)
(* control goes back to whoever called or resumed it; when it ends, it     *)
(* resumes those who await it: a Task passes control on to its one         *)
(* awaiter, the other two resume theirs one by one from inside co_return.  *)
(* So the state has a stack: of coroutines that run, and of loops that     *)
(* resume coroutines.  The coroutines are known by who calls whom; what    *)
(* they do between calls, awaits and their end is left open.  Any of them  *)
(* may end by an exception: what it awaits may have thrown, or the pool be *)
(* full.                                                                   *)
(***************************************************************************)
EXTENDS Integers, SequencesExt, FiniteSets

CONSTANTS
  Lookups,        (* Tasks: do_find_async, find_all_async, find_range_async, *)
                  (* and what these call down to find_path               *)
  Modifications,  (* Tasks: insert_async, remove_async, shutdown, flush,   *)
                  (* and what these call, flush_all too                    *)
  References,     (* Tasks: ref, const_ref                                 *)
  Acquisitions,   (* Tasks: acquire_page_in_slot                           *)
  Evictions,      (* Tasks: evict_page                                     *)
  Loads,          (* SharedTasks: evict_and_load                           *)
  Requests,       (* SmartTasks: do_insert_smart_async, do_delete_smart_async *)
  Prefetches,     (* SmartTasks: prefetch_batch                            *)
  main            (* the program outside all coroutines                    *)

(* Coroutines by the type they return; they are started again at will.     *)
TaskFrames == Lookups \cup Modifications \cup References \cup Acquisitions \cup Evictions
SharedFrames == Loads
SmartFrames == Requests \cup Prefetches
Frames == TaskFrames \cup SharedFrames \cup SmartFrames

Disjoint(parts) == \A i, j \in DOMAIN parts : i # j => parts[i] \cap parts[j] = {}

ASSUME FramesAssumption ==
  /\ Disjoint(<<Lookups, Modifications, References, Acquisitions, Evictions, Loads,
                Requests, Prefetches>>)
  /\ {main, "io", "zero"} \cap Frames = {}
  /\ main \notin {"io", "zero"}

VARIABLES
  frame,          (* the coroutine frame: "none", "running", "suspended",  *)
                  (* "final": suspended for good, a Task is done, or       *)
                  (* "destroyed": gone, with a handle to it left somewhere *)
  outcome,        (* "pending", or "known", a value or an exception: in    *)
                  (* the promise of a Task, the shared state of the others *)
  continuations,  (* who is resumed when the frame ends                    *)
  owner,          (* who called it: holds the Task, or may await the       *)
                  (* SmartTask                                             *)
  awaits,         (* what a frame waits for: another, "io", "zero"; main   *)
                  (* if nothing                                            *)
  stack,          (* from the outside in: frames, and loops with the       *)
                  (* frames they have still to resume                      *)
  io,             (* frames that wait for a completion                     *)
  counted,        (* who has raised the counter and not lowered it again   *)
  waiting_coroutines, is_evaluating_criteria

frameVars == <<frame, outcome, continuations, owner>>
criteriaVars == <<counted, waiting_coroutines, is_evaluating_criteria>>
vars == <<frameVars, awaits, stack, io, criteriaVars>>

Init ==
  /\ frame = [f \in Frames |-> "none"]
  /\ outcome = [f \in Frames |-> "pending"]
  /\ continuations = [f \in Frames |-> <<>>]
  /\ owner = [f \in Frames |-> main]
  /\ awaits = [f \in Frames |-> main]
  /\ stack = <<>>
  /\ io = {}
  /\ counted = {} /\ waiting_coroutines = <<>> /\ is_evaluating_criteria = FALSE

-------------------------------------------------------------------------------
(***************************************************************************)
(* The stack.                                                              *)
(***************************************************************************)
Run(f) == [run |-> f, loop |-> main, todo |-> <<>>]
ResumeLoop(of, handles) == [run |-> main, loop |-> of, todo |-> handles]

Below == Front(stack)

(* The code that is executing: a coroutine, or main between resumptions. *)
Running == IF stack = <<>> THEN main ELSE Last(stack).run
InMain == stack = <<>>

(* The Tasks that live in coroutine f. *)
Held(f) == {g \in TaskFrames : owner[g] = f}

(* f runs and has no co_await to finish: it may do anything.  A Task is    *)
(* awaited in the expression that calls it; only a prefetch collects them. *)
Free(f) == f \in Frames /\ Running = f /\ (Held(f) = {} \/ f \in Prefetches)

(* The running coroutine suspends on what. *)
Suspends(f, what) ==
  /\ frame' = [frame EXCEPT ![f] = "suspended"]
  /\ awaits' = [awaits EXCEPT ![f] = what]
  /\ stack' = Below

-------------------------------------------------------------------------------
(***************************************************************************)
(* Calling and awaiting coroutines.                                        *)
(***************************************************************************)
MayCall(f, g) ==
  \/ f = main /\ g \in Lookups \cup Requests \cup Modifications
  \/ f \in Lookups /\ g \in Lookups \cup References
  \/ f \in Requests /\ g \in Modifications
  \/ f \in Modifications /\ g \in Modifications \cup References \cup Prefetches
  \/ f \in Prefetches /\ g \in References
  \/ f \in References /\ g \in Acquisitions
  \/ f \in Acquisitions /\ g \in Loads
  \/ f \in Loads /\ g \in Evictions

(* Coroutine g is called: initial_suspend never suspends.  One that has    *)
(* thrown without lowering the counter has left it up for good.            *)
Call(caller, g) ==
  /\ (caller = main /\ InMain) \/ Free(caller)
  /\ MayCall(caller, g) /\ frame[g] = "none" /\ g \notin counted
  /\ frame' = [frame EXCEPT ![g] = "running"]
  /\ outcome' = [outcome EXCEPT ![g] = "pending"]
  /\ owner' = IF g \in Loads THEN owner ELSE [owner EXCEPT ![g] = caller]
  /\ stack' = Append(stack, Run(g))
  /\ UNCHANGED <<continuations, awaits, io, criteriaVars>>

(* co_await of a Task f holds.  If it is done its result is taken, and the *)
(* frame goes with the Task; otherwise it is to resume f.  A prefetch      *)
(* awaits its Tasks in some order, and one it is through with is as good   *)
(* as gone, although its vector keeps it to the end.                       *)
AwaitTask(f, g) ==
  /\ f \in Frames /\ Running = f /\ g \in Held(f)
  /\ \/ /\ frame[g] = "final"
        /\ frame' = [frame EXCEPT ![g] = "none"]
        /\ outcome' = [outcome EXCEPT ![g] = "pending"]
        /\ owner' = [owner EXCEPT ![g] = main]
        /\ UNCHANGED <<continuations, awaits, stack>>
     \/ /\ frame[g] # "final"
        /\ continuations' = [continuations EXCEPT ![g] = <<f>>]
        /\ Suspends(f, g)
        /\ UNCHANGED <<outcome, owner>>
  /\ UNCHANGED <<io, criteriaVars>>

(* A load is found by whoever needs the page, a prefetch is awaited by the *)
(* flush that has started it.                                              *)
MayAwait(f, g) ==
  \/ f \in Acquisitions /\ g \in Loads
  \/ f \in Modifications /\ g \in Prefetches /\ owner[g] = f

(* Mutant: the state is not looked at once more. *)
AwaitSharedAlways(f, g) ==
  /\ Free(f) /\ MayAwait(f, g) /\ frame[g] # "none"
  /\ continuations' = [continuations EXCEPT ![g] = Append(@, f)]
  /\ Suspends(f, g)
  /\ UNCHANGED <<outcome, owner, io, criteriaVars>>

(* co_await of a SharedTask or SmartTask that is not over.  One that is    *)
(* over answers at once, which changes nothing here.                       *)
AwaitShared(f, g) ==
  /\ Free(f) /\ MayAwait(f, g)
  /\ frame[g] # "none" /\ outcome[g] = "pending"
  /\ continuations' = [continuations EXCEPT ![g] = Append(@, f)]
  /\ Suspends(f, g)
  /\ UNCHANGED <<outcome, owner, io, criteriaVars>>

(* co_await of a read or a write. *)
AwaitIO(f) ==
  /\ Free(f) /\ f \in Loads \cup Evictions \cup Modifications
  /\ io' = io \cup {f}
  /\ Suspends(f, "io")
  /\ UNCHANGED <<outcome, continuations, owner, criteriaVars>>

(* poll() resumes the coroutine whose request is complete. *)
Poll(f) ==
  /\ InMain /\ f \in io
  /\ io' = io \ {f}
  /\ frame' = [frame EXCEPT ![f] = "running"]
  /\ awaits' = [awaits EXCEPT ![f] = main]
  /\ stack' = <<Run(f)>>
  /\ UNCHANGED <<outcome, continuations, owner, criteriaVars>>

-------------------------------------------------------------------------------
(***************************************************************************)
(* Ending.                                                                 *)
(***************************************************************************)

(* The SmartTasks f has called go on without it; gone are Tasks no more.   *)
Detached(f, gone) ==
  [g \in Frames |-> IF g \in gone \/ (g \in SmartFrames /\ owner[g] = f) THEN main ELSE owner[g]]

(* A Task is done: its awaiter, if it has one, takes over, gets the result *)
(* and destroys the frame; otherwise the Task keeps it.                    *)
EndTask(f) ==
  /\ f \in TaskFrames /\ Free(f)
  /\ outcome' = [outcome EXCEPT ![f] = "known"]
  /\ \/ /\ continuations[f] = <<>>
        /\ frame' = [frame EXCEPT ![f] = "final"]
        /\ stack' = Below
        /\ owner' = Detached(f, {})
        /\ UNCHANGED <<continuations, awaits>>
     \/ \E h \in ToSet(continuations[f]) :
          /\ frame' = [frame EXCEPT ![f] = "none", ![h] = "running"]
          /\ awaits' = [awaits EXCEPT ![h] = main]
          /\ continuations' = [continuations EXCEPT ![f] = <<>>]
          /\ stack' = Append(Below, Run(h))
          /\ owner' = Detached(f, {f})
  /\ UNCHANGED <<io, criteriaVars>>
(* Mutant: the state changes after the waiters have been resumed. *)
EndSharedLate(f, threw) ==
  /\ f \notin TaskFrames /\ Free(f) /\ Held(f) = {}
  /\ stack' = Append(stack, ResumeLoop(f, continuations[f]))
  /\ UNCHANGED <<frameVars, awaits, io, criteriaVars>>

(* co_return or an exception in a SharedTask or SmartTask: the shared      *)
(* state is set, and its waiters are resumed; set_value starts with the    *)
(* last one.  A SmartTask takes the list away first.                       *)
EndShared(f, threw) ==
  /\ f \notin TaskFrames /\ Free(f) /\ Held(f) = {}
  /\ outcome' = [outcome EXCEPT ![f] = "known"]
  /\ stack' = Append(stack, ResumeLoop(f,
       IF f \in SharedFrames /\ ~threw THEN Reverse(continuations[f])
       ELSE continuations[f]))
  /\ continuations' = IF f \in SmartFrames THEN [continuations EXCEPT ![f] = <<>>]
                      ELSE continuations
  /\ UNCHANGED <<frame, owner, awaits, io, criteriaVars>>

(* The Tasks that go with coroutine f, and the frames among them that      *)
(* somebody else is still to resume.                                       *)
Gone(f) == Held(f) \cup UNION {Held(r) : r \in Held(f)}
Dangling(gone) == {g \in gone : frame[g] = "suspended" /\ awaits[g] \notin gone}

(* An awaited Task has thrown in a prefetch that holds more of them: their *)
(* frames are destroyed, done or not, before the waiters are resumed.      *)
FailPrefetch(p) ==
  /\ p \in Prefetches /\ Free(p) /\ Held(p) # {}
  /\ frame' = [g \in Frames |-> IF g \in Dangling(Gone(p)) THEN "destroyed"
                                ELSE IF g \in Gone(p) THEN "none" ELSE frame[g]]
  /\ awaits' = [g \in Frames |-> IF g \in Gone(p) \ Dangling(Gone(p)) THEN main ELSE awaits[g]]
  /\ outcome' = [g \in Frames |-> IF g = p THEN "known"
                                  ELSE IF g \in Gone(p) THEN "pending" ELSE outcome[g]]
  /\ owner' = Detached(p, Gone(p))
  /\ stack' = Append(stack, ResumeLoop(p, continuations[p]))
  /\ continuations' = [g \in Frames |-> IF g \in Gone(p) \cup {p} THEN <<>> ELSE continuations[g]]
  /\ UNCHANGED <<io, criteriaVars>>

Loop == IF stack = <<>> THEN main ELSE Last(stack).loop

(* The next one is resumed; what happens if its frame is destroyed is not  *)
(* defined.                                                                *)
ResumeNext ==
  /\ Loop # main /\ Last(stack).todo # <<>>
  /\ LET h == Head(Last(stack).todo) IN
     /\ frame[h] = "suspended"
     /\ frame' = [frame EXCEPT ![h] = "running"]
     /\ awaits' = [awaits EXCEPT ![h] = main]
     /\ stack' = Append(Append(Below, [Last(stack) EXCEPT !.todo = Tail(@)]), Run(h))
  /\ UNCHANGED <<outcome, continuations, owner, io, criteriaVars>>

(* Mutant: a SmartTask or SharedTask keeps its frame. *)
KeepFrame ==
  /\ Loop \in Frames /\ Last(stack).todo = <<>>
  /\ continuations' = [continuations EXCEPT ![Loop] = <<>>]
  /\ frame' = [frame EXCEPT ![Loop] = "final"]
  /\ outcome' = [outcome EXCEPT ![Loop] = "pending"]
  /\ stack' = Front(Below)
  /\ owner' = Detached(Loop, {Loop})
  /\ UNCHANGED <<awaits, io, criteriaVars>>

(* All are resumed: the list is cleared, and the frame ends, since         *)
(* final_suspend does not suspend.                                         *)
EndFrame ==
  /\ Loop \in Frames /\ Last(stack).todo = <<>>
  /\ continuations' = [continuations EXCEPT ![Loop] = <<>>]
  /\ frame' = [frame EXCEPT ![Loop] = "none"]
  /\ outcome' = [outcome EXCEPT ![Loop] = "pending"]
  /\ stack' = Front(Below)
  /\ owner' = Detached(Loop, {Loop})
  /\ UNCHANGED <<awaits, io, criteriaVars>>

(* The main loop drops a Task that is done. *)
Drop(f) ==
  /\ InMain /\ owner[f] = main /\ frame[f] = "final"
  /\ frame' = [frame EXCEPT ![f] = "none"]
  /\ outcome' = [outcome EXCEPT ![f] = "pending"]
  /\ UNCHANGED <<continuations, owner, awaits, stack, io, criteriaVars>>

-------------------------------------------------------------------------------
(***************************************************************************)
(* The CriteriaVariable: a counter, and those who wait until it is zero.   *)
(***************************************************************************)
AwaitZero(f) ==
  /\ Free(f) /\ f \in Modifications /\ counted # {}
  /\ waiting_coroutines' = Append(waiting_coroutines, f)
  /\ Suspends(f, "zero")
  /\ UNCHANGED <<outcome, continuations, owner, io, counted, is_evaluating_criteria>>

Raise(f) ==
  /\ Free(f) /\ f \in Lookups \ counted
  /\ counted' = counted \cup {f}
  /\ UNCHANGED <<frameVars, awaits, stack, io, waiting_coroutines, is_evaluating_criteria>>

(* Mutant: the flag stays up when nobody is there to be resumed. *)
EvaluateStuck(left) ==
  IF is_evaluating_criteria \/ left # {}
  THEN UNCHANGED <<stack, waiting_coroutines, is_evaluating_criteria>>
  ELSE /\ is_evaluating_criteria' = TRUE
       /\ waiting_coroutines' = <<>>
       /\ stack' = IF waiting_coroutines = <<>> THEN stack
                   ELSE Append(stack, ResumeLoop("zero", waiting_coroutines))

(* evaluate_criteria_and_notify_waiters(), from the proxy's destructor:    *)
(* the list is taken away and its coroutines resumed, unless this is       *)
(* already being done further out.                                         *)
Evaluate(left) ==
  IF is_evaluating_criteria \/ left # {} \/ waiting_coroutines = <<>>
  THEN UNCHANGED <<stack, waiting_coroutines, is_evaluating_criteria>>
  ELSE /\ is_evaluating_criteria' = TRUE
       /\ waiting_coroutines' = <<>>
       /\ stack' = Append(stack, ResumeLoop("zero", waiting_coroutines))

Lower(f) ==
  /\ Free(f) /\ f \in counted
  /\ counted' = counted \ {f}
  /\ Evaluate(counted \ {f})
  /\ UNCHANGED <<frameVars, awaits, io>>

EndNotification ==
  /\ Loop = "zero" /\ Last(stack).todo = <<>>
  /\ is_evaluating_criteria' = FALSE
  /\ stack' = Below
  /\ UNCHANGED <<frameVars, awaits, io, counted, waiting_coroutines>>

-------------------------------------------------------------------------------
Next ==
  \/ \E g \in Frames : Call(Running, g)
  \/ \E g \in Frames : AwaitTask(Running, g) \/ AwaitShared(Running, g)
  \/ \E f \in Frames : \/ AwaitIO(f) \/ Poll(f) \/ Drop(f) \/ EndTask(f) \/ FailPrefetch(f)
                       \/ AwaitZero(f) \/ Raise(f) \/ Lower(f)
  \/ \E f \in Frames, threw \in BOOLEAN : EndShared(f, threw)
  \/ ResumeNext \/ EndFrame \/ EndNotification

Spec == Init /\ [][Next]_vars

-------------------------------------------------------------------------------
(***************************************************************************)
(* Correctness.                                                            *)
(***************************************************************************)
Times(f, handles) == Cardinality({i \in DOMAIN handles : handles[i] = f})

(* The frames whose list of waiters a loop has started on. *)
Resuming == {stack[i].loop : i \in DOMAIN stack}

(* The places from which frame f will be resumed. *)
Handles(f) ==
  LET listed == {g \in Frames \ Resuming : f \in ToSet(continuations[g])}
      looped == {i \in DOMAIN stack : f \in ToSet(stack[i].todo)}
  IN Cardinality(listed) + Cardinality(looped) + Times(f, waiting_coroutines)
       + (IF f \in io THEN 1 ELSE 0)

(* A suspended coroutine will be resumed from exactly one place, and no    *)
(* handle is kept to one that runs, is done or is gone: none is forgotten  *)
(* in a list that is being resumed or cleared, none is resumed twice or    *)
(* after its end.  The one exception is a coroutine destroyed undone: the  *)
(* handle to it stays where it was.                                        *)
HandlesExact ==
  \A f \in Frames :
    /\ Handles(f) = IF frame[f] \in {"suspended", "destroyed"} THEN 1 ELSE 0
    /\ Cardinality({i \in DOMAIN stack : stack[i].run = f})
         = IF frame[f] = "running" THEN 1 ELSE 0

(* The frame of a coroutine that is done is kept by a Task only, and a     *)
(* Task by main or by a coroutine that is still there and, if it waits and *)
(* is no prefetch, waits for this very Task: no frame leaks, and none but  *)
(* acquire_page_in_slot's, under a failing prefetch, is destroyed undone   *)
(* and leaves a handle to it, with a load.                                 *)
FramesHeld ==
  \A f \in Frames :
    /\ frame[f] = "final" => f \in TaskFrames
    /\ f \in TaskFrames /\ owner[f] # main =>
         /\ frame[f] \in {"running", "suspended", "final"}
         /\ frame[owner[f]] \in {"running", "suspended"}
         /\ frame[owner[f]] = "suspended" => awaits[owner[f]] = f \/ owner[f] \in Prefetches
    /\ frame[f] = "destroyed" => f \in Acquisitions /\ awaits[f] \in Loads

(* Whoever is resumed from a coroutine it awaits finds a result there.     *)
OutcomesKnown ==
  [][\A f \in Frames : frame[f] = "suspended" /\ frame'[f] = "running" /\ awaits[f] \in Frames
       => outcome'[awaits[f]] # "pending"]_vars

(* Nobody waits for zero while the counter is zero: an evaluation skipped  *)
(* because one is under way further out leaves nobody behind.              *)
NoStrandedWaiter == waiting_coroutines # <<>> => counted # {}
===============================================================================
