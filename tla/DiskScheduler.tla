---------------------------- MODULE DiskScheduler ----------------------------
(***************************************************************************)
(* The scheduler of page requests, include/disk_scheduler.cpp, and the two *)
(* rings it shares with the kernel, include/mini_uring.h.                  *)
(*                                                                         *)
(* A request is written into the submission ring, published to the kernel  *)
(* with others in a batch, served in any order, and reaped from the        *)
(* completion ring by handle_completions(), which resumes the coroutine    *)
(* that waits for it; that coroutine may make new requests at once, in the *)
(* middle of the reaping loop.  All calls come from one thread; only the   *)
(* kernel's completions happen at any time.                                *)
(***************************************************************************)
EXTENDS Integers, FiniteSets

CONSTANTS
  Requests,               (* the IORequest objects, used again when freed  *)
  Entries, CqEntries,     (* sizes of the two rings                        *)
  Wrap,                   (* 2^32: ring counters are unsigned              *)
  batch_submit_threshold,
  FlushEvery,             (* 16: polls from one unconditional flush to the *)
                          (* next                                          *)
  PartialSubmits,         (* whether io_uring_enter may take only a part   *)
                          (* of what it is offered, or fail                *)
  null

ASSUME RingAssumption ==
  /\ {Entries, CqEntries, Wrap, batch_submit_threshold, FlushEvery} \subseteq Nat \ {0}
  /\ Wrap % Entries = 0 /\ Wrap % CqEntries = 0
  /\ Entries < Wrap /\ CqEntries < Wrap
  /\ null \notin Requests

VARIABLES
  sq,             (* submission ring: head, tail, the entries sqes and the *)
                  (* indices array; tail_cached is what io_uring_get_sqe   *)
                  (* has handed out                                        *)
  cq,             (* completion ring: head, tail, cqes                     *)
  in_kernel,      (* how many operations the kernel has under way for r    *)
  waiting,        (* the requests some coroutine is suspended on           *)
  sqes_prepared_count,    (* up to the threshold, with which alone it is   *)
                          (* ever compared                                 *)
  unfinished_requests_count,
  poll,           (* handle_completions(): where it is, head and count     *)
  time_cnt,       (* modulo FlushEvery                                     *)
  status          (* "open"; "closed" by the destructor; "failed" when an  *)
                  (* exception has left handle_completions()               *)

ringVars == <<sq, cq, in_kernel>>
counterVars == <<sqes_prepared_count, unfinished_requests_count>>
vars == <<ringVars, waiting, counterVars, poll, time_cnt, status>>

Minus(a, b) == (a - b) % Wrap
Plus(a, b) == (a + b) % Wrap

NewSq == [head |-> 0, tail |-> 0, tail_cached |-> 0,
          sqes |-> [i \in 0 .. Entries - 1 |-> null],
          array |-> [i \in 0 .. Entries - 1 |-> 0]]
NewCq == [head |-> 0, tail |-> 0, cqes |-> [i \in 0 .. CqEntries - 1 |-> null]]
OutOfPoll == [pc |-> "out", head |-> 0, count |-> 0]

Init ==
  /\ sq = NewSq /\ cq = NewCq
  /\ in_kernel = [r \in Requests |-> 0]
  /\ waiting = {}
  /\ sqes_prepared_count = 0 /\ unfinished_requests_count = 0
  /\ poll = OutOfPoll
  /\ time_cnt = 0
  /\ status = "open"

-------------------------------------------------------------------------------
(***************************************************************************)
(* The submission ring.                                                    *)
(***************************************************************************)

(* Entries the kernel has not taken, and entries not yet published. *)
Untaken(ring) == Minus(ring.tail_cached, ring.head)
io_uring_sq_ready == Minus(sq.tail_cached, sq.tail)

(* Mutant: room for one entry more than the ring has. *)
HasRoomForOneMore(ring) == Untaken(ring) <= Entries

HasRoom(ring) == Untaken(ring) < Entries

(* io_uring_get_sqe and io_uring_prep_*: the next entry is filled in. *)
Filled(ring, r) ==
  [ring EXCEPT !.sqes[ring.tail_cached % Entries] = r,
               !.tail_cached = Plus(@, 1)]

(* Mutant: the indirection array is left as it is. *)
PublishedWithoutIndices(ring) == [ring EXCEPT !.tail = ring.tail_cached]

(* What io_uring_submit makes visible to the kernel. *)
Published(ring) ==
  LET new == {Plus(ring.tail, i) % Entries : i \in 0 .. io_uring_sq_ready - 1}
  IN [ring EXCEPT !.array = [i \in DOMAIN @ |-> IF i \in new THEN i ELSE @[i]],
                  !.tail = ring.tail_cached]

(* The i-th entry the kernel would take next. *)
NextEntry(ring, i) == ring.sqes[ring.array[Plus(ring.head, i) % Entries]]

(* How many entries one io_uring_enter takes: all it was told of, unless   *)
(* the kernel stops early.  None at all is an error.                       *)
Takes == IF PartialSubmits THEN 0 .. io_uring_sq_ready ELSE {io_uring_sq_ready}

(* io_uring_submit, of which the kernel takes n entries. *)
Submitted(n) == [Published(sq) EXCEPT !.head = Plus(@, n)]
SubmitFails(n) == io_uring_sq_ready > 0 /\ n = 0

KernelTakes(n) ==
  in_kernel' = [r \in Requests |->
    in_kernel[r] + Cardinality({i \in 0 .. n - 1 : NextEntry(Published(sq), i) = r})]

-------------------------------------------------------------------------------
(***************************************************************************)
(* Requests.                                                               *)
(***************************************************************************)

(* Callers: the main loop between polls, or a coroutine just resumed. *)
MaySubmit == status = "open" /\ poll.pc \in {"out", "resumed"}

OneMorePrepared ==
  IF sqes_prepared_count < batch_submit_threshold THEN sqes_prepared_count + 1
  ELSE batch_submit_threshold

Enqueue(ring, r) ==
  /\ sq' = Filled(ring, r)
  /\ waiting' = waiting \cup {r}
  /\ sqes_prepared_count' = OneMorePrepared
  /\ unfinished_requests_count' = unfinished_requests_count + 1

(* async_read, async_write: the request is entered and awaited.  With a    *)
(* full ring what it holds is submitted first; if that makes no room, the  *)
(* coroutine gets an exception instead.                                    *)
SubmitRequest(r) ==
  /\ MaySubmit /\ r \notin waiting
  /\ \/ /\ HasRoom(sq)
        /\ Enqueue(sq, r)
        /\ UNCHANGED in_kernel
     \/ /\ ~HasRoom(sq)
        /\ \E n \in Takes :
             /\ KernelTakes(n)
             /\ \/ /\ ~SubmitFails(n) /\ HasRoom(Submitted(n))
                   /\ Enqueue(Submitted(n), r)
                \/ /\ SubmitFails(n) \/ ~HasRoom(Submitted(n))
                   /\ sq' = Submitted(n)
                   /\ UNCHANGED <<waiting, counterVars>>
  /\ UNCHANGED <<cq, poll, time_cnt, status>>

(* The kernel finishes one of its operations. *)
Complete(r) ==
  /\ status = "open"
  /\ in_kernel[r] > 0
  /\ Minus(cq.tail, cq.head) < CqEntries
  /\ cq' = [cq EXCEPT !.cqes[cq.tail % CqEntries] = r, !.tail = Plus(@, 1)]
  /\ in_kernel' = [in_kernel EXCEPT ![r] = @ - 1]
  /\ UNCHANGED <<sq, waiting, counterVars, poll, time_cnt, status>>

-------------------------------------------------------------------------------
(***************************************************************************)
(* Polling.                                                                *)
(***************************************************************************)
BeginPoll ==
  /\ status = "open" /\ poll.pc = "out"
  /\ poll' = [pc |-> "reaping", head |-> cq.head, count |-> 0]
  /\ UNCHANGED <<ringVars, waiting, counterVars, time_cnt, status>>

(* The next completion: its coroutine goes on, and the request is freed    *)
(* with the awaitable that owns it.                                        *)
Resume ==
  /\ poll.pc = "reaping" /\ poll.head # cq.tail
  /\ poll' = [poll EXCEPT !.pc = "resumed"]
  /\ waiting' = waiting \ {cq.cqes[poll.head % CqEntries]}
  /\ UNCHANGED <<ringVars, counterVars, time_cnt, status>>

(* Mutant: each entry is given back as soon as its waiter has run. *)
ResumeReturnsSeen ==
  /\ poll.pc = "resumed"
  /\ poll' = [poll EXCEPT !.pc = "reaping", !.head = Plus(@, 1)]
  /\ cq' = [cq EXCEPT !.head = Plus(@, 1)]
  /\ unfinished_requests_count' = unfinished_requests_count - 1
  /\ UNCHANGED <<sq, in_kernel, waiting, sqes_prepared_count, time_cnt, status>>

(* The coroutine has suspended again or ended. *)
ResumeReturns ==
  /\ poll.pc = "resumed"
  /\ poll' = [pc |-> "reaping", head |-> Plus(poll.head, 1), count |-> poll.count + 1]
  /\ unfinished_requests_count' = unfinished_requests_count - 1
  /\ UNCHANGED <<ringVars, waiting, sqes_prepared_count, time_cnt, status>>

(* flush_requests(); an error is thrown at the caller. *)
FlushRequests ==
  \E n \in Takes :
    /\ sq' = Submitted(n)
    /\ KernelTakes(n)
    /\ sqes_prepared_count' = IF SubmitFails(n) THEN sqes_prepared_count ELSE 0
    /\ status' = IF SubmitFails(n) THEN "failed" ELSE "open"

(* Mutant: a batch that stays small is not flushed. *)
FlushDueByBatch(now) == sqes_prepared_count >= batch_submit_threshold

FlushDue(now) == now = 0 \/ sqes_prepared_count >= batch_submit_threshold

(* No completion is left: the entries read are given back in one go, and   *)
(* every FlushEvery-th time, or when enough is prepared, it is submitted.  *)
EndPoll ==
  LET now == (time_cnt + 1) % FlushEvery IN
  /\ poll.pc = "reaping" /\ poll.head = cq.tail
  /\ cq' = [cq EXCEPT !.head = Plus(@, poll.count)]
  /\ poll' = OutOfPoll
  /\ time_cnt' = now
  /\ \/ FlushDue(now) /\ FlushRequests
     \/ ~FlushDue(now) /\ UNCHANGED <<sq, in_kernel, sqes_prepared_count, status>>
  /\ UNCHANGED <<waiting, unfinished_requests_count>>

(* ~DiskScheduler: a last flush, whose failure is ignored. *)
Close ==
  /\ status = "open" /\ poll.pc = "out"
  /\ \E n \in Takes : sq' = Submitted(n) /\ KernelTakes(n)
  /\ status' = "closed"
  /\ UNCHANGED <<cq, waiting, counterVars, poll, time_cnt>>

(* A new process with a new ring. *)
Restart ==
  /\ status # "open"
  /\ sq' = NewSq /\ cq' = NewCq
  /\ in_kernel' = [r \in Requests |-> 0]
  /\ waiting' = {}
  /\ sqes_prepared_count' = 0 /\ unfinished_requests_count' = 0
  /\ poll' = OutOfPoll
  /\ time_cnt' = 0
  /\ status' = "open"

Next ==
  \/ \E r \in Requests : SubmitRequest(r) \/ Complete(r)
  \/ BeginPoll \/ Resume \/ ResumeReturns \/ EndPoll
  \/ Close \/ Restart

(* The caller polls again and again, coroutines come to their next         *)
(* suspension, and the kernel finishes what it has taken: completions that *)
(* find their ring full are posted as soon as there is room again.         *)
Fairness ==
  /\ WF_vars(BeginPoll) /\ WF_vars(Resume) /\ WF_vars(ResumeReturns) /\ WF_vars(EndPoll)
  /\ \A r \in Requests : SF_vars(Complete(r))

Spec == Init /\ [][Next]_vars /\ Fairness

-------------------------------------------------------------------------------
(***************************************************************************)
(* Correctness.                                                            *)
(***************************************************************************)

(* The places request r can be in. *)
SubmissionsOf(r) ==
  {i \in 0 .. Untaken(sq) - 1 :
     r = IF i < Minus(sq.tail, sq.head) THEN NextEntry(sq, i)
         ELSE sq.sqes[Plus(sq.head, i) % Entries]}

NextToReap == CASE poll.pc = "out" -> cq.head
                [] poll.pc = "reaping" -> poll.head
                [] poll.pc = "resumed" -> Plus(poll.head, 1)

CompletionsOf(r) ==
  {i \in 0 .. Minus(cq.tail, NextToReap) - 1 :
     cq.cqes[Plus(NextToReap, i) % CqEntries] = r}

(* A request somebody waits for is in exactly one place on its way through *)
(* the rings, and one nobody waits for is nowhere: no entry is overwritten *)
(* before the kernel has read it, none is served or reaped twice, and      *)
(* freed requests are never reached again, whatever resumed coroutines     *)
(* submit in the middle of a poll and wherever the counters wrap.  Those   *)
(* who poll until unfinished_requests_count is 0 have missed none.         *)
EachRequestOnce ==
  /\ \A r \in Requests :
       Cardinality(SubmissionsOf(r)) + in_kernel[r] + Cardinality(CompletionsOf(r))
         = IF r \in waiting THEN 1 ELSE 0
  /\ unfinished_requests_count
       = Cardinality(waiting) + (IF poll.pc = "resumed" THEN 1 ELSE 0)

(* Published entries the kernel did not take when it was told of them.  It *)
(* is never told of them again: io_uring_submit counts from the tail.      *)
LeftBehind == sq.head # sq.tail

(* Every request is completed and its coroutine resumed, also one in a     *)
(* batch that never fills ("there won't be someone waiting for remaining", *)
(* handle_completions), unless the kernel once took only a part.           *)
RequestsComplete ==
  \A r \in Requests : r \in waiting ~> (r \notin waiting \/ LeftBehind \/ status # "open")

(* A poll returns: completions that go on arriving for what resumed        *)
(* coroutines submit cannot keep handle_completions() in its loop, since   *)
(* it gives the entries of the completion ring back only at its end.       *)
PollsReturn == poll.pc = "reaping" ~> poll.pc = "out"
===============================================================================
