----------------------------- MODULE Tasks_proofs -----------------------------
(***************************************************************************)
(* Handles of the coroutine runtime: a suspended coroutine is resumed once *)
(* and from one place, and no frame is lost.                               *)
(***************************************************************************)
EXTENDS Tasks, FiniteSetTheorems, SequenceTheorems, TLAPS

(* What a coroutine can be suspended on, and what a loop resumes from. *)
Reasons == Frames \cup {main, "io", "zero"}
Sources == SharedFrames \cup SmartFrames \cup {"zero"}

Entries == [run : Frames \cup {main}, loop : Frames \cup {main, "zero"}, todo : Seq(Frames)]

IsRun(e) == e.run \in Frames /\ e.loop = main /\ e.todo = <<>>
IsLoop(e) == e.run = main /\ e.loop \in Sources /\ IsInjective(e.todo)

(* A stack runs a coroutine and resumes from a source at most once, and    *)
(* the loop at the end of a coroutine is just above the coroutine.         *)
Shape(st) ==
  /\ st \in Seq(Entries)
  /\ \A i \in DOMAIN st : IsRun(st[i]) \/ IsLoop(st[i])
  /\ \A i, j \in DOMAIN st : st[i].run = st[j].run /\ st[i].run # main => i = j
  /\ \A i, j \in DOMAIN st : st[i].loop = st[j].loop /\ st[i].loop # main => i = j
  /\ \A i \in DOMAIN st : st[i].loop \in Frames => i > 1 /\ st[i - 1].run = st[i].loop

RunsOn(st, f) == \E i \in DOMAIN st : st[i].run = f
LoopOn(st, x) == \E i \in DOMAIN st : st[i].loop = x
InTodo(st, f, x) == \E i \in DOMAIN st : st[i].loop = x /\ f \in ToSet(st[i].todo)

(* Coroutines between their calls and their ends: what frame can be.       *)
States == {"none", "running", "suspended", "final", "destroyed"}
Asleep == {"suspended", "destroyed"}

TypeInv ==
  /\ frame \in [Frames -> States]
  /\ outcome \in [Frames -> {"pending", "known"}]
  /\ continuations \in [Frames -> Seq(Frames)]
  /\ owner \in [Frames -> Frames \cup {main}]
  /\ awaits \in [Frames -> Reasons]
  /\ io \in SUBSET Frames
  /\ counted \in SUBSET Lookups
  /\ waiting_coroutines \in Seq(Frames)
  /\ is_evaluating_criteria \in BOOLEAN

(* The stack and the flags agree. *)
StackInv ==
  /\ Shape(stack)
  /\ \A f \in Frames : frame[f] = "running" <=> RunsOn(stack, f)
  /\ \A f \in Frames : LoopOn(stack, f) => outcome[f] = "known"
  /\ is_evaluating_criteria <=> LoopOn(stack, "zero")

(* Where a coroutine waits is where its handle is. *)
HandleInv ==
  /\ \A f \in Frames : frame[f] \in Asleep <=> awaits[f] # main
  /\ \A f \in Frames : awaits[f] = "io" <=> f \in io
  /\ \A f \in Frames : awaits[f] = "zero" <=>
       f \in ToSet(waiting_coroutines) \/ InTodo(stack, f, "zero")
  /\ \A f \in Frames : ~(f \in ToSet(waiting_coroutines) /\ InTodo(stack, f, "zero"))
  /\ \A f, g \in Frames : awaits[f] = g <=>
       IF LoopOn(stack, g) THEN InTodo(stack, f, g) ELSE f \in ToSet(continuations[g])
  /\ IsInjective(waiting_coroutines)
  /\ \A g \in Frames : IsInjective(continuations[g])

(* Frames of coroutines that are over. *)
FrameInv ==
  /\ \A g \in Frames : frame[g] \in {"none", "final", "destroyed"} => continuations[g] = <<>>
  /\ \A f \in Frames : frame[f] = "final" => f \in TaskFrames
  /\ \A f \in Frames : frame[f] = "destroyed" => f \in Acquisitions /\ awaits[f] \in Loads

(* A Task lives in the coroutine that has called it and, unless this is a  *)
(* prefetch, awaits it next.                                               *)
OwnerInv ==
  /\ \A f, g \in Frames : awaits[f] = g /\ g \in TaskFrames => owner[g] = f
  /\ \A f \in Frames : frame[f] \in {"none", "destroyed"} => owner[f] = main
  /\ \A g \in TaskFrames : owner[g] # main =>
       /\ frame[owner[g]] \in {"running", "suspended"} /\ ~LoopOn(stack, owner[g])
       /\ frame[owner[g]] = "suspended" /\ owner[g] \notin Prefetches => awaits[owner[g]] = g
  /\ \A g \in Frames : owner[g] # main => MayCall(owner[g], g)
  /\ \A g, h \in TaskFrames : owner[g] = owner[h] /\ owner[g] \notin Prefetches \cup {main} => g = h

(* Who awaits what. *)
AwaitsInv ==
  \A f \in Frames : awaits[f] # main =>
    \/ awaits[f] \in TaskFrames
    \/ f \in Acquisitions /\ awaits[f] \in Loads
    \/ f \in Modifications /\ awaits[f] \in Prefetches \cup {"io", "zero"}
    \/ f \in Loads \cup Evictions /\ awaits[f] = "io"

(* Coroutines that bring pages, and who runs above whom.                   *)
Pages == Prefetches \cup References \cup Acquisitions \cup Loads \cup Evictions

Deeper(x, y) ==
  \/ x \in Prefetches /\ y \in References \cup Acquisitions \cup Loads \cup Evictions
  \/ x \in References /\ y \in Acquisitions \cup Loads \cup Evictions
  \/ x \in Acquisitions /\ y \in Loads \cup Evictions
  \/ x \in Loads /\ y \in Evictions

Above(st, d, e) == \E i, j \in DOMAIN st : i < j /\ st[i] = d /\ st[j] = e

(* Above such a coroutine runs only what it has called, itself or through  *)
(* others, and nobody waits for that yet.                                  *)
PageInv ==
  \A d, e : Above(stack, d, e) /\ d.run \in Pages /\ ~LoopOn(stack, d.run) =>
    /\ e.todo = <<>>
    /\ e.run # main => Deeper(d.run, e.run) /\ continuations[e.run] = <<>>

(* What an evaluation resumes are flushes: above it run modifications,     *)
(* requests and what brings pages for them, but no lookup, so that nobody  *)
(* lowers the counter meanwhile.                                           *)
Calm(f) ==
  \/ f \in Modifications \cup Requests
  \/ f \in Pages /\ continuations[f] = <<>>

ZeroInv ==
  /\ \A d, e : Above(stack, d, e) /\ d.loop = "zero" =>
       e.todo = <<>> /\ (e.run # main => Calm(e.run))
  /\ waiting_coroutines # <<>> => counted # {}

RuntimeInv ==
  /\ TypeInv /\ StackInv /\ HandleInv
  /\ FrameInv /\ OwnerInv /\ AwaitsInv
  /\ PageInv /\ ZeroInv

-------------------------------------------------------------------------------
(* A coroutine is of one kind. *)
LEMMA Kinds ==
  /\ \A f \in Frames : f # main /\ f # "io" /\ f # "zero"
  /\ main # "io" /\ main # "zero"
  /\ \A f \in Lookups : f \notin Modifications \cup Requests \cup Pages
  /\ \A f \in Modifications : f \notin Requests \cup Pages
  /\ \A f \in Requests : f \notin Pages
  /\ \A f \in Prefetches : f \notin References \cup Acquisitions \cup Loads \cup Evictions
  /\ \A f \in References : f \notin Acquisitions \cup Loads \cup Evictions
  /\ \A f \in Acquisitions : f \notin Loads \cup Evictions
  /\ \A f \in Loads : f \notin Evictions
<1> PICK parts : parts = <<Lookups, Modifications, References, Acquisitions, Evictions, Loads,
                           Requests, Prefetches>>
  OBVIOUS
<1>1. \A i, j \in DOMAIN parts : i # j => parts[i] \cap parts[j] = {}
  BY FramesAssumption DEF Disjoint
<1>2. /\ DOMAIN parts = 1 .. 8
      /\ parts[1] = Lookups /\ parts[2] = Modifications /\ parts[3] = References
      /\ parts[4] = Acquisitions /\ parts[5] = Evictions /\ parts[6] = Loads
      /\ parts[7] = Requests /\ parts[8] = Prefetches
  OBVIOUS
<1>3. \A i, j \in 1 .. 8 : i # j => \A f \in parts[i] : f \notin parts[j]
  BY <1>1, <1>2
<1>4. /\ \A f \in Frames : f # main /\ f # "io" /\ f # "zero"
      /\ main # "io" /\ main # "zero"
  BY FramesAssumption
<1>5. /\ \A f \in Lookups : f \notin Modifications \cup Requests \cup Pages
      /\ \A f \in Modifications : f \notin Requests \cup Pages
      /\ \A f \in Requests : f \notin Pages
  BY <1>2, <1>3 DEF Pages
<1>6. /\ \A f \in Prefetches : f \notin References \cup Acquisitions \cup Loads \cup Evictions
      /\ \A f \in References : f \notin Acquisitions \cup Loads \cup Evictions
      /\ \A f \in Acquisitions : f \notin Loads \cup Evictions
      /\ \A f \in Loads : f \notin Evictions
  BY <1>2, <1>3
<1>7. QED
  BY <1>4, <1>5, <1>6

-------------------------------------------------------------------------------
(***************************************************************************)
(* Lists of handles.                                                       *)
(***************************************************************************)
LEMMA ListOfNone ==
  /\ ToSet(<<>>) = {} /\ IsInjective(<<>>)
  /\ \A s \in Seq(Frames) : s = <<>> <=> ToSet(s) = {}
  /\ \A s \in Seq(Frames) : ToSet(s) \subseteq Frames
<1>1. DOMAIN <<>> = {}
  OBVIOUS
<1>2. ASSUME NEW s \in Seq(Frames)
      PROVE  s = <<>> <=> ToSet(s) = {}
  <2>1. s # <<>> => s[1] \in ToSet(s)
    BY DEF ToSet
  <2>2. QED
    BY <1>1, <2>1 DEF ToSet
<1>3. QED
  BY <1>1, <1>2 DEF ToSet, IsInjective

LEMMA ListExtended ==
  ASSUME NEW S, NEW s \in Seq(S), NEW x \in S
  PROVE  /\ Append(s, x) \in Seq(S) /\ Append(s, x) # <<>>
         /\ ToSet(Append(s, x)) = ToSet(s) \cup {x}
         /\ IsInjective(s) /\ x \notin ToSet(s) => IsInjective(Append(s, x))
<1> PICK t : t = Append(s, x)
  OBVIOUS
<1>1. /\ t \in Seq(S) /\ Len(t) = Len(s) + 1 /\ Len(s) \in Nat
      /\ \A i \in 1 .. Len(s) : t[i] = s[i]
      /\ t[Len(s) + 1] = x
  OBVIOUS
<1>2. DOMAIN t = 1 .. Len(s) + 1 /\ DOMAIN s = 1 .. Len(s)
  BY <1>1
<1>3. ToSet(t) = ToSet(s) \cup {x}
  BY <1>1, <1>2 DEF ToSet
<1>4. ASSUME IsInjective(s), x \notin ToSet(s)
      PROVE  IsInjective(t)
  <2> SUFFICES ASSUME NEW i \in DOMAIN t, NEW j \in DOMAIN t, t[i] = t[j]
               PROVE  i = j
    BY DEF IsInjective
  <2>1. (i \in DOMAIN s \/ i = Len(s) + 1) /\ (j \in DOMAIN s \/ j = Len(s) + 1)
    BY <1>1, <1>2
  <2>2. \A k \in DOMAIN s : t[k] = s[k] /\ s[k] # x
    BY <1>1, <1>2, <1>4 DEF ToSet
  <2>3. QED
    BY <1>1, <1>4, <2>1, <2>2 DEF IsInjective
<1>5. QED
  BY <1>1, <1>3, <1>4

LEMMA ListReversed ==
  ASSUME NEW S, NEW s \in Seq(S)
  PROVE  /\ Reverse(s) \in Seq(S)
         /\ ToSet(Reverse(s)) = ToSet(s)
         /\ IsInjective(s) => IsInjective(Reverse(s))
<1> PICK n \in Nat : n = Len(s)
  OBVIOUS
<1> PICK t : t = Reverse(s)
  OBVIOUS
<1>1. t = [i \in 1 .. n |-> s[(n - i) + 1]] /\ DOMAIN s = 1 .. n
  BY DEF Reverse
<1>2. \A i \in 1 .. n : (n - i) + 1 \in 1 .. n /\ (n - ((n - i) + 1)) + 1 = i
  BY ONLY n \in Nat, SMT
<1>3. t \in Seq(S)
  BY <1>1, <1>2
<1>4. DOMAIN t = 1 .. n
  BY <1>1
<1>5. \A i \in 1 .. n : t[i] = s[(n - i) + 1] /\ s[i] = t[(n - i) + 1]
  BY <1>1, <1>2
<1>6. ToSet(t) = ToSet(s)
  <2>1. ASSUME NEW i \in 1 .. n PROVE t[i] \in ToSet(s) /\ s[i] \in ToSet(t)
    <3> PICK k : k = (n - i) + 1
      OBVIOUS
    <3>1. k \in DOMAIN s /\ k \in DOMAIN t /\ t[i] = s[k] /\ s[i] = t[k]
      BY <1>1, <1>2, <1>4, <1>5
    <3>2. QED
      BY <3>1 DEF ToSet
  <2>2. ToSet(t) \subseteq ToSet(s)
    <3> SUFFICES ASSUME NEW x \in ToSet(t) PROVE x \in ToSet(s)
      OBVIOUS
    <3>1. PICK i \in 1 .. n : x = t[i]
      BY <1>4 DEF ToSet
    <3>2. QED
      BY <2>1, <3>1
  <2>3. ToSet(s) \subseteq ToSet(t)
    <3> SUFFICES ASSUME NEW x \in ToSet(s) PROVE x \in ToSet(t)
      OBVIOUS
    <3>1. PICK i \in 1 .. n : x = s[i]
      BY <1>1 DEF ToSet
    <3>2. QED
      BY <2>1, <3>1
  <2>4. QED
    BY <2>2, <2>3
<1>7. ASSUME IsInjective(s)
      PROVE  IsInjective(t)
  <2> SUFFICES ASSUME NEW i \in 1 .. n, NEW j \in 1 .. n, t[i] = t[j]
               PROVE  i = j
    BY <1>4 DEF IsInjective
  <2>1. (n - i) + 1 = (n - j) + 1
    <3> PICK k, m : k = (n - i) + 1 /\ m = (n - j) + 1
      OBVIOUS
    <3>1. k \in DOMAIN s /\ m \in DOMAIN s /\ s[k] = s[m]
      BY <1>1, <1>2, <1>5
    <3>2. QED
      BY <1>7, <3>1 DEF IsInjective
  <2>2. QED
    BY ONLY <2>1, n \in Nat, i \in 1 .. n, j \in 1 .. n, SMT
<1>8. QED
  BY <1>3, <1>6, <1>7

LEMMA ListTaken ==
  ASSUME NEW S, NEW s \in Seq(S), s # <<>>
  PROVE  /\ Head(s) \in ToSet(s) /\ Head(s) \in S /\ Tail(s) \in Seq(S)
         /\ IsInjective(s) => IsInjective(Tail(s)) /\ ToSet(Tail(s)) = ToSet(s) \ {Head(s)}
<1> PICK n \in Nat : n = Len(s)
  OBVIOUS
<1> PICK t, h : t = Tail(s) /\ h = Head(s)
  OBVIOUS
<1>1. /\ n > 0 /\ DOMAIN s = 1 .. n /\ h = s[1] /\ h \in S
      /\ t \in Seq(S) /\ DOMAIN t = 1 .. n - 1
      /\ \A i \in 1 .. n - 1 : t[i] = s[i + 1]
  OBVIOUS
<1>2. h \in ToSet(s)
  BY <1>1 DEF ToSet
<1>3. ASSUME IsInjective(s)
      PROVE  IsInjective(t) /\ ToSet(t) = ToSet(s) \ {h}
  <2>1. \A i \in 1 .. n - 1 : i + 1 \in 1 .. n /\ i + 1 # 1
    BY <1>1
  <2>2. \A i \in 1 .. n : i # 1 => i - 1 \in 1 .. n - 1 /\ (i - 1) + 1 = i
    BY <1>1
  <2>3. IsInjective(t)
    <3> SUFFICES ASSUME NEW i \in 1 .. n - 1, NEW j \in 1 .. n - 1, t[i] = t[j]
                 PROVE  i = j
      BY <1>1 DEF IsInjective
    <3>1. i + 1 = j + 1
      BY <1>1, <1>3, <2>1 DEF IsInjective
    <3>2. QED
      BY ONLY <3>1, n \in Nat, i \in 1 .. n - 1, j \in 1 .. n - 1, SMT
  <2>4. \A x \in ToSet(t) : x \in ToSet(s) /\ x # h
    BY <1>1, <1>3, <2>1 DEF ToSet, IsInjective
  <2>5. ASSUME NEW x \in ToSet(s), x # h
        PROVE  x \in ToSet(t)
    <3>1. PICK i \in 1 .. n : x = s[i]
      BY <1>1 DEF ToSet
    <3> PICK k : k = i - 1
      OBVIOUS
    <3>2. k \in DOMAIN t /\ x = t[k]
      BY <1>1, <2>2, <2>5, <3>1
    <3>3. QED
      BY <3>2 DEF ToSet
  <2>6. QED
    BY <2>3, <2>4, <2>5
<1>4. QED
  BY <1>1, <1>2, <1>3

LEMMA FrontIs ==
  ASSUME NEW S, NEW s \in Seq(S), s # <<>>
  PROVE  /\ Front(s) \in Seq(S) /\ Len(Front(s)) = Len(s) - 1
         /\ \A i \in 1 .. Len(s) - 1 : Front(s)[i] = s[i]
         /\ Len(s) \in Nat \ {0} /\ Last(s) = s[Len(s)] /\ Last(s) \in S
         /\ DOMAIN s = 1 .. Len(s) /\ DOMAIN Front(s) = 1 .. Len(s) - 1
<1> PICK k \in Nat : k = Len(s) - 1
  OBVIOUS
<1> PICK t : t = SubSeq(s, 1, k)
  OBVIOUS
<1>1. t = Front(s)
  BY DEF Front
<1>2. \A i \in 1 .. k : s[i] \in S
  OBVIOUS
<1>3. t \in Seq(S) /\ Len(t) = k /\ \A i \in 1 .. k : t[i] = s[i]
  BY <1>2
<1>4. Last(s) = s[Len(s)] /\ Last(s) \in S
  BY DEF Last
<1>5. QED
  BY <1>1, <1>3, <1>4

-------------------------------------------------------------------------------
(***************************************************************************)
(* The stack grows and shrinks at its end.                                 *)
(***************************************************************************)
LEMMA StackGrows ==
  ASSUME NEW st, NEW e \in Entries, Shape(st), IsRun(e) \/ IsLoop(e),
         e.run # main => ~RunsOn(st, e.run), e.loop # main => ~LoopOn(st, e.loop),
         e.loop \in Frames => st # <<>> /\ Last(st).run = e.loop
  PROVE  /\ Shape(Append(st, e)) /\ Append(st, e) # <<>> /\ Last(Append(st, e)) = e
         /\ \A x : RunsOn(Append(st, e), x) <=> RunsOn(st, x) \/ x = e.run
         /\ \A x : LoopOn(Append(st, e), x) <=> LoopOn(st, x) \/ x = e.loop
         /\ \A f, x : InTodo(Append(st, e), f, x) <=>
                        InTodo(st, f, x) \/ (x = e.loop /\ f \in ToSet(e.todo))
<1> PICK t : t = Append(st, e)
  OBVIOUS
<1> PICK n \in Nat : n = Len(st)
  BY DEF Shape
<1>1. /\ t \in Seq(Entries) /\ Len(t) = n + 1 /\ DOMAIN st = 1 .. n /\ t # <<>> /\ Last(t) = t[n + 1]
      /\ \A i \in 1 .. n : t[i] = st[i]
      /\ t[n + 1] = e
  BY DEF Shape, Last
<1>2. /\ DOMAIN t = 1 .. n + 1 /\ n + 1 \in DOMAIN t
      /\ \A i \in DOMAIN st : i \in DOMAIN t /\ t[i] = st[i]
      /\ \A i \in DOMAIN t : i \in DOMAIN st \/ i = n + 1
  BY <1>1
<1>3. ASSUME NEW x
      PROVE  /\ RunsOn(t, x) <=> RunsOn(st, x) \/ x = e.run
             /\ LoopOn(t, x) <=> LoopOn(st, x) \/ x = e.loop
             /\ \A f : InTodo(t, f, x) <=> InTodo(st, f, x) \/ (x = e.loop /\ f \in ToSet(e.todo))
  <2>1. RunsOn(t, x) <=> RunsOn(st, x) \/ x = e.run
    BY <1>1, <1>2 DEF RunsOn
  <2>2. LoopOn(t, x) <=> LoopOn(st, x) \/ x = e.loop
    BY <1>1, <1>2 DEF LoopOn
  <2>3. ASSUME NEW f
        PROVE  InTodo(t, f, x) <=> InTodo(st, f, x) \/ (x = e.loop /\ f \in ToSet(e.todo))
    BY <1>1, <1>2 DEF InTodo
  <2>4. QED
    BY <2>1, <2>2, <2>3
<1>4. \A i \in DOMAIN t : IsRun(t[i]) \/ IsLoop(t[i])
  BY <1>1, <1>2 DEF Shape
<1>5. ASSUME NEW i \in DOMAIN t, NEW j \in DOMAIN t
      PROVE  /\ t[i].run = t[j].run /\ t[i].run # main => i = j
             /\ t[i].loop = t[j].loop /\ t[i].loop # main => i = j
  <2>1. CASE i \in DOMAIN st /\ j \in DOMAIN st
    BY <1>2, <2>1 DEF Shape
  <2>2. CASE i \in DOMAIN st /\ j = n + 1
    BY <1>1, <1>2, <2>2 DEF RunsOn, LoopOn
  <2>3. CASE i = n + 1 /\ j \in DOMAIN st
    BY <1>1, <1>2, <2>3 DEF RunsOn, LoopOn
  <2>4. QED
    BY <1>2, <2>1, <2>2, <2>3
<1>6. ASSUME NEW i \in DOMAIN t, t[i].loop \in Frames
      PROVE  i > 1 /\ t[i - 1].run = t[i].loop
  <2>1. CASE i \in DOMAIN st
    <3>1. i > 1 /\ st[i - 1].run = st[i].loop /\ i - 1 \in DOMAIN st
      BY <1>1, <1>2, <1>6, <2>1 DEF Shape
    <3>2. QED
      BY <1>2, <2>1, <3>1
  <2>2. CASE i = n + 1
    <3>1. st # <<>> /\ Last(st).run = e.loop
      BY <1>1, <1>6, <2>2
    <3>2. n # 0 /\ Last(st) = st[n]
      BY <3>1 DEF Shape, Last
    <3>3. n \in DOMAIN st /\ i - 1 = n /\ i > 1
      BY <1>1, <2>2, <3>2
    <3>4. QED
      BY <1>1, <1>2, <2>2, <3>1, <3>2, <3>3
  <2>3. QED
    BY <1>2, <2>1, <2>2
<1>7. Shape(t)
  BY <1>1, <1>4, <1>5, <1>6 DEF Shape
<1>8. QED
  BY <1>1, <1>3, <1>7

LEMMA StackShrinks ==
  ASSUME NEW st, Shape(st), st # <<>>, NEW e, e = Last(st)
  PROVE  /\ Shape(Front(st)) /\ e \in Entries /\ (IsRun(e) \/ IsLoop(e))
         /\ e.loop \in Frames => Front(st) # <<>> /\ Last(Front(st)).run = e.loop
         /\ RunsOn(st, e.run) /\ LoopOn(st, e.loop)
         /\ \A f : e.loop # main => (InTodo(st, f, e.loop) <=> f \in ToSet(e.todo))
         /\ \A x : x # main => (RunsOn(Front(st), x) <=> RunsOn(st, x) /\ x # e.run)
         /\ \A x : x # main => (LoopOn(Front(st), x) <=> LoopOn(st, x) /\ x # e.loop)
         /\ \A f, x : x # main => (InTodo(Front(st), f, x) <=> InTodo(st, f, x) /\ x # e.loop)
<1> PICK t : t = Front(st)
  OBVIOUS
<1>0. st \in Seq(Entries)
  BY DEF Shape
<1> PICK n \in Nat : n = Len(st)
  BY <1>0
<1>1. /\ t \in Seq(Entries) /\ n # 0 /\ Len(t) = n - 1
      /\ \A i \in 1 .. n - 1 : t[i] = st[i]
      /\ e = st[n] /\ e \in Entries
      /\ DOMAIN st = 1 .. n /\ DOMAIN t = 1 .. n - 1
  BY <1>0, FrontIs
<1>2. /\ n \in DOMAIN st
      /\ \A i \in DOMAIN t : i \in DOMAIN st /\ i # n /\ t[i] = st[i]
      /\ \A i \in DOMAIN st : i \in DOMAIN t \/ i = n
  BY <1>1
<1>3. IsRun(e) \/ IsLoop(e)
  BY <1>1, <1>2 DEF Shape
<1>4. RunsOn(st, e.run) /\ LoopOn(st, e.loop)
  BY <1>1, <1>2 DEF RunsOn, LoopOn
<1>5. ASSUME NEW i \in DOMAIN st
      PROVE  /\ st[i].run = e.run /\ e.run # main => i = n
             /\ st[i].loop = e.loop /\ e.loop # main => i = n
  BY <1>1, <1>2 DEF Shape
<1>6. ASSUME NEW f, e.loop # main
      PROVE  InTodo(st, f, e.loop) <=> f \in ToSet(e.todo)
  BY <1>1, <1>2, <1>5, <1>6 DEF InTodo
<1>7. ASSUME NEW x, x # main
      PROVE  /\ RunsOn(t, x) <=> RunsOn(st, x) /\ x # e.run
             /\ LoopOn(t, x) <=> LoopOn(st, x) /\ x # e.loop
             /\ \A f : InTodo(t, f, x) <=> InTodo(st, f, x) /\ x # e.loop
  <2>1. RunsOn(t, x) <=> RunsOn(st, x) /\ x # e.run
    BY <1>1, <1>2, <1>5, <1>7 DEF RunsOn
  <2>2. LoopOn(t, x) <=> LoopOn(st, x) /\ x # e.loop
    BY <1>1, <1>2, <1>5, <1>7 DEF LoopOn
  <2>3. ASSUME NEW f
        PROVE  InTodo(t, f, x) <=> InTodo(st, f, x) /\ x # e.loop
    BY <1>1, <1>2, <1>5, <1>7 DEF InTodo
  <2>4. QED
    BY <2>1, <2>2, <2>3
<1>8. ASSUME NEW i \in DOMAIN st, st[i].loop \in Frames
      PROVE  i > 1 /\ i - 1 \in DOMAIN t /\ t[i - 1].run = st[i].loop
  <2>1. i > 1 /\ st[i - 1].run = st[i].loop
    BY <1>8 DEF Shape
  <2>2. i - 1 \in 1 .. n - 1
    BY <1>1, <2>1
  <2>3. QED
    BY <1>1, <2>1, <2>2
<1>9. Shape(t)
  <2>1. \A i \in DOMAIN t : t[i].loop \in Frames => i > 1 /\ t[i - 1].run = t[i].loop
    BY <1>2, <1>8
  <2>2. \A i \in DOMAIN t : IsRun(t[i]) \/ IsLoop(t[i])
    BY <1>2 DEF Shape
  <2>3. \A i, j \in DOMAIN t : /\ t[i].run = t[j].run /\ t[i].run # main => i = j
                               /\ t[i].loop = t[j].loop /\ t[i].loop # main => i = j
    BY <1>2 DEF Shape
  <2>4. QED
    BY <1>1, <2>1, <2>2, <2>3 DEF Shape
<1>10. e.loop \in Frames => t # <<>> /\ Last(t).run = e.loop
  <2> SUFFICES ASSUME e.loop \in Frames
               PROVE  t # <<>> /\ Last(t).run = e.loop
    OBVIOUS
  <2>1. n - 1 \in DOMAIN t /\ t[n - 1].run = e.loop
    BY <1>1, <1>2, <1>8
  <2>2. t # <<>> /\ Last(t) = t[n - 1]
    BY <1>1, <2>1 DEF Last
  <2>3. QED
    BY <2>1, <2>2
<1>11. QED
  BY <1>1, <1>3, <1>4, <1>6, <1>7, <1>9, <1>10

(* A loop that has started is above the coroutine that has ended.          *)
LEMMA LoopRuns ==
  ASSUME NEW st, Shape(st), NEW f \in Frames, LoopOn(st, f)
  PROVE  RunsOn(st, f)
<1>1. PICK i \in DOMAIN st : st[i].loop = f
  BY DEF LoopOn
<1>2. i > 1 /\ st[i - 1].run = f
  BY <1>1 DEF Shape
<1>3. i - 1 \in DOMAIN st
  BY <1>2 DEF Shape
<1>4. QED
  BY <1>2, <1>3 DEF RunsOn

LEMMA TopHasNoLoop ==
  ASSUME NEW st, Shape(st), st # <<>>, NEW f \in Frames, Last(st).run = f
  PROVE  ~LoopOn(st, f)
<1> SUFFICES ASSUME NEW i \in DOMAIN st, st[i].loop = f
             PROVE  FALSE
  BY DEF LoopOn
<1> PICK n \in Nat : n = Len(st)
  BY DEF Shape
<1>1. n \in DOMAIN st /\ st[n].run = f /\ DOMAIN st = 1 .. n
  BY DEF Shape, Last
<1>2. i > 1 /\ st[i - 1].run = f
  BY DEF Shape
<1>3. i - 1 \in DOMAIN st /\ i - 1 # n
  BY <1>1, <1>2
<1>4. i - 1 = n
  BY <1>1, <1>2, <1>3, FramesAssumption DEF Shape
<1>5. QED
  BY <1>3, <1>4

(* Only sources have loops. *)
LEMMA LoopIsSource ==
  ASSUME NEW st, Shape(st), NEW x, LoopOn(st, x), x # main
  PROVE  x \in Sources
BY DEF LoopOn, Shape, IsRun, IsLoop

LEMMA NoLoopNoTodo ==
  ASSUME NEW st, NEW f, NEW x, InTodo(st, f, x)
  PROVE  LoopOn(st, x)
BY DEF InTodo, LoopOn

LEMMA EmptyStack ==
  /\ Shape(<<>>)
  /\ \A x : ~RunsOn(<<>>, x) /\ ~LoopOn(<<>>, x)
  /\ \A f, x : ~InTodo(<<>>, f, x)
<1>1. DOMAIN <<>> = {} /\ <<>> \in Seq(Entries)
  OBVIOUS
<1>2. QED
  BY <1>1 DEF Shape, RunsOn, LoopOn, InTodo

(* The loops and their lists are the same on both stacks. *)
SameLoops(st, t) ==
  \A x \in Sources :
    /\ LoopOn(t, x) <=> LoopOn(st, x)
    /\ \A f \in Frames : InTodo(t, f, x) <=> InTodo(st, f, x)

LEMMA SourceIsNotMain == \A x \in Sources : x # main
BY FramesAssumption DEF Sources, Frames

LEMMA RunPushed ==
  ASSUME NEW st, Shape(st), NEW g \in Frames, ~RunsOn(st, g)
  PROVE  /\ Shape(Append(st, Run(g))) /\ SameLoops(st, Append(st, Run(g)))
         /\ \A f \in Frames : RunsOn(Append(st, Run(g)), f) <=> RunsOn(st, f) \/ f = g
<1> PICK e : e = Run(g)
  OBVIOUS
<1>1. e.run = g /\ e.loop = main /\ e.todo = <<>> /\ e \in Entries /\ IsRun(e)
  BY DEF Run, Entries, IsRun
<1>2. e.loop \notin Frames
  BY <1>1, FramesAssumption
<1>3. /\ Shape(Append(st, e))
      /\ \A x : RunsOn(Append(st, e), x) <=> RunsOn(st, x) \/ x = e.run
      /\ \A x : LoopOn(Append(st, e), x) <=> LoopOn(st, x) \/ x = e.loop
      /\ \A f, x : InTodo(Append(st, e), f, x) <=>
                     InTodo(st, f, x) \/ (x = e.loop /\ f \in ToSet(e.todo))
  BY <1>1, <1>2, StackGrows
<1>4. SameLoops(st, Append(st, e))
  BY <1>1, <1>3, SourceIsNotMain DEF SameLoops
<1>5. QED
  BY <1>1, <1>3, <1>4

LEMMA RunPopped ==
  ASSUME NEW st, Shape(st), st # <<>>, NEW f \in Frames, Last(st).run = f
  PROVE  /\ Shape(Front(st)) /\ SameLoops(st, Front(st)) /\ RunsOn(st, f)
         /\ \A g \in Frames : RunsOn(Front(st), g) <=> RunsOn(st, g) /\ g # f
<1> PICK e : e = Last(st)
  OBVIOUS
<1>1. /\ Shape(Front(st)) /\ (IsRun(e) \/ IsLoop(e)) /\ RunsOn(st, e.run)
      /\ \A x : x # main => (RunsOn(Front(st), x) <=> RunsOn(st, x) /\ x # e.run)
      /\ \A x : x # main => (LoopOn(Front(st), x) <=> LoopOn(st, x) /\ x # e.loop)
      /\ \A g, x : x # main => (InTodo(Front(st), g, x) <=> InTodo(st, g, x) /\ x # e.loop)
  BY StackShrinks
<1>2. e.run = f /\ e.loop = main
  BY <1>1, FramesAssumption DEF IsRun, IsLoop
<1>3. SameLoops(st, Front(st))
  BY <1>1, <1>2, SourceIsNotMain DEF SameLoops
<1>4. QED
  BY <1>1, <1>2, <1>3, FramesAssumption

LEMMA LoopPushed ==
  ASSUME NEW st, Shape(st), NEW x \in Sources, ~LoopOn(st, x),
         NEW handles \in Seq(Frames), IsInjective(handles),
         x \in Frames => st # <<>> /\ Last(st).run = x
  PROVE  /\ Shape(Append(st, ResumeLoop(x, handles)))
         /\ \A f \in Frames : RunsOn(Append(st, ResumeLoop(x, handles)), f) <=> RunsOn(st, f)
         /\ \A y \in Sources :
              /\ LoopOn(Append(st, ResumeLoop(x, handles)), y) <=> LoopOn(st, y) \/ y = x
              /\ \A f \in Frames : InTodo(Append(st, ResumeLoop(x, handles)), f, y) <=>
                                     InTodo(st, f, y) \/ (y = x /\ f \in ToSet(handles))
<1> PICK e : e = ResumeLoop(x, handles)
  OBVIOUS
<1>1. /\ e.run = main /\ e.loop = x /\ e.todo = handles
      /\ e \in [run : Frames \cup {main}, loop : Sources, todo : Seq(Frames)]
  BY DEF ResumeLoop
<1>2. e \in Entries /\ IsLoop(e)
  BY <1>1 DEF Entries, IsLoop, Sources, Frames
<1>3. /\ Shape(Append(st, e))
      /\ \A y : RunsOn(Append(st, e), y) <=> RunsOn(st, y) \/ y = e.run
      /\ \A y : LoopOn(Append(st, e), y) <=> LoopOn(st, y) \/ y = e.loop
      /\ \A f, y : InTodo(Append(st, e), f, y) <=>
                     InTodo(st, f, y) \/ (y = e.loop /\ f \in ToSet(e.todo))
  BY <1>1, <1>2, StackGrows
<1>4. QED
  BY <1>1, <1>3, FramesAssumption

LEMMA LoopPopped ==
  ASSUME NEW st, Shape(st), st # <<>>, NEW x, Last(st).loop = x, x # main
  PROVE  /\ Shape(Front(st)) /\ x \in Sources /\ LoopOn(st, x)
         /\ Last(st).todo \in Seq(Frames) /\ IsInjective(Last(st).todo)
         /\ x \in Frames => Front(st) # <<>> /\ Last(Front(st)).run = x
         /\ \A f \in Frames : RunsOn(Front(st), f) <=> RunsOn(st, f)
         /\ \A f \in Frames : InTodo(st, f, x) <=> f \in ToSet(Last(st).todo)
         /\ \A y \in Sources :
              /\ LoopOn(Front(st), y) <=> LoopOn(st, y) /\ y # x
              /\ \A f \in Frames : InTodo(Front(st), f, y) <=> InTodo(st, f, y) /\ y # x
<1> PICK e : e = Last(st)
  OBVIOUS
<1>1. /\ Shape(Front(st)) /\ e \in Entries /\ (IsRun(e) \/ IsLoop(e))
      /\ e.loop \in Frames => Front(st) # <<>> /\ Last(Front(st)).run = e.loop
      /\ LoopOn(st, e.loop)
      /\ \A f : e.loop # main => (InTodo(st, f, e.loop) <=> f \in ToSet(e.todo))
      /\ \A y : y # main => (RunsOn(Front(st), y) <=> RunsOn(st, y) /\ y # e.run)
      /\ \A y : y # main => (LoopOn(Front(st), y) <=> LoopOn(st, y) /\ y # e.loop)
      /\ \A f, y : y # main => (InTodo(Front(st), f, y) <=> InTodo(st, f, y) /\ y # e.loop)
  BY StackShrinks
<1>2. e.loop = x /\ IsLoop(e) /\ e.todo \in Seq(Frames)
  BY <1>1 DEF IsRun, Entries
<1>3. e.run = main /\ x \in Sources /\ IsInjective(e.todo)
  BY <1>2 DEF IsLoop
<1>4. QED
  BY <1>1, <1>2, <1>3, SourceIsNotMain, FramesAssumption

-------------------------------------------------------------------------------
(***************************************************************************)
(* Every step preserves the invariant.                                     *)
(***************************************************************************)

(* The coroutine on top of the stack waits nowhere and has no loop.        *)
LEMMA TopIs ==
  ASSUME RuntimeInv, NEW f \in Frames, Running = f
  PROVE  /\ stack # <<>> /\ Last(stack).run = f /\ RunsOn(stack, f) /\ ~LoopOn(stack, f)
         /\ frame[f] = "running" /\ awaits[f] = main /\ f \notin io
         /\ f \notin ToSet(waiting_coroutines) /\ ~InTodo(stack, f, "zero")
         /\ \A g \in Frames : IF LoopOn(stack, g) THEN ~InTodo(stack, f, g)
                              ELSE f \notin ToSet(continuations[g])
<1>1. stack # <<>> /\ Last(stack).run = f
  BY FramesAssumption DEF Running
<1>2. Shape(stack)
  BY DEF RuntimeInv, StackInv
<1>3. RunsOn(stack, f) /\ ~LoopOn(stack, f)
  BY <1>1, <1>2, RunPopped, TopHasNoLoop
<1>4. frame[f] = "running"
  BY <1>3 DEF RuntimeInv, StackInv
<1>5. awaits[f] = main
  BY <1>4 DEF RuntimeInv, HandleInv, Asleep
<1>6. main # "io" /\ main # "zero" /\ \A g \in Frames : main # g
  BY FramesAssumption
<1>7. QED
  BY <1>1, <1>3, <1>4, <1>5, <1>6 DEF RuntimeInv, HandleInv

(* Nobody waits for a coroutine that is not there or is done.              *)
LEMMA AtRestIs ==
  ASSUME RuntimeInv, NEW g \in Frames, frame[g] # "running"
  PROVE  /\ ~LoopOn(stack, g) /\ ~RunsOn(stack, g)
         /\ frame[g] # "suspended" => \A f \in Frames : awaits[f] # g
         /\ frame[g] \notin Asleep => awaits[g] = main
<1>1. ~RunsOn(stack, g)
  BY DEF RuntimeInv, StackInv
<1>2. ~LoopOn(stack, g)
  BY <1>1, LoopRuns DEF RuntimeInv, StackInv
<1>3. frame[g] # "suspended" => continuations[g] = <<>>
  BY DEF RuntimeInv, TypeInv, FrameInv, States
<1>4. frame[g] # "suspended" => \A f \in Frames : awaits[f] # g
  BY <1>2, <1>3, ListOfNone DEF RuntimeInv, HandleInv
<1>5. QED
  BY <1>1, <1>2, <1>4 DEF RuntimeInv, HandleInv

LEMMA TasksHaveNoLoop ==
  ASSUME RuntimeInv, NEW g \in TaskFrames
  PROVE  ~LoopOn(stack, g) /\ g \in Frames /\ g # main
<1>1. g \in Frames /\ g # main
  BY Kinds DEF Frames
<1>2. g \notin Sources
  BY <1>1, Kinds DEF Sources, TaskFrames, SharedFrames, SmartFrames, Pages
<1>3. QED
  BY <1>1, <1>2, LoopIsSource DEF RuntimeInv, StackInv

(* A stack with the same loops leaves every handle in place.               *)
LEMMA LoopsKept ==
  ASSUME NEW st, NEW t, SameLoops(st, t), Shape(st), Shape(t)
  PROVE  /\ \A g \in Frames : LoopOn(t, g) <=> LoopOn(st, g)
         /\ LoopOn(t, "zero") <=> LoopOn(st, "zero")
         /\ \A f, g \in Frames : InTodo(t, f, g) <=> InTodo(st, f, g)
         /\ \A f \in Frames : InTodo(t, f, "zero") <=> InTodo(st, f, "zero")
<1>1. \A g \in Frames : g # main
  BY FramesAssumption
<1>2. ASSUME NEW g \in Frames, g \notin Sources
      PROVE  ~LoopOn(st, g) /\ ~LoopOn(t, g)
  BY <1>1, <1>2, LoopIsSource
<1>3. "zero" \in Sources
  BY DEF Sources
<1>4. \A g \in Frames : LoopOn(t, g) <=> LoopOn(st, g)
  BY <1>2 DEF SameLoops
<1>5. ASSUME NEW f \in Frames, NEW g \in Frames
      PROVE  InTodo(t, f, g) <=> InTodo(st, f, g)
  BY <1>2, NoLoopNoTodo DEF SameLoops
<1>6. QED
  BY <1>3, <1>4, <1>5 DEF SameLoops

(* The first three parts of the invariant. *)
HandlesInv == TypeInv /\ StackInv /\ HandleInv

LEMMA StepCall ==
  ASSUME RuntimeInv, NEW g \in Frames, NEW caller \in Frames \cup {main}, Call(caller, g)
  PROVE  HandlesInv'
<1>1. /\ frame[g] = "none"
      /\ \A f \in Frames : frame'[f] = IF f = g THEN "running" ELSE frame[f]
      /\ \A f \in Frames : outcome'[f] = IF f = g THEN "pending" ELSE outcome[f]
      /\ UNCHANGED <<continuations, awaits, io, criteriaVars>>
  BY DEF Call, RuntimeInv, TypeInv
<1>2. TypeInv'
  BY <1>1 DEF Call, RuntimeInv, TypeInv, criteriaVars, States
<1>3. ~LoopOn(stack, g) /\ ~RunsOn(stack, g) /\ awaits[g] = main /\ \A f \in Frames : awaits[f] # g
  BY <1>1, AtRestIs DEF Asleep
<1>4. /\ Shape(stack') /\ SameLoops(stack, stack') /\ Shape(stack)
      /\ \A f \in Frames : RunsOn(stack', f) <=> RunsOn(stack, f) \/ f = g
  BY <1>3, RunPushed DEF RuntimeInv, StackInv, Call
<1>5. /\ \A f \in Frames : LoopOn(stack', f) <=> LoopOn(stack, f)
      /\ LoopOn(stack', "zero") <=> LoopOn(stack, "zero")
      /\ \A f, h \in Frames : InTodo(stack', f, h) <=> InTodo(stack, f, h)
      /\ \A f \in Frames : InTodo(stack', f, "zero") <=> InTodo(stack, f, "zero")
  BY <1>4, LoopsKept
<1>7. StackInv'
  BY <1>1, <1>3, <1>4, <1>5 DEF RuntimeInv, StackInv, criteriaVars
<1>8. HandleInv'
  BY <1>1, <1>3, <1>5 DEF RuntimeInv, HandleInv, criteriaVars, Asleep
<1>10. QED
  BY <1>2, <1>7, <1>8 DEF HandlesInv

(* What a suspension changes, whatever it waits for.                       *)

LEMMA SuspensionIs ==
  ASSUME RuntimeInv, NEW f \in Frames, Running = f, NEW what \in Reasons \ {main}, Suspends(f, what)
  PROVE  /\ \A x \in Frames : frame'[x] = IF x = f THEN "suspended" ELSE frame[x]
         /\ \A x \in Frames : awaits'[x] = IF x = f THEN what ELSE awaits[x]
         /\ frame' \in [Frames -> States]
         /\ awaits' \in [Frames -> Reasons]
         /\ Shape(stack')
         /\ \A x \in Frames : frame'[x] = "running" <=> RunsOn(stack', x)
         /\ \A x \in Frames : frame'[x] \in Asleep <=> awaits'[x] # main
         /\ \A g \in Frames : LoopOn(stack', g) <=> LoopOn(stack, g)
         /\ LoopOn(stack', "zero") <=> LoopOn(stack, "zero")
         /\ \A x, g \in Frames : InTodo(stack', x, g) <=> InTodo(stack, x, g)
         /\ \A x \in Frames : InTodo(stack', x, "zero") <=> InTodo(stack, x, "zero")
<1>1. stack # <<>> /\ Last(stack).run = f /\ Shape(stack) /\ stack' = Front(stack)
  BY TopIs DEF RuntimeInv, StackInv, Suspends, Below
<1>2. /\ Shape(stack') /\ SameLoops(stack, stack')
      /\ \A g \in Frames : RunsOn(stack', g) <=> RunsOn(stack, g) /\ g # f
  BY <1>1, RunPopped
<1>3. /\ \A x \in Frames : frame'[x] = IF x = f THEN "suspended" ELSE frame[x]
      /\ \A x \in Frames : awaits'[x] = IF x = f THEN what ELSE awaits[x]
      /\ frame' \in [Frames -> States]
      /\ awaits' \in [Frames -> Reasons]
  BY DEF Suspends, RuntimeInv, TypeInv, States
<1>4. \A x \in Frames : frame'[x] = "running" <=> RunsOn(stack', x)
  BY <1>2, <1>3 DEF RuntimeInv, StackInv
<1>5. \A x \in Frames : frame'[x] \in Asleep <=> awaits'[x] # main
  BY <1>3 DEF RuntimeInv, HandleInv, Asleep
<1>6. /\ \A g \in Frames : LoopOn(stack', g) <=> LoopOn(stack, g)
      /\ LoopOn(stack', "zero") <=> LoopOn(stack, "zero")
      /\ \A x, g \in Frames : InTodo(stack', x, g) <=> InTodo(stack, x, g)
      /\ \A x \in Frames : InTodo(stack', x, "zero") <=> InTodo(stack, x, "zero")
  BY <1>1, <1>2, LoopsKept
<1>7. QED
  BY <1>2, <1>3, <1>4, <1>5, <1>6

(* A coroutine that is free to go on holds no Task.                        *)

LEMMA StepAwaitIO ==
  ASSUME RuntimeInv, NEW f \in Frames, AwaitIO(f)
  PROVE  HandlesInv'
<1>1. /\ Free(f) /\ Running = f /\ Suspends(f, "io") /\ io' = io \cup {f}
      /\ UNCHANGED <<outcome, continuations, owner, criteriaVars>>
  BY DEF AwaitIO, Free
<1>2. "io" \in Reasons \ {main} /\ "io" \notin Frames /\ "io" \notin TaskFrames
  BY FramesAssumption DEF Reasons, Frames
<1>3. /\ \A x \in Frames : awaits'[x] = IF x = f THEN "io" ELSE awaits[x]
      /\ frame' \in [Frames -> States]
      /\ awaits' \in [Frames -> Reasons]
      /\ Shape(stack')
      /\ \A x \in Frames : frame'[x] = "running" <=> RunsOn(stack', x)
      /\ \A x \in Frames : frame'[x] \in Asleep <=> awaits'[x] # main
      /\ \A g \in Frames : LoopOn(stack', g) <=> LoopOn(stack, g)
      /\ LoopOn(stack', "zero") <=> LoopOn(stack, "zero")
      /\ \A x, g \in Frames : InTodo(stack', x, g) <=> InTodo(stack, x, g)
      /\ \A x \in Frames : InTodo(stack', x, "zero") <=> InTodo(stack, x, "zero")
  BY <1>1, <1>2, SuspensionIs
<1>4. TypeInv'
  BY <1>1, <1>3 DEF RuntimeInv, TypeInv, criteriaVars
<1>5. StackInv'
  BY <1>1, <1>3 DEF RuntimeInv, StackInv, criteriaVars
<1>6. awaits[f] = main /\ f \notin ToSet(waiting_coroutines) /\ ~InTodo(stack, f, "zero")
      /\ \A g \in Frames : IF LoopOn(stack, g) THEN ~InTodo(stack, f, g)
                           ELSE f \notin ToSet(continuations[g])
  BY <1>1, TopIs
<1>7. HandleInv'
  BY <1>1, <1>2, <1>3, <1>6 DEF RuntimeInv, HandleInv, criteriaVars
<1>9. QED
  BY <1>4, <1>5, <1>7 DEF HandlesInv

LEMMA StepAwaitZero ==
  ASSUME RuntimeInv, NEW f \in Frames, AwaitZero(f)
  PROVE  HandlesInv'
<1>1. /\ Free(f) /\ Running = f /\ Suspends(f, "zero")
      /\ waiting_coroutines' = Append(waiting_coroutines, f)
      /\ UNCHANGED <<outcome, continuations, owner, io, counted, is_evaluating_criteria>>
  BY DEF AwaitZero, Free
<1>2. "zero" \in Reasons \ {main} /\ "zero" \notin Frames /\ "zero" \notin TaskFrames
  BY FramesAssumption DEF Reasons, Frames
<1>3. /\ \A x \in Frames : awaits'[x] = IF x = f THEN "zero" ELSE awaits[x]
      /\ frame' \in [Frames -> States]
      /\ awaits' \in [Frames -> Reasons]
      /\ Shape(stack')
      /\ \A x \in Frames : frame'[x] = "running" <=> RunsOn(stack', x)
      /\ \A x \in Frames : frame'[x] \in Asleep <=> awaits'[x] # main
      /\ \A g \in Frames : LoopOn(stack', g) <=> LoopOn(stack, g)
      /\ LoopOn(stack', "zero") <=> LoopOn(stack, "zero")
      /\ \A x, g \in Frames : InTodo(stack', x, g) <=> InTodo(stack, x, g)
      /\ \A x \in Frames : InTodo(stack', x, "zero") <=> InTodo(stack, x, "zero")
  BY <1>1, <1>2, SuspensionIs
<1>4. awaits[f] = main /\ f \notin io /\ f \notin ToSet(waiting_coroutines) /\ ~InTodo(stack, f, "zero")
      /\ \A g \in Frames : IF LoopOn(stack, g) THEN ~InTodo(stack, f, g)
                           ELSE f \notin ToSet(continuations[g])
  BY <1>1, TopIs
<1>5. /\ waiting_coroutines' \in Seq(Frames) /\ IsInjective(waiting_coroutines')
      /\ ToSet(waiting_coroutines') = ToSet(waiting_coroutines) \cup {f}
  BY <1>1, <1>4, ListExtended DEF RuntimeInv, TypeInv, HandleInv
<1>6. TypeInv'
  BY <1>1, <1>3, <1>5 DEF RuntimeInv, TypeInv
<1>7. StackInv'
  BY <1>1, <1>3 DEF RuntimeInv, StackInv
<1>8. HandleInv'
  <2>1. /\ \A x \in Frames : frame'[x] \in Asleep <=> awaits'[x] # main
        /\ \A x \in Frames : awaits'[x] = "io" <=> x \in io'
        /\ \A g \in Frames : IsInjective(continuations'[g])
        /\ IsInjective(waiting_coroutines')
    BY <1>1, <1>3, <1>4, <1>5 DEF RuntimeInv, HandleInv
  <2>2. \A x \in Frames : awaits'[x] = "zero" <=>
          x \in ToSet(waiting_coroutines') \/ InTodo(stack', x, "zero")
    BY <1>3, <1>4, <1>5 DEF RuntimeInv, HandleInv
  <2>3. \A x \in Frames : ~(x \in ToSet(waiting_coroutines') /\ InTodo(stack', x, "zero"))
    BY <1>3, <1>4, <1>5 DEF RuntimeInv, HandleInv
  <2>4. \A x, g \in Frames : awaits'[x] = g <=>
          IF LoopOn(stack', g) THEN InTodo(stack', x, g) ELSE x \in ToSet(continuations'[g])
    BY <1>1, <1>2, <1>3, <1>4 DEF RuntimeInv, HandleInv
  <2>5. QED
    BY <2>1, <2>2, <2>3, <2>4 DEF HandleInv
<1>10. QED
  BY <1>6, <1>7, <1>8 DEF HandlesInv

LEMMA StepAwaitShared ==
  ASSUME RuntimeInv, NEW f \in Frames, NEW g \in Frames, AwaitShared(f, g)
  PROVE  HandlesInv'
<1>1. /\ Free(f) /\ Running = f /\ Suspends(f, g) /\ g \notin TaskFrames
      /\ frame[g] # "none" /\ outcome[g] = "pending"
      /\ continuations' = [continuations EXCEPT ![g] = Append(@, f)]
      /\ UNCHANGED <<outcome, owner, io, criteriaVars>>
  BY Kinds DEF AwaitShared, Free, MayAwait, TaskFrames, SharedFrames, SmartFrames, Pages
<1>2. g \in Reasons \ {main} /\ g # "io" /\ g # "zero" /\ ~LoopOn(stack, g)
  BY <1>1, FramesAssumption DEF Reasons, RuntimeInv, StackInv
<1>3. /\ \A x \in Frames : awaits'[x] = IF x = f THEN g ELSE awaits[x]
      /\ frame' \in [Frames -> States]
      /\ awaits' \in [Frames -> Reasons]
      /\ Shape(stack')
      /\ \A x \in Frames : frame'[x] = "running" <=> RunsOn(stack', x)
      /\ \A x \in Frames : frame'[x] \in Asleep <=> awaits'[x] # main
      /\ \A h \in Frames : LoopOn(stack', h) <=> LoopOn(stack, h)
      /\ LoopOn(stack', "zero") <=> LoopOn(stack, "zero")
      /\ \A x, h \in Frames : InTodo(stack', x, h) <=> InTodo(stack, x, h)
      /\ \A x \in Frames : InTodo(stack', x, "zero") <=> InTodo(stack, x, "zero")
  BY <1>1, <1>2, SuspensionIs
<1>4. awaits[f] = main /\ f \notin io /\ f \notin ToSet(waiting_coroutines) /\ ~InTodo(stack, f, "zero")
      /\ \A h \in Frames : IF LoopOn(stack, h) THEN ~InTodo(stack, f, h)
                           ELSE f \notin ToSet(continuations[h])
  BY <1>1, TopIs
<1>5. /\ \A h \in Frames : h # g => continuations'[h] = continuations[h]
      /\ continuations'[g] = Append(continuations[g], f)
      /\ continuations[g] \in Seq(Frames)
  BY <1>1 DEF RuntimeInv, TypeInv
<1>6. /\ continuations'[g] \in Seq(Frames) /\ IsInjective(continuations'[g])
      /\ ToSet(continuations'[g]) = ToSet(continuations[g]) \cup {f}
  BY <1>2, <1>4, <1>5, ListExtended DEF RuntimeInv, HandleInv
<1>7. continuations' \in [Frames -> Seq(Frames)]
  BY <1>1, <1>5, <1>6 DEF RuntimeInv, TypeInv
<1>8. TypeInv'
  BY <1>1, <1>3, <1>7 DEF RuntimeInv, TypeInv, criteriaVars
<1>9. StackInv'
  BY <1>1, <1>3 DEF RuntimeInv, StackInv, criteriaVars
<1>10. HandleInv'
  <2>1. /\ \A x \in Frames : frame'[x] \in Asleep <=> awaits'[x] # main
        /\ \A x \in Frames : awaits'[x] = "io" <=> x \in io'
        /\ \A x \in Frames : awaits'[x] = "zero" <=>
             x \in ToSet(waiting_coroutines') \/ InTodo(stack', x, "zero")
        /\ \A x \in Frames : ~(x \in ToSet(waiting_coroutines') /\ InTodo(stack', x, "zero"))
        /\ IsInjective(waiting_coroutines')
    BY <1>1, <1>2, <1>3, <1>4 DEF RuntimeInv, HandleInv, criteriaVars
  <2>2. \A h \in Frames : IsInjective(continuations'[h])
    BY <1>5, <1>6 DEF RuntimeInv, HandleInv
  <2>3. ASSUME NEW x \in Frames, NEW h \in Frames
        PROVE  awaits'[x] = h <=>
                 IF LoopOn(stack', h) THEN InTodo(stack', x, h) ELSE x \in ToSet(continuations'[h])
    <3>1. awaits[x] = h <=>
            IF LoopOn(stack, h) THEN InTodo(stack, x, h) ELSE x \in ToSet(continuations[h])
      BY DEF RuntimeInv, HandleInv
    <3>2. CASE h = g
      BY <1>2, <1>3, <1>6, <3>1, <3>2
    <3>3. CASE h # g
      BY <1>3, <1>4, <1>5, <3>1, <3>3
    <3>4. QED
      BY <3>2, <3>3
  <2>4. QED
    BY <2>1, <2>2, <2>3 DEF HandleInv
<1>12. QED
  BY <1>8, <1>9, <1>10 DEF HandlesInv

LEMMA StepPoll ==
  ASSUME RuntimeInv, NEW f \in Frames, Poll(f)
  PROVE  HandlesInv'
<1>1. /\ stack = <<>> /\ f \in io /\ io' = io \ {f}
      /\ \A x \in Frames : frame'[x] = IF x = f THEN "running" ELSE frame[x]
      /\ \A x \in Frames : awaits'[x] = IF x = f THEN main ELSE awaits[x]
      /\ UNCHANGED <<outcome, continuations, owner, criteriaVars>>
  BY DEF Poll, InMain, RuntimeInv, TypeInv
<1>2. /\ \A x : ~RunsOn(stack, x) /\ ~LoopOn(stack, x)
      /\ \A x, g : ~InTodo(stack, x, g)
      /\ Shape(stack)
  BY <1>1, EmptyStack
<1>3. stack' = Append(stack, Run(f))
  BY <1>1 DEF Poll
<1>4. /\ Shape(stack') /\ SameLoops(stack, stack')
      /\ \A x \in Frames : RunsOn(stack', x) <=> RunsOn(stack, x) \/ x = f
  BY <1>2, <1>3, RunPushed
<1>5. /\ \A g \in Frames : LoopOn(stack', g) <=> LoopOn(stack, g)
      /\ LoopOn(stack', "zero") <=> LoopOn(stack, "zero")
      /\ \A x, g \in Frames : InTodo(stack', x, g) <=> InTodo(stack, x, g)
      /\ \A x \in Frames : InTodo(stack', x, "zero") <=> InTodo(stack, x, "zero")
  BY <1>2, <1>4, LoopsKept
<1>6. awaits[f] = "io" /\ frame[f] = "suspended" /\ "io" \notin Frames \cup {main} /\ main \notin Frames
  BY <1>1, FramesAssumption DEF RuntimeInv, HandleInv, FrameInv, Asleep, Frames, SharedFrames
<1>7. TypeInv'
  BY <1>1 DEF Poll, RuntimeInv, TypeInv, criteriaVars, Reasons, States
<1>8. StackInv'
  BY <1>1, <1>2, <1>4, <1>5 DEF RuntimeInv, StackInv, criteriaVars
<1>9. HandleInv'
  <2>1. main # "io" /\ main # "zero" /\ "io" # "zero"
    BY FramesAssumption
  <2>2. QED
    BY <1>1, <1>5, <1>6, <2>1 DEF RuntimeInv, HandleInv, criteriaVars, Asleep
<1>11. QED
  BY <1>7, <1>8, <1>9 DEF HandlesInv

LEMMA StepDrop ==
  ASSUME RuntimeInv, NEW f \in Frames, Drop(f)
  PROVE  HandlesInv'
<1>1. /\ stack = <<>> /\ owner[f] = main /\ frame[f] = "final"
      /\ \A x \in Frames : frame'[x] = IF x = f THEN "none" ELSE frame[x]
      /\ \A x \in Frames : outcome'[x] = IF x = f THEN "pending" ELSE outcome[x]
      /\ UNCHANGED <<continuations, owner, awaits, stack, io, criteriaVars>>
  BY DEF Drop, InMain, RuntimeInv, TypeInv
<1>2. \A x : ~RunsOn(stack, x) /\ ~LoopOn(stack, x)
  BY <1>1, EmptyStack
<1>3. TypeInv'
  BY <1>1 DEF Drop, RuntimeInv, TypeInv, criteriaVars, States
<1>4. StackInv'
  BY <1>1, <1>2 DEF RuntimeInv, StackInv, criteriaVars
<1>5. HandleInv'
  BY <1>1 DEF RuntimeInv, HandleInv, criteriaVars, Asleep
<1>7. QED
  BY <1>3, <1>4, <1>5 DEF HandlesInv

LEMMA StepRaise ==
  ASSUME RuntimeInv, NEW f \in Frames, Raise(f)
  PROVE  HandlesInv'
BY Kinds DEF Raise, RuntimeInv, HandlesInv, TypeInv, StackInv, HandleInv, frameVars, criteriaVars

LEMMA StepAwaitTask ==
  ASSUME RuntimeInv, NEW f \in Frames, NEW g \in Frames, AwaitTask(f, g)
  PROVE  HandlesInv'
<1>1. /\ Running = f /\ g \in TaskFrames /\ g # main /\ owner[g] = f /\ f # main
      /\ UNCHANGED <<io, criteriaVars>>
  BY Kinds DEF AwaitTask, Held
<1>2. /\ awaits[f] = main /\ frame[f] = "running" /\ ~LoopOn(stack, f) /\ f \notin io
      /\ f \notin ToSet(waiting_coroutines) /\ ~InTodo(stack, f, "zero")
      /\ \A h \in Frames : IF LoopOn(stack, h) THEN ~InTodo(stack, f, h)
                           ELSE f \notin ToSet(continuations[h])
  BY <1>1, TopIs
<1>4. ~LoopOn(stack, g)
  BY <1>1, TasksHaveNoLoop
<1>5. \A x \in Frames : awaits[x] # g
  BY <1>1, <1>2 DEF RuntimeInv, OwnerInv
<1>6. main \notin Frames
  BY FramesAssumption
<1>8. CASE frame[g] = "final"
  <2>1. /\ \A x \in Frames : frame'[x] = IF x = g THEN "none" ELSE frame[x]
        /\ \A x \in Frames : outcome'[x] = IF x = g THEN "pending" ELSE outcome[x]
        /\ \A x \in Frames : owner'[x] = IF x = g THEN main ELSE owner[x]
        /\ UNCHANGED <<continuations, awaits, stack>>
    BY <1>8 DEF AwaitTask, RuntimeInv, TypeInv
  <2>2. TypeInv'
    BY <1>1, <1>8, <2>1 DEF AwaitTask, RuntimeInv, TypeInv, criteriaVars, States
  <2>3. StackInv'
    BY <1>1, <1>4, <1>8, <2>1 DEF RuntimeInv, StackInv, criteriaVars
  <2>4. HandleInv'
    BY <1>1, <1>8, <2>1 DEF RuntimeInv, HandleInv, criteriaVars, Asleep
  <2>6. QED
    BY <2>2, <2>3, <2>4 DEF HandlesInv
<1>9. CASE frame[g] # "final"
  <2>1. /\ \A h \in Frames : continuations'[h] = IF h = g THEN <<f>> ELSE continuations[h]
        /\ continuations' \in [Frames -> Seq(Frames)]
        /\ Suspends(f, g) /\ UNCHANGED <<outcome, owner>>
    <3>1. /\ continuations' = [continuations EXCEPT ![g] = <<f>>]
          /\ Suspends(f, g) /\ UNCHANGED <<outcome, owner>>
      BY <1>9 DEF AwaitTask
    <3>2. <<f>> \in Seq(Frames) /\ continuations \in [Frames -> Seq(Frames)]
      BY DEF RuntimeInv, TypeInv
    <3>3. QED
      BY <1>1, <3>1, <3>2
  <2>2. g \in Reasons \ {main} /\ g # "io" /\ g # "zero"
    BY <1>1, FramesAssumption DEF Reasons
  <2>3. /\ \A x \in Frames : frame'[x] = IF x = f THEN "suspended" ELSE frame[x]
        /\ \A x \in Frames : awaits'[x] = IF x = f THEN g ELSE awaits[x]
        /\ frame' \in [Frames -> States]
        /\ awaits' \in [Frames -> Reasons]
        /\ Shape(stack')
        /\ \A x \in Frames : frame'[x] = "running" <=> RunsOn(stack', x)
        /\ \A x \in Frames : frame'[x] \in Asleep <=> awaits'[x] # main
        /\ \A h \in Frames : LoopOn(stack', h) <=> LoopOn(stack, h)
        /\ LoopOn(stack', "zero") <=> LoopOn(stack, "zero")
        /\ \A x, h \in Frames : InTodo(stack', x, h) <=> InTodo(stack, x, h)
        /\ \A x \in Frames : InTodo(stack', x, "zero") <=> InTodo(stack, x, "zero")
    BY <1>1, <2>1, <2>2, SuspensionIs
  <2>4. ToSet(<<f>>) = {f} /\ IsInjective(<<f>>)
    <3>1. DOMAIN <<f>> = {1} /\ <<f>>[1] = f
      OBVIOUS
    <3>2. QED
      BY <3>1 DEF ToSet, IsInjective
  <2>5. TypeInv'
    BY <1>1, <2>1, <2>3 DEF RuntimeInv, TypeInv, criteriaVars
  <2>6. StackInv'
    BY <1>1, <2>1, <2>3 DEF RuntimeInv, StackInv, criteriaVars
  <2>7. HandleInv'
    <3>1. /\ \A x \in Frames : frame'[x] \in Asleep <=> awaits'[x] # main
          /\ \A x \in Frames : awaits'[x] = "io" <=> x \in io'
          /\ \A x \in Frames : awaits'[x] = "zero" <=>
               x \in ToSet(waiting_coroutines') \/ InTodo(stack', x, "zero")
          /\ \A x \in Frames : ~(x \in ToSet(waiting_coroutines') /\ InTodo(stack', x, "zero"))
          /\ IsInjective(waiting_coroutines')
      BY <1>1, <1>2, <2>2, <2>3 DEF RuntimeInv, HandleInv, criteriaVars
    <3>2. \A h \in Frames : IsInjective(continuations'[h])
      BY <2>1, <2>4 DEF RuntimeInv, HandleInv
    <3>3. ASSUME NEW x \in Frames, NEW h \in Frames
          PROVE  awaits'[x] = h <=>
                   IF LoopOn(stack', h) THEN InTodo(stack', x, h) ELSE x \in ToSet(continuations'[h])
      <4>1. awaits[x] = h <=>
              IF LoopOn(stack, h) THEN InTodo(stack, x, h) ELSE x \in ToSet(continuations[h])
        BY DEF RuntimeInv, HandleInv
      <4>2. CASE h = g
        BY <1>4, <1>5, <2>1, <2>3, <2>4, <4>2
      <4>3. CASE h # g
        BY <1>2, <2>1, <2>3, <4>1, <4>3
      <4>4. QED
        BY <4>2, <4>3
    <3>4. QED
      BY <3>1, <3>2, <3>3 DEF HandleInv
  <2>9. QED
    BY <2>5, <2>6, <2>7 DEF HandlesInv
<1>10. QED
  BY <1>8, <1>9

(* A loop pushed on the stack: what its source held, the loop holds now.   *)

LEMMA LoopStarts ==
  ASSUME RuntimeInv, NEW x \in Sources, ~LoopOn(stack, x),
         NEW handles \in Seq(Frames), IsInjective(handles),
         x \in Frames => stack # <<>> /\ Last(stack).run = x,
         stack' = Append(stack, ResumeLoop(x, handles))
  PROVE  /\ Shape(stack')
         /\ \A f \in Frames : RunsOn(stack', f) <=> RunsOn(stack, f)
         /\ \A g \in Frames : LoopOn(stack', g) <=> LoopOn(stack, g) \/ g = x
         /\ LoopOn(stack', "zero") <=> LoopOn(stack, "zero") \/ x = "zero"
         /\ \A f, g \in Frames : InTodo(stack', f, g) <=>
              InTodo(stack, f, g) \/ (g = x /\ f \in ToSet(handles))
         /\ \A f \in Frames : InTodo(stack', f, "zero") <=>
              InTodo(stack, f, "zero") \/ (x = "zero" /\ f \in ToSet(handles))
<1>1. Shape(stack)
  BY DEF RuntimeInv, StackInv
<1>2. /\ Shape(stack')
      /\ \A f \in Frames : RunsOn(stack', f) <=> RunsOn(stack, f)
      /\ \A y \in Sources : LoopOn(stack', y) <=> LoopOn(stack, y) \/ y = x
      /\ \A y \in Sources : \A f \in Frames :
           InTodo(stack', f, y) <=> InTodo(stack, f, y) \/ (y = x /\ f \in ToSet(handles))
  BY <1>1, LoopPushed
<1>3. ASSUME NEW g \in Frames, g \notin Sources
      PROVE  /\ ~LoopOn(stack, g) /\ ~LoopOn(stack', g) /\ g # x
             /\ \A f : ~InTodo(stack, f, g) /\ ~InTodo(stack', f, g)
  <2>1. g # main
    BY FramesAssumption
  <2>2. QED
    BY <1>1, <1>2, <1>3, <2>1, LoopIsSource, NoLoopNoTodo
<1>4. "zero" \in Sources
  BY DEF Sources
<1>5. QED
  BY <1>2, <1>3, <1>4

LEMMA StepLower ==
  ASSUME RuntimeInv, NEW f \in Frames, Lower(f)
  PROVE  HandlesInv'
<1>1. /\ counted' \in SUBSET Lookups /\ UNCHANGED <<frameVars, awaits, io>>
      /\ Evaluate(counted \ {f})
  BY DEF Lower, RuntimeInv, TypeInv
<1>2. CASE UNCHANGED <<stack, waiting_coroutines, is_evaluating_criteria>>
  BY <1>1, <1>2 DEF RuntimeInv, HandlesInv, TypeInv, StackInv, HandleInv, frameVars
<1>3. CASE ~UNCHANGED <<stack, waiting_coroutines, is_evaluating_criteria>>
  <2>1. /\ ~is_evaluating_criteria /\ is_evaluating_criteria' = TRUE
        /\ waiting_coroutines' = <<>>
        /\ stack' = Append(stack, ResumeLoop("zero", waiting_coroutines))
    BY <1>1, <1>3 DEF Evaluate
  <2>2. /\ waiting_coroutines \in Seq(Frames) /\ IsInjective(waiting_coroutines)
        /\ ~LoopOn(stack, "zero") /\ "zero" \in Sources /\ "zero" \notin Frames
    BY <2>1, FramesAssumption DEF RuntimeInv, TypeInv, HandleInv, StackInv, Sources
  <2>3. /\ Shape(stack')
        /\ \A x \in Frames : RunsOn(stack', x) <=> RunsOn(stack, x)
        /\ \A g \in Frames : LoopOn(stack', g) <=> LoopOn(stack, g)
        /\ LoopOn(stack', "zero")
        /\ \A x, g \in Frames : InTodo(stack', x, g) <=> InTodo(stack, x, g)
        /\ \A x \in Frames : InTodo(stack', x, "zero") <=>
             InTodo(stack, x, "zero") \/ x \in ToSet(waiting_coroutines)
    BY <2>1, <2>2, LoopStarts
  <2>4. TypeInv'
    BY <1>1, <2>1 DEF RuntimeInv, TypeInv, frameVars
  <2>5. StackInv'
    BY <1>1, <2>1, <2>3 DEF RuntimeInv, StackInv, frameVars
  <2>6. HandleInv'
    BY <1>1, <2>1, <2>3, ListOfNone DEF RuntimeInv, HandleInv, frameVars
  <2>8. QED
    BY <2>4, <2>5, <2>6 DEF HandlesInv
<1>4. QED
  BY <1>2, <1>3

(* A loop taken from the stack: nobody is resumed from its source anymore. *)

LEMMA LoopEnds ==
  ASSUME RuntimeInv, NEW x, Loop = x, x # main
  PROVE  /\ stack # <<>> /\ Shape(Below) /\ x \in Sources /\ LoopOn(stack, x)
         /\ Last(stack).todo \in Seq(Frames) /\ IsInjective(Last(stack).todo)
         /\ x \in Frames => Below # <<>> /\ Last(Below).run = x
         /\ \A f \in Frames : InTodo(stack, f, x) <=> f \in ToSet(Last(stack).todo)
         /\ \A f \in Frames : RunsOn(Below, f) <=> RunsOn(stack, f)
         /\ \A g \in Frames : LoopOn(Below, g) <=> LoopOn(stack, g) /\ g # x
         /\ LoopOn(Below, "zero") <=> LoopOn(stack, "zero") /\ x # "zero"
         /\ \A f, g \in Frames : InTodo(Below, f, g) <=> InTodo(stack, f, g) /\ g # x
         /\ \A f \in Frames : InTodo(Below, f, "zero") <=> InTodo(stack, f, "zero") /\ x # "zero"
         /\ ~LoopOn(Below, x)
<1>1. stack # <<>> /\ Last(stack).loop = x /\ Shape(stack)
  BY DEF Loop, RuntimeInv, StackInv
<1>2. /\ Shape(Below) /\ x \in Sources /\ LoopOn(stack, x)
      /\ Last(stack).todo \in Seq(Frames) /\ IsInjective(Last(stack).todo)
      /\ x \in Frames => Below # <<>> /\ Last(Below).run = x
      /\ \A f \in Frames : RunsOn(Below, f) <=> RunsOn(stack, f)
      /\ \A f \in Frames : InTodo(stack, f, x) <=> f \in ToSet(Last(stack).todo)
      /\ \A y \in Sources : LoopOn(Below, y) <=> LoopOn(stack, y) /\ y # x
      /\ \A y \in Sources : \A f \in Frames : InTodo(Below, f, y) <=> InTodo(stack, f, y) /\ y # x
  BY <1>1, LoopPopped DEF Below
<1>3. ASSUME NEW g \in Frames, g \notin Sources
      PROVE  /\ ~LoopOn(stack, g) /\ ~LoopOn(Below, g) /\ g # x
             /\ \A f : ~InTodo(stack, f, g) /\ ~InTodo(Below, f, g)
  <2>1. g # main
    BY FramesAssumption
  <2>2. QED
    BY <1>1, <1>2, <1>3, <2>1, LoopIsSource, NoLoopNoTodo
<1>4. "zero" \in Sources
  BY DEF Sources
<1>5. QED
  BY <1>1, <1>2, <1>3, <1>4

LEMMA StepEndNotification ==
  ASSUME RuntimeInv, EndNotification
  PROVE  HandlesInv'
<1>1. /\ Loop = "zero" /\ Last(stack).todo = <<>> /\ is_evaluating_criteria' = FALSE
      /\ stack' = Below
      /\ UNCHANGED <<frame, outcome, continuations, owner, awaits, io, counted, waiting_coroutines>>
  BY DEF EndNotification, frameVars
<1>2. "zero" # main /\ "zero" \notin Frames
  BY FramesAssumption
<1>3. /\ Shape(stack')
      /\ \A f \in Frames : ~InTodo(stack, f, "zero")
      /\ \A f \in Frames : RunsOn(stack', f) <=> RunsOn(stack, f)
      /\ \A g \in Frames : LoopOn(stack', g) <=> LoopOn(stack, g)
      /\ ~LoopOn(stack', "zero")
      /\ \A f, g \in Frames : InTodo(stack', f, g) <=> InTodo(stack, f, g)
      /\ \A f \in Frames : ~InTodo(stack', f, "zero")
  BY <1>1, <1>2, LoopEnds, ListOfNone
<1>4. TypeInv'
  BY <1>1 DEF RuntimeInv, TypeInv
<1>5. StackInv'
  BY <1>1, <1>3 DEF RuntimeInv, StackInv
<1>6. HandleInv'
  BY <1>1, <1>3 DEF RuntimeInv, HandleInv
<1>8. QED
  BY <1>4, <1>5, <1>6 DEF HandlesInv

LEMMA StepEndShared ==
  ASSUME RuntimeInv, NEW f \in Frames, NEW threw \in BOOLEAN, EndShared(f, threw)
  PROVE  HandlesInv'
<1> PICK handles : handles = IF f \in SharedFrames /\ ~threw THEN Reverse(continuations[f])
                             ELSE continuations[f]
  OBVIOUS
<1>1. /\ Free(f) /\ Running = f /\ f \in Sources
      /\ \A x \in Frames : outcome'[x] = IF x = f THEN "known" ELSE outcome[x]
      /\ stack' = Append(stack, ResumeLoop(f, handles))
      /\ \A g \in Frames : g # f => continuations'[g] = continuations[g]
      /\ continuations'[f] = continuations[f] \/ continuations'[f] = <<>>
      /\ UNCHANGED <<frame, owner, awaits, io, criteriaVars>>
  BY DEF EndShared, Free, Sources, Frames, RuntimeInv, TypeInv
<1>2. stack # <<>> /\ Last(stack).run = f /\ ~LoopOn(stack, f) /\ frame[f] = "running"
  BY <1>1, TopIs
<1>3. continuations[f] \in Seq(Frames) /\ IsInjective(continuations[f])
  BY DEF RuntimeInv, TypeInv, HandleInv
<1>4. handles \in Seq(Frames) /\ IsInjective(handles) /\ ToSet(handles) = ToSet(continuations[f])
  BY <1>3, ListReversed
<1>5. f # "zero"
  BY FramesAssumption
<1>6. /\ Shape(stack')
      /\ \A x \in Frames : RunsOn(stack', x) <=> RunsOn(stack, x)
      /\ \A g \in Frames : LoopOn(stack', g) <=> LoopOn(stack, g) \/ g = f
      /\ LoopOn(stack', "zero") <=> LoopOn(stack, "zero")
      /\ \A x, g \in Frames : InTodo(stack', x, g) <=>
           InTodo(stack, x, g) \/ (g = f /\ x \in ToSet(handles))
      /\ \A x \in Frames : InTodo(stack', x, "zero") <=> InTodo(stack, x, "zero")
  BY <1>1, <1>2, <1>4, <1>5, LoopStarts
<1>7. TypeInv'
  <2>1. outcome' \in [Frames -> {"pending", "known"}]
    BY DEF EndShared, RuntimeInv, TypeInv
  <2>2. continuations' \in [Frames -> Seq(Frames)]
    BY DEF EndShared, RuntimeInv, TypeInv
  <2>3. QED
    BY <1>1, <2>1, <2>2 DEF RuntimeInv, TypeInv, criteriaVars
<1>8. StackInv'
  BY <1>1, <1>6 DEF RuntimeInv, StackInv, criteriaVars
<1>9. HandleInv'
  <2>1. /\ \A x \in Frames : frame'[x] \in Asleep <=> awaits'[x] # main
        /\ \A x \in Frames : awaits'[x] = "io" <=> x \in io'
        /\ \A x \in Frames : awaits'[x] = "zero" <=>
             x \in ToSet(waiting_coroutines') \/ InTodo(stack', x, "zero")
        /\ \A x \in Frames : ~(x \in ToSet(waiting_coroutines') /\ InTodo(stack', x, "zero"))
        /\ IsInjective(waiting_coroutines')
    BY <1>1, <1>6 DEF RuntimeInv, HandleInv, criteriaVars
  <2>2. \A h \in Frames : IsInjective(continuations'[h])
    BY <1>1, <1>3, ListOfNone DEF RuntimeInv, HandleInv
  <2>3. ASSUME NEW x \in Frames, NEW h \in Frames
        PROVE  awaits'[x] = h <=>
                 IF LoopOn(stack', h) THEN InTodo(stack', x, h) ELSE x \in ToSet(continuations'[h])
    <3>1. awaits[x] = h <=>
            IF LoopOn(stack, h) THEN InTodo(stack, x, h) ELSE x \in ToSet(continuations[h])
      BY DEF RuntimeInv, HandleInv
    <3>2. CASE h = f
      BY <1>1, <1>2, <1>4, <1>6, <3>1, <3>2, NoLoopNoTodo
    <3>3. CASE h # f
      BY <1>1, <1>6, <3>1, <3>3
    <3>4. QED
      BY <3>2, <3>3
  <2>4. QED
    BY <2>1, <2>2, <2>3 DEF HandleInv
<1>11. QED
  BY <1>7, <1>8, <1>9 DEF HandlesInv

LEMMA StepEndFrame ==
  ASSUME RuntimeInv, EndFrame
  PROVE  HandlesInv'
<1> PICK l : l = Loop
  OBVIOUS
<1>1. /\ l \in Frames /\ l # main /\ Last(stack).todo = <<>> /\ stack' = Front(Below)
      /\ continuations' = [continuations EXCEPT ![l] = <<>>]
      /\ frame' = [frame EXCEPT ![l] = "none"]
      /\ outcome' = [outcome EXCEPT ![l] = "pending"]
      /\ owner' = Detached(l, {l})
      /\ UNCHANGED <<awaits, io, criteriaVars>>
  BY FramesAssumption DEF EndFrame
<1>2. /\ \A x \in Frames : continuations'[x] = IF x = l THEN <<>> ELSE continuations[x]
      /\ \A x \in Frames : frame'[x] = IF x = l THEN "none" ELSE frame[x]
      /\ \A x \in Frames : outcome'[x] = IF x = l THEN "pending" ELSE outcome[x]
      /\ owner' \in [Frames -> Frames \cup {main}]
  BY <1>1 DEF RuntimeInv, TypeInv, Detached
<1>3. /\ Shape(Below) /\ l \in Sources /\ LoopOn(stack, l)
      /\ Below # <<>> /\ Last(Below).run = l
      /\ \A f \in Frames : ~InTodo(stack, f, l)
      /\ \A f \in Frames : RunsOn(Below, f) <=> RunsOn(stack, f)
      /\ \A g \in Frames : LoopOn(Below, g) <=> LoopOn(stack, g) /\ g # l
      /\ LoopOn(Below, "zero") <=> LoopOn(stack, "zero")
      /\ \A f, g \in Frames : InTodo(Below, f, g) <=> InTodo(stack, f, g) /\ g # l
      /\ \A f \in Frames : InTodo(Below, f, "zero") <=> InTodo(stack, f, "zero")
  <2>1. l # "zero"
    BY <1>1, FramesAssumption
  <2>2. QED
    BY <1>1, <2>1, LoopEnds, ListOfNone
<1>4. /\ Shape(stack') /\ SameLoops(Below, stack')
      /\ \A g \in Frames : RunsOn(stack', g) <=> RunsOn(Below, g) /\ g # l
  BY <1>1, <1>3, RunPopped
<1>5. /\ \A g \in Frames : LoopOn(stack', g) <=> LoopOn(Below, g)
      /\ LoopOn(stack', "zero") <=> LoopOn(Below, "zero")
      /\ \A f, g \in Frames : InTodo(stack', f, g) <=> InTodo(Below, f, g)
      /\ \A f \in Frames : InTodo(stack', f, "zero") <=> InTodo(Below, f, "zero")
  BY <1>3, <1>4, LoopsKept
<1>6. /\ frame[l] = "running" /\ l \notin TaskFrames
      /\ \A x \in Frames : awaits[x] # l
  <2>1. frame[l] = "running"
    BY <1>1, <1>3, LoopRuns DEF RuntimeInv, StackInv
  <2>2. l \notin TaskFrames
    BY <1>1, <1>3, TasksHaveNoLoop
  <2>4. \A x \in Frames : awaits[x] # l
    BY <1>1, <1>3 DEF RuntimeInv, HandleInv
  <2>5. QED
    BY <2>1, <2>2, <2>4
<1>7. TypeInv'
  <2>1. frame' \in [Frames -> States]
    BY <1>1 DEF RuntimeInv, TypeInv, States
  <2>2. outcome' \in [Frames -> {"pending", "known"}]
    BY <1>1 DEF RuntimeInv, TypeInv
  <2>3. <<>> \in Seq(Frames) /\ continuations \in [Frames -> Seq(Frames)]
    BY DEF RuntimeInv, TypeInv
  <2>4. continuations' \in [Frames -> Seq(Frames)]
    BY <1>1, <2>3
  <2>5. QED
    BY <1>1, <1>2, <2>1, <2>2, <2>4 DEF RuntimeInv, TypeInv, criteriaVars
<1>8. StackInv'
  BY <1>1, <1>2, <1>3, <1>4, <1>5 DEF RuntimeInv, StackInv, criteriaVars
<1>9. HandleInv'
  <2>1. /\ \A x \in Frames : frame'[x] \in Asleep <=> awaits'[x] # main
        /\ \A x \in Frames : awaits'[x] = "io" <=> x \in io'
        /\ \A x \in Frames : awaits'[x] = "zero" <=>
             x \in ToSet(waiting_coroutines') \/ InTodo(stack', x, "zero")
        /\ \A x \in Frames : ~(x \in ToSet(waiting_coroutines') /\ InTodo(stack', x, "zero"))
        /\ IsInjective(waiting_coroutines')
    BY <1>1, <1>2, <1>3, <1>5, <1>6 DEF RuntimeInv, HandleInv, criteriaVars, Asleep
  <2>2. \A h \in Frames : IsInjective(continuations'[h])
    BY <1>2, ListOfNone DEF RuntimeInv, HandleInv
  <2>3. ASSUME NEW x \in Frames, NEW h \in Frames
        PROVE  awaits'[x] = h <=>
                 IF LoopOn(stack', h) THEN InTodo(stack', x, h) ELSE x \in ToSet(continuations'[h])
    <3>1. awaits[x] = h <=>
            IF LoopOn(stack, h) THEN InTodo(stack, x, h) ELSE x \in ToSet(continuations[h])
      BY DEF RuntimeInv, HandleInv
    <3>2. CASE h = l
      BY <1>1, <1>2, <1>3, <1>5, <1>6, <3>2, ListOfNone
    <3>3. CASE h # l
      BY <1>1, <1>2, <1>3, <1>5, <3>1, <3>3
    <3>4. QED
      BY <3>2, <3>3
  <2>4. QED
    BY <2>1, <2>2, <2>3 DEF HandleInv
<1>11. QED
  BY <1>7, <1>8, <1>9 DEF HandlesInv

LEMMA StepResumeNext ==
  ASSUME RuntimeInv, ResumeNext
  PROVE  HandlesInv' /\ \A g \in Frames : LoopOn(stack', g) <=> LoopOn(stack, g)
<1> PICK l, h : l = Loop /\ h = Head(Last(stack).todo)
  OBVIOUS
<1> PICK rest : rest = Tail(Last(stack).todo)
  OBVIOUS
<1> PICK st : st = Append(Below, ResumeLoop(l, rest))
  OBVIOUS
<1>1. /\ l # main /\ Last(stack).todo # <<>>
      /\ frame' = [frame EXCEPT ![h] = "running"]
      /\ awaits' = [awaits EXCEPT ![h] = main]
      /\ stack' = Append(Append(Below, [Last(stack) EXCEPT !.todo = Tail(@)]), Run(h))
      /\ UNCHANGED <<outcome, continuations, owner, io, criteriaVars>>
  BY DEF ResumeNext
<1>2. /\ stack # <<>> /\ Shape(Below) /\ l \in Sources /\ LoopOn(stack, l)
      /\ Last(stack).todo \in Seq(Frames) /\ IsInjective(Last(stack).todo)
      /\ l \in Frames => Below # <<>> /\ Last(Below).run = l
      /\ \A f \in Frames : InTodo(stack, f, l) <=> f \in ToSet(Last(stack).todo)
      /\ \A f \in Frames : RunsOn(Below, f) <=> RunsOn(stack, f)
      /\ \A g \in Frames : LoopOn(Below, g) <=> LoopOn(stack, g) /\ g # l
      /\ LoopOn(Below, "zero") <=> LoopOn(stack, "zero") /\ l # "zero"
      /\ \A f, g \in Frames : InTodo(Below, f, g) <=> InTodo(stack, f, g) /\ g # l
      /\ \A f \in Frames : InTodo(Below, f, "zero") <=> InTodo(stack, f, "zero") /\ l # "zero"
      /\ ~LoopOn(Below, l)
  BY <1>1, LoopEnds
<1>3. /\ h \in Frames /\ h \in ToSet(Last(stack).todo) /\ rest \in Seq(Frames) /\ IsInjective(rest)
      /\ ToSet(rest) = ToSet(Last(stack).todo) \ {h}
  BY <1>1, <1>2, ListTaken
<1>4. [Last(stack) EXCEPT !.todo = Tail(@)] = ResumeLoop(l, rest)
  <2> PICK e : e = Last(stack)
    OBVIOUS
  <2>1. e \in Entries /\ e.loop = l /\ (IsRun(e) \/ IsLoop(e))
    BY <1>1, <1>2, StackShrinks DEF RuntimeInv, StackInv, Loop
  <2>2. e.run = main
    BY <1>1, <2>1 DEF IsRun, IsLoop
  <2> PICK handles : handles = e.todo
    OBVIOUS
  <2>3. e = [run |-> main, loop |-> l, todo |-> handles]
    BY <2>1, <2>2 DEF Entries
  <2>4. [e EXCEPT !.todo = Tail(@)] = [run |-> main, loop |-> l, todo |-> Tail(handles)]
    <3>1. [e EXCEPT !.todo = Tail(@)] = [e EXCEPT !.todo = Tail(e.todo)]
      OBVIOUS
    <3>2. Tail(e.todo) = Tail(handles)
      OBVIOUS
    <3>3. \A r : [e EXCEPT !.todo = r] = [run |-> main, loop |-> l, todo |-> r]
      BY <2>3
    <3>4. QED
      BY <3>1, <3>2, <3>3
  <2>5. QED
    BY <2>4 DEF ResumeLoop
<1>5. /\ Shape(st)
      /\ \A f \in Frames : RunsOn(st, f) <=> RunsOn(Below, f)
      /\ \A y \in Sources : LoopOn(st, y) <=> LoopOn(Below, y) \/ y = l
      /\ \A y \in Sources : \A f \in Frames :
           InTodo(st, f, y) <=> InTodo(Below, f, y) \/ (y = l /\ f \in ToSet(rest))
  <2>1. /\ Shape(Below) /\ l \in Sources /\ ~LoopOn(Below, l)
        /\ l \in Frames => Below # <<>> /\ Last(Below).run = l
        /\ rest \in Seq(Frames) /\ IsInjective(rest)
    BY <1>2, <1>3
  <2>2. QED
    BY ONLY <2>1, LoopPushed, st = Append(Below, ResumeLoop(l, rest))
<1>6. InTodo(stack, h, l) /\ (l \in Frames \/ l = "zero")
  BY <1>2, <1>3 DEF Sources, Frames
<1>7. awaits[h] = l /\ frame[h] = "suspended" /\ ~RunsOn(stack, h)
  <2>1. awaits[h] = l
    BY <1>2, <1>3, <1>6 DEF RuntimeInv, HandleInv
  <2>2. QED
    BY <1>1, <1>3, <2>1 DEF RuntimeInv, HandleInv, StackInv, ResumeNext
<1>8. /\ Shape(stack') /\ SameLoops(st, stack')
      /\ \A f \in Frames : RunsOn(stack', f) <=> RunsOn(stack, f) \/ f = h
  <2>1. stack' = Append(st, Run(h)) /\ ~RunsOn(st, h)
    BY <1>1, <1>2, <1>3, <1>4, <1>5, <1>7
  <2>2. /\ Shape(stack') /\ SameLoops(st, stack')
        /\ \A f \in Frames : RunsOn(stack', f) <=> RunsOn(st, f) \/ f = h
    BY <1>3, <1>5, <2>1, RunPushed
  <2>3. QED
    BY <1>2, <1>5, <2>2
<1>9. /\ \A g \in Frames : LoopOn(stack', g) <=> LoopOn(stack, g)
      /\ LoopOn(stack', "zero") <=> LoopOn(stack, "zero")
      /\ \A f, g \in Frames : InTodo(stack', f, g) <=>
           InTodo(stack, f, g) /\ ~(g = l /\ f = h)
      /\ \A f \in Frames : InTodo(stack', f, "zero") <=>
           InTodo(stack, f, "zero") /\ ~(l = "zero" /\ f = h)
  <2>1. /\ \A g \in Frames : LoopOn(stack', g) <=> LoopOn(st, g)
        /\ LoopOn(stack', "zero") <=> LoopOn(st, "zero")
        /\ \A f, g \in Frames : InTodo(stack', f, g) <=> InTodo(st, f, g)
        /\ \A f \in Frames : InTodo(stack', f, "zero") <=> InTodo(st, f, "zero")
    BY <1>5, <1>8, LoopsKept
  <2>2. "zero" \in Sources
    BY DEF Sources
  <2>3. ASSUME NEW g \in Frames, g \notin Sources
        PROVE  /\ ~LoopOn(stack, g) /\ ~LoopOn(st, g) /\ g # l
               /\ \A f : ~InTodo(stack, f, g) /\ ~InTodo(st, f, g)
    <3>1. g # main /\ Shape(stack)
      BY FramesAssumption DEF RuntimeInv, StackInv
    <3>2. QED
      BY <1>2, <1>5, <2>3, <3>1, LoopIsSource, NoLoopNoTodo
  <2>4. \A g \in Frames : LoopOn(st, g) <=> LoopOn(stack, g)
    BY <1>2, <1>5, <2>3
  <2>5. LoopOn(st, "zero") <=> LoopOn(stack, "zero")
    BY <1>2, <1>5, <2>2
  <2>6. \A f, g \in Frames : InTodo(st, f, g) <=> InTodo(stack, f, g) /\ ~(g = l /\ f = h)
    BY <1>2, <1>3, <1>5, <2>3
  <2>7. \A f \in Frames : InTodo(st, f, "zero") <=> InTodo(stack, f, "zero") /\ ~(l = "zero" /\ f = h)
    BY <1>2, <1>3, <1>5, <2>2
  <2>8. QED
    BY <2>1, <2>4, <2>5, <2>6, <2>7
<1>10. /\ \A x \in Frames : frame'[x] = IF x = h THEN "running" ELSE frame[x]
       /\ \A x \in Frames : awaits'[x] = IF x = h THEN main ELSE awaits[x]
  BY <1>1 DEF RuntimeInv, TypeInv
<1>11. TypeInv'
  <2>1. frame' \in [Frames -> States]
    BY <1>1 DEF RuntimeInv, TypeInv, States
  <2>2. awaits' \in [Frames -> Reasons]
    BY <1>1 DEF RuntimeInv, TypeInv, Reasons
  <2>3. UNCHANGED <<outcome, continuations, owner, io, counted, waiting_coroutines,
                    is_evaluating_criteria>>
    BY <1>1 DEF criteriaVars
  <2>4. QED
    BY <2>1, <2>2, <2>3 DEF RuntimeInv, TypeInv
<1>12. StackInv'
  <2>1. \A f \in Frames : frame'[f] = "running" <=> RunsOn(stack', f)
    BY <1>8, <1>10 DEF RuntimeInv, StackInv
  <2>2. UNCHANGED <<outcome, is_evaluating_criteria>>
    BY <1>1 DEF criteriaVars
  <2>3. QED
    BY <1>8, <1>9, <2>1, <2>2 DEF RuntimeInv, StackInv
<1>13. main # "io" /\ main # "zero" /\ main \notin Frames /\ "io" # "zero"
       /\ "io" \notin Frames /\ "zero" \notin Frames
  BY FramesAssumption
<1>14. HandleInv'
  <2>1. \A x \in Frames : frame'[x] \in Asleep <=> awaits'[x] # main
    BY <1>10 DEF RuntimeInv, HandleInv, Asleep
  <2>2. \A x \in Frames : awaits'[x] = "io" <=> x \in io'
    BY <1>1, <1>6, <1>7, <1>10, <1>13 DEF RuntimeInv, HandleInv
  <2>3. h \notin ToSet(waiting_coroutines)
    BY <1>3, <1>6, <1>7, <1>13 DEF RuntimeInv, HandleInv
  <2>4. \A x \in Frames : awaits'[x] = "zero" <=>
          x \in ToSet(waiting_coroutines') \/ InTodo(stack', x, "zero")
    <3>1. ASSUME NEW x \in Frames, x # h
          PROVE  awaits'[x] = "zero" <=>
                   x \in ToSet(waiting_coroutines') \/ InTodo(stack', x, "zero")
      BY <1>1, <1>9, <1>10, <3>1 DEF RuntimeInv, HandleInv, criteriaVars, Asleep
    <3>2. ~InTodo(stack', h, "zero")
      BY <1>3, <1>6, <1>7, <1>9, <1>13 DEF RuntimeInv, HandleInv
    <3>3. QED
      BY <1>1, <1>3, <1>10, <1>13, <2>3, <3>1, <3>2 DEF criteriaVars
  <2>5. /\ \A x \in Frames : ~(x \in ToSet(waiting_coroutines') /\ InTodo(stack', x, "zero"))
        /\ IsInjective(waiting_coroutines')
        /\ \A g \in Frames : IsInjective(continuations'[g])
    BY <1>1, <1>9 DEF RuntimeInv, HandleInv, criteriaVars
  <2>6. ASSUME NEW x \in Frames, NEW g \in Frames
        PROVE  awaits'[x] = g <=>
                 IF LoopOn(stack', g) THEN InTodo(stack', x, g) ELSE x \in ToSet(continuations'[g])
    <3>1. awaits[x] = g <=>
            IF LoopOn(stack, g) THEN InTodo(stack, x, g) ELSE x \in ToSet(continuations[g])
      BY DEF RuntimeInv, HandleInv
    <3>2. CASE x # h
      BY <1>1, <1>9, <1>10, <3>1, <3>2
    <3>3. CASE x = h
      <4>1. awaits'[x] # g /\ (g # l => awaits[x] # g)
        BY <1>7, <1>10, <1>13, <3>3
      <4>2. LoopOn(stack', g) <=> LoopOn(stack, g)
        BY <1>9
      <4>3. InTodo(stack', x, g) <=> InTodo(stack, x, g) /\ ~(g = l /\ x = h)
        BY <1>9
      <4>4. g = l => LoopOn(stack, g)
        BY <1>2
      <4>5. continuations'[g] = continuations[g]
        BY <1>1
      <4>6. QED
        BY <3>1, <3>3, <4>1, <4>2, <4>3, <4>4, <4>5
    <3>4. QED
      BY <3>2, <3>3
  <2>7. QED
    BY <2>1, <2>2, <2>4, <2>5, <2>6 DEF HandleInv
<1>16. QED
  BY <1>9, <1>11, <1>12, <1>14 DEF HandlesInv

LEMMA StepEndTask ==
  ASSUME RuntimeInv, NEW f \in Frames, EndTask(f)
  PROVE  HandlesInv'
<1>1. /\ Free(f) /\ Running = f /\ f \in TaskFrames
      /\ outcome' = [outcome EXCEPT ![f] = "known"]
      /\ owner' = Detached(f, {}) \/ owner' = Detached(f, {f})
      /\ UNCHANGED <<io, criteriaVars>>
  BY DEF EndTask, Free
<1>2. /\ \A x \in Frames : outcome'[x] = IF x = f THEN "known" ELSE outcome[x]
      /\ outcome' \in [Frames -> {"pending", "known"}]
      /\ owner' \in [Frames -> Frames \cup {main}]
  BY <1>1 DEF RuntimeInv, TypeInv, Detached
<1>3. /\ stack # <<>> /\ Last(stack).run = f /\ ~LoopOn(stack, f) /\ Shape(stack)
      /\ frame[f] = "running" /\ awaits[f] = main
  BY <1>1, TopIs DEF RuntimeInv, StackInv
<1>4. /\ Shape(Below) /\ SameLoops(stack, Below)
      /\ \A g \in Frames : RunsOn(Below, g) <=> RunsOn(stack, g) /\ g # f
  BY <1>3, RunPopped DEF Below
<1>5. /\ \A g \in Frames : LoopOn(Below, g) <=> LoopOn(stack, g)
      /\ LoopOn(Below, "zero") <=> LoopOn(stack, "zero")
      /\ \A x, g \in Frames : InTodo(Below, x, g) <=> InTodo(stack, x, g)
      /\ \A x \in Frames : InTodo(Below, x, "zero") <=> InTodo(stack, x, "zero")
  BY <1>3, <1>4, LoopsKept
<1>6. /\ TaskFrames \subseteq Frames
      /\ \A x \in Frames : owner[x] \in Frames \cup {main}
      /\ continuations[f] \in Seq(Frames)
  BY DEF RuntimeInv, TypeInv, Frames
<1>7. main # "io" /\ main # "zero" /\ main \notin Frames /\ "io" # "zero"
      /\ "io" \notin Frames /\ "zero" \notin Frames
  BY FramesAssumption
<1>8. CASE continuations[f] = <<>>
  <2>1. /\ \A x \in Frames : frame'[x] = IF x = f THEN "final" ELSE frame[x]
        /\ frame' \in [Frames -> States]
        /\ stack' = Below /\ UNCHANGED <<continuations, awaits>>
    <3>1. /\ frame' = [frame EXCEPT ![f] = "final"]
          /\ stack' = Below /\ UNCHANGED <<continuations, awaits>>
      BY <1>8, ListOfNone DEF EndTask
    <3>2. QED
      BY <3>1 DEF RuntimeInv, TypeInv, States
  <2>2. \A x \in Frames : awaits[x] # f
    BY <1>3, <1>8, ListOfNone DEF RuntimeInv, HandleInv
  <2>3. TypeInv'
    BY <1>1, <1>2, <2>1 DEF RuntimeInv, TypeInv, criteriaVars
  <2>4. StackInv'
    BY <1>1, <1>2, <1>4, <1>5, <2>1 DEF RuntimeInv, StackInv, criteriaVars
  <2>5. HandleInv'
    BY <1>1, <1>3, <1>5, <2>1 DEF RuntimeInv, HandleInv, criteriaVars, Asleep
  <2>7. QED
    BY <2>3, <2>4, <2>5 DEF HandlesInv
<1>9. CASE continuations[f] # <<>>
  <2>1. PICK h \in ToSet(continuations[f]) :
          /\ frame' = [frame EXCEPT ![f] = "none", ![h] = "running"]
          /\ awaits' = [awaits EXCEPT ![h] = main]
          /\ continuations' = [continuations EXCEPT ![f] = <<>>]
          /\ stack' = Append(Below, Run(h))
    BY <1>9 DEF EndTask
  <2>2. h \in Frames /\ awaits[h] = f /\ frame[h] = "suspended" /\ h # f
    <3>1. h \in Frames
      BY <1>6, ListOfNone
    <3>2. awaits[h] = f
      BY <1>3, <3>1 DEF RuntimeInv, HandleInv
    <3>3. QED
      BY <1>1, <1>3, <1>7, <3>1, <3>2, Kinds DEF RuntimeInv, HandleInv, FrameInv, Asleep, TaskFrames, Pages
  <2>3. /\ \A x \in Frames : frame'[x] = IF x = h THEN "running" ELSE IF x = f THEN "none" ELSE frame[x]
        /\ \A x \in Frames : awaits'[x] = IF x = h THEN main ELSE awaits[x]
        /\ \A x \in Frames : continuations'[x] = IF x = f THEN <<>> ELSE continuations[x]
    BY <2>1, <2>2 DEF RuntimeInv, TypeInv
  <2>4. \A x \in Frames : awaits[x] = f => x = h
    BY <1>1, <2>2 DEF RuntimeInv, OwnerInv
  <2>5. ~RunsOn(Below, h)
    BY <1>4, <2>2 DEF RuntimeInv, StackInv
  <2>6. /\ Shape(stack') /\ SameLoops(Below, stack')
        /\ \A x \in Frames : RunsOn(stack', x) <=> (RunsOn(stack, x) /\ x # f) \/ x = h
    BY <1>4, <2>1, <2>2, <2>5, RunPushed
  <2>7. /\ \A g \in Frames : LoopOn(stack', g) <=> LoopOn(stack, g)
        /\ LoopOn(stack', "zero") <=> LoopOn(stack, "zero")
        /\ \A x, g \in Frames : InTodo(stack', x, g) <=> InTodo(stack, x, g)
        /\ \A x \in Frames : InTodo(stack', x, "zero") <=> InTodo(stack, x, "zero")
    BY <1>4, <1>5, <2>6, LoopsKept
  <2>8. TypeInv'
    <3>1. frame' \in [Frames -> States]
      BY <2>1 DEF RuntimeInv, TypeInv, States
    <3>2. awaits' \in [Frames -> Reasons]
      BY <2>1 DEF RuntimeInv, TypeInv, Reasons
    <3>3. <<>> \in Seq(Frames) /\ continuations \in [Frames -> Seq(Frames)]
      BY DEF RuntimeInv, TypeInv
    <3>4. continuations' \in [Frames -> Seq(Frames)]
      BY <2>1, <3>3
    <3>5. QED
      BY <1>1, <1>2, <3>1, <3>2, <3>4 DEF RuntimeInv, TypeInv, criteriaVars
  <2>9. StackInv'
    BY <1>1, <1>2, <2>2, <2>3, <2>6, <2>7 DEF RuntimeInv, StackInv, criteriaVars
  <2>10. HandleInv'
    <3>1. \A x \in Frames : frame'[x] \in Asleep <=> awaits'[x] # main
      BY <1>3, <2>3 DEF RuntimeInv, HandleInv, Asleep
    <3>2. \A x \in Frames : awaits'[x] = "io" <=> x \in io'
      BY <1>1, <1>7, <2>2, <2>3 DEF RuntimeInv, HandleInv
    <3>3. \A x \in Frames : awaits'[x] = "zero" <=>
            x \in ToSet(waiting_coroutines') \/ InTodo(stack', x, "zero")
      BY <1>1, <1>7, <2>2, <2>3, <2>7 DEF RuntimeInv, HandleInv, criteriaVars
    <3>4. /\ \A x \in Frames : ~(x \in ToSet(waiting_coroutines') /\ InTodo(stack', x, "zero"))
          /\ IsInjective(waiting_coroutines')
          /\ \A g \in Frames : IsInjective(continuations'[g])
      BY <1>1, <2>3, <2>7, ListOfNone DEF RuntimeInv, HandleInv, criteriaVars
    <3>5. ASSUME NEW x \in Frames, NEW g \in Frames
          PROVE  awaits'[x] = g <=>
                   IF LoopOn(stack', g) THEN InTodo(stack', x, g) ELSE x \in ToSet(continuations'[g])
      <4>1. awaits[x] = g <=>
              IF LoopOn(stack, g) THEN InTodo(stack, x, g) ELSE x \in ToSet(continuations[g])
        BY DEF RuntimeInv, HandleInv
      <4>2. CASE g = f
        BY <1>3, <1>7, <2>3, <2>4, <2>7, <4>2, ListOfNone
      <4>3. CASE g # f
        BY <1>7, <2>2, <2>3, <2>7, <4>1, <4>3
      <4>4. QED
        BY <4>2, <4>3
    <3>6. QED
      BY <3>1, <3>2, <3>3, <3>4, <3>5 DEF HandleInv
  <2>12. QED
    BY <2>8, <2>9, <2>10 DEF HandlesInv
<1>10. QED
  BY <1>8, <1>9

(* Over a coroutine that brings pages runs only what is deeper.            *)
LEMMA UnderTop ==
  ASSUME RuntimeInv, NEW f \in Frames, Running = f, NEW x \in Pages, x # f,
         RunsOn(stack, x), ~LoopOn(stack, x)
  PROVE  Deeper(x, f)
<1>1. stack # <<>> /\ Last(stack).run = f /\ stack \in Seq(Entries)
  BY TopIs DEF RuntimeInv, StackInv, Shape
<1> PICK n \in Nat : n = Len(stack)
  BY <1>1
<1>2. n \in DOMAIN stack /\ stack[n].run = f /\ \A i \in DOMAIN stack : i \in Nat /\ i <= n
  BY <1>1 DEF Last
<1>3. PICK i \in DOMAIN stack : stack[i].run = x
  BY DEF RunsOn
<1>4. i < n
  BY <1>2, <1>3
<1>5. Above(stack, stack[i], stack[n])
  BY <1>2, <1>3, <1>4 DEF Above
<1>6. f # main
  BY Kinds
<1>7. QED
  BY <1>2, <1>3, <1>5, <1>6 DEF RuntimeInv, PageInv

(* What a failing prefetch leaves behind: references and acquisitions that *)
(* do not run, some of them waiting for a load and the others for each     *)
(* other.                                                                  *)
LEMMA GoneAre ==
  ASSUME RuntimeInv, NEW p \in Prefetches, Running = p
  PROVE  /\ \A g \in Gone(p) : /\ g \in References \cup Acquisitions /\ g # p /\ g \in Frames
                               /\ frame[g] \in {"suspended", "final"}
                               /\ awaits[g] \in Gone(p) \cup Loads \cup {main}
         /\ \A g \in Dangling(Gone(p)) : g \in Acquisitions /\ awaits[g] \in Loads
         /\ \A g \in Gone(p) \ Dangling(Gone(p)) : awaits[g] \in Gone(p) \cup {main}
         /\ \A f \in Frames : \A g \in Gone(p) : awaits[f] = g => f \in Gone(p)
         /\ \A g \in Gone(p) : owner[g] \in Gone(p) \cup {p}
         /\ \A g \in TaskFrames : owner[g] \in Gone(p) \cup {p} => g \in Gone(p)
<1>1. p \in Frames /\ p # main
  BY Kinds DEF Frames, SmartFrames
<1>2. \A g \in Held(p) : g \in References /\ g \in Gone(p)
  <2>1. \A g \in Held(p) : MayCall(p, g)
    BY <1>1 DEF RuntimeInv, OwnerInv, Held, Frames
  <2>2. QED
    BY <1>1, <2>1, Kinds DEF MayCall, Gone, Pages
<1>3. \A r \in Held(p) : \A g \in Held(r) : g \in Acquisitions /\ g \in Gone(p) /\ owner[g] # main
  <2>1. ASSUME NEW r \in Held(p), NEW g \in Held(r)
        PROVE  g \in Acquisitions /\ g \in Gone(p) /\ owner[g] # main
    <3>1. r \in References /\ r \in Frames /\ r # main /\ owner[g] = r /\ g \in Frames
      BY <1>2, Kinds DEF Held, Frames, TaskFrames
    <3>2. MayCall(r, g)
      BY <3>1 DEF RuntimeInv, OwnerInv
    <3>3. g \in Acquisitions
      BY <3>1, <3>2, Kinds DEF MayCall, Pages
    <3>4. QED
      BY <3>1, <3>3 DEF Gone
  <2>2. QED
    BY <2>1
<1>4. \A g \in Gone(p) : g \in Held(p) \/ \E r \in Held(p) : g \in Held(r)
  BY DEF Gone
<1>5. ASSUME NEW g \in Gone(p)
      PROVE  /\ g \in References \cup Acquisitions /\ g \in TaskFrames /\ g \in Frames /\ g # p
             /\ owner[g] # main /\ owner[g] \in Gone(p) \cup {p}
             /\ g \in References => g \in Held(p)
  <2>1. CASE g \in Held(p)
    BY <1>1, <1>2, <2>1, Kinds DEF Held, Frames
  <2>2. CASE \E r \in Held(p) : g \in Held(r)
    BY <1>2, <1>3, <2>2, Kinds DEF Held, Frames
  <2>3. QED
    BY <1>4, <2>1, <2>2
<1>6. ASSUME NEW g \in Gone(p)
      PROVE  frame[g] \in {"suspended", "final"}
  <2>1. ~LoopOn(stack, g)
    BY <1>5, TasksHaveNoLoop
  <2>2. g \in Pages /\ ~Deeper(g, p)
    BY <1>5, Kinds DEF Deeper, Pages
  <2>3. ~RunsOn(stack, g)
    BY <1>1, <1>5, <2>1, <2>2, UnderTop
  <2>4. frame[g] # "running"
    BY <1>5, <2>3 DEF RuntimeInv, StackInv
  <2>5. QED
    BY <1>5, <2>4 DEF RuntimeInv, TypeInv, OwnerInv, States
<1>7. \A g \in Acquisitions : g \in Gone(p) => awaits[g] \in Loads \cup {main}
  <2> SUFFICES ASSUME NEW g \in Acquisitions, g \in Gone(p), awaits[g] # main, awaits[g] \notin Loads
               PROVE  FALSE
    OBVIOUS
  <2>1. g \in Frames /\ awaits[g] \in TaskFrames
    BY <1>5, Kinds DEF RuntimeInv, AwaitsInv, Pages
  <2>2. owner[awaits[g]] = g /\ awaits[g] \in Frames /\ g # main
    BY <2>1, Kinds DEF RuntimeInv, OwnerInv, Frames
  <2>3. MayCall(g, awaits[g])
    BY <2>1, <2>2 DEF RuntimeInv, OwnerInv
  <2>4. QED
    BY <2>2, <2>3, Kinds DEF MayCall, Pages
<1>8. \A g \in References : g \in Gone(p) => awaits[g] \in Gone(p) \cup {main}
  <2> SUFFICES ASSUME NEW g \in References, g \in Gone(p), awaits[g] # main
               PROVE  awaits[g] \in Gone(p)
    OBVIOUS
  <2>1. g \in Frames /\ awaits[g] \in TaskFrames /\ g \in Held(p)
    BY <1>5, Kinds DEF RuntimeInv, AwaitsInv, Pages
  <2>2. owner[awaits[g]] = g
    BY <2>1 DEF RuntimeInv, OwnerInv, Frames
  <2>3. QED
    BY <1>3, <2>1, <2>2 DEF Held
<1>9. ASSUME NEW g \in Gone(p)
      PROVE  awaits[g] \in Gone(p) \cup Loads \cup {main}
  BY <1>5, <1>7, <1>8
<1>10. \A g \in Dangling(Gone(p)) : g \in Acquisitions /\ awaits[g] \in Loads
  <2> SUFFICES ASSUME NEW g \in Dangling(Gone(p))
               PROVE  g \in Acquisitions /\ awaits[g] \in Loads
    OBVIOUS
  <2>1. g \in Gone(p) /\ frame[g] = "suspended" /\ awaits[g] \notin Gone(p)
    BY DEF Dangling
  <2>2. awaits[g] # main
    BY <1>5, <2>1 DEF RuntimeInv, HandleInv, Asleep
  <2>3. QED
    BY <1>5, <1>7, <1>8, <2>1, <2>2
<1>11. \A g \in Gone(p) \ Dangling(Gone(p)) : awaits[g] \in Gone(p) \cup {main}
  <2> SUFFICES ASSUME NEW g \in Gone(p) \ Dangling(Gone(p)), awaits[g] # main
               PROVE  awaits[g] \in Gone(p)
    OBVIOUS
  <2>1. frame[g] = "suspended"
    BY <1>5, <1>6 DEF RuntimeInv, HandleInv, Asleep
  <2>2. QED
    BY <2>1 DEF Dangling
<1>12. ASSUME NEW f \in Frames, NEW g \in Gone(p), awaits[f] = g
       PROVE  f \in Gone(p)
  <2>1. owner[g] = f
    BY <1>5, <1>12 DEF RuntimeInv, OwnerInv
  <2>2. f # p
    BY <1>1, <1>5, <1>12, TopIs, Kinds
  <2>3. QED
    BY <1>5, <2>1, <2>2
<1>13. ASSUME NEW g \in TaskFrames, owner[g] \in Gone(p) \cup {p}
       PROVE  g \in Gone(p)
  <2>1. CASE owner[g] = p
    BY <2>1 DEF Gone, Held
  <2>2. CASE owner[g] \in Gone(p)
    <3>1. owner[g] \in Frames /\ owner[g] # main /\ g \in Frames
      BY <1>5, <2>2, Kinds DEF Frames
    <3>2. MayCall(owner[g], g)
      BY <3>1 DEF RuntimeInv, OwnerInv
    <3>3. owner[g] \in References
      BY <1>5, <1>13, <2>2, <3>2, Kinds DEF MayCall, TaskFrames, Pages
    <3>4. QED
      BY <1>5, <2>2, <3>3 DEF Gone, Held
  <2>3. QED
    BY <1>13, <2>1, <2>2
<1>14. QED
  BY <1>5, <1>6, <1>9, <1>10, <1>11, <1>12, <1>13

LEMMA StepFailPrefetch ==
  ASSUME RuntimeInv, NEW p \in Frames, FailPrefetch(p)
  PROVE  HandlesInv'
<1> PICK G, D : G = Gone(p) /\ D = Dangling(Gone(p))
  OBVIOUS
<1>1. /\ p \in Prefetches /\ Running = p /\ p \in Sources /\ p # "zero"
      /\ frame' = [g \in Frames |-> IF g \in D THEN "destroyed"
                                    ELSE IF g \in G THEN "none" ELSE frame[g]]
      /\ awaits' = [g \in Frames |-> IF g \in G \ D THEN main ELSE awaits[g]]
      /\ outcome' = [g \in Frames |-> IF g = p THEN "known"
                                      ELSE IF g \in G THEN "pending" ELSE outcome[g]]
      /\ owner' = Detached(p, G)
      /\ stack' = Append(stack, ResumeLoop(p, continuations[p]))
      /\ continuations' = [g \in Frames |-> IF g \in G \cup {p} THEN <<>> ELSE continuations[g]]
      /\ UNCHANGED <<io, criteriaVars>>
  BY Kinds DEF FailPrefetch, Free, Sources, SmartFrames
<1>2. /\ \A g \in G : /\ g # p /\ g \in Frames /\ g \in TaskFrames
                      /\ frame[g] \in {"suspended", "final"}
                      /\ awaits[g] \in G \cup Loads \cup {main}
      /\ \A g \in D : g \in G /\ frame[g] = "suspended" /\ awaits[g] \in Loads
      /\ \A g \in G \ D : awaits[g] \in G \cup {main}
      /\ \A f \in Frames : \A g \in G : awaits[f] = g => f \in G
  BY <1>1, GoneAre DEF Dangling, TaskFrames
<1>3. /\ stack # <<>> /\ Last(stack).run = p /\ ~LoopOn(stack, p) /\ RunsOn(stack, p)
      /\ frame[p] = "running" /\ awaits[p] = main
  BY <1>1, TopIs
<1>4. continuations[p] \in Seq(Frames) /\ IsInjective(continuations[p])
  BY DEF RuntimeInv, TypeInv, HandleInv
<1>5. /\ Shape(stack')
      /\ \A x \in Frames : RunsOn(stack', x) <=> RunsOn(stack, x)
      /\ \A g \in Frames : LoopOn(stack', g) <=> LoopOn(stack, g) \/ g = p
      /\ LoopOn(stack', "zero") <=> LoopOn(stack, "zero")
      /\ \A x, g \in Frames : InTodo(stack', x, g) <=>
           InTodo(stack, x, g) \/ (g = p /\ x \in ToSet(continuations[p]))
      /\ \A x \in Frames : InTodo(stack', x, "zero") <=> InTodo(stack, x, "zero")
  BY <1>1, <1>3, <1>4, LoopStarts
<1>6. main # "io" /\ main # "zero" /\ main \notin Frames /\ "io" \notin Frames /\ "zero" \notin Frames
      /\ Loads \subseteq Frames
  BY FramesAssumption DEF Frames, SharedFrames
<1>7. TypeInv'
  <2>1. frame' \in [Frames -> States]
    BY <1>1 DEF RuntimeInv, TypeInv, States
  <2>2. outcome' \in [Frames -> {"pending", "known"}]
    BY <1>1 DEF RuntimeInv, TypeInv
  <2>3. <<>> \in Seq(Frames) /\ continuations \in [Frames -> Seq(Frames)]
    BY DEF RuntimeInv, TypeInv
  <2>4. continuations' \in [Frames -> Seq(Frames)]
    BY <1>1, <2>3
  <2>5. awaits' \in [Frames -> Reasons]
    BY <1>1 DEF RuntimeInv, TypeInv, Reasons
  <2>6. owner' \in [Frames -> Frames \cup {main}]
    BY <1>1 DEF RuntimeInv, TypeInv, Detached
  <2>7. QED
    BY <1>1, <2>1, <2>2, <2>4, <2>5, <2>6 DEF RuntimeInv, TypeInv, criteriaVars
<1>8. StackInv'
  <2>1. \A f \in Frames : frame'[f] = "running" <=> RunsOn(stack', f)
    BY <1>1, <1>2, <1>5 DEF RuntimeInv, StackInv
  <2>2. \A f \in Frames : LoopOn(stack', f) => outcome'[f] = "known"
    BY <1>1, <1>2, <1>5, TasksHaveNoLoop DEF RuntimeInv, StackInv
  <2>3. QED
    BY <1>1, <1>5, <2>1, <2>2 DEF RuntimeInv, StackInv, criteriaVars
<1>9. HandleInv'
  <2>1. \A x \in Frames : frame'[x] \in Asleep <=> awaits'[x] # main
    BY <1>1, <1>2, <1>6 DEF RuntimeInv, HandleInv, Asleep
  <2>2. \A x \in Frames : awaits'[x] = "io" <=> x \in io'
    BY <1>1, <1>2, <1>6 DEF RuntimeInv, HandleInv
  <2>3. \A x \in Frames : awaits'[x] = "zero" <=> awaits[x] = "zero"
    BY <1>1, <1>2, <1>6
  <2>4. /\ \A x \in Frames : awaits'[x] = "zero" <=>
             x \in ToSet(waiting_coroutines') \/ InTodo(stack', x, "zero")
        /\ \A x \in Frames : ~(x \in ToSet(waiting_coroutines') /\ InTodo(stack', x, "zero"))
        /\ IsInjective(waiting_coroutines')
    BY <1>1, <1>5, <2>3 DEF RuntimeInv, HandleInv, criteriaVars
  <2>5. \A h \in Frames : IsInjective(continuations'[h])
    BY <1>1, ListOfNone DEF RuntimeInv, HandleInv
  <2>6. ASSUME NEW x \in Frames, NEW h \in Frames
        PROVE  awaits'[x] = h <=>
                 IF LoopOn(stack', h) THEN InTodo(stack', x, h) ELSE x \in ToSet(continuations'[h])
    <3>1. awaits[x] = h <=>
            IF LoopOn(stack, h) THEN InTodo(stack, x, h) ELSE x \in ToSet(continuations[h])
      BY DEF RuntimeInv, HandleInv
    <3>2. awaits'[x] = IF x \in G \ D THEN main ELSE awaits[x]
      BY <1>1
    <3>3. CASE h \in G
      <4>1. ~LoopOn(stack', h) /\ continuations'[h] = <<>>
        BY <1>1, <1>2, <1>5, <3>3, TasksHaveNoLoop
      <4>2. awaits[x] = h => x \in G \ D
        BY <1>2, <3>3, Kinds DEF TaskFrames, Pages
      <4>3. awaits'[x] # h
        BY <1>6, <3>2, <4>2
      <4>4. QED
        BY <4>1, <4>3, ListOfNone
    <3>4. CASE h = p
      <4>1. LoopOn(stack', h) /\ ~InTodo(stack, x, h)
        BY <1>3, <1>5, <3>4, NoLoopNoTodo
      <4>2. awaits'[x] = h <=> awaits[x] = h
        BY <1>1, <1>2, <1>6, <3>2, <3>4
      <4>3. QED
        BY <1>3, <1>5, <3>1, <3>4, <4>1, <4>2
    <3>5. CASE h \notin G /\ h # p
      <4>1. awaits'[x] = h <=> awaits[x] = h
        BY <1>2, <1>6, <3>2, <3>5
      <4>2. continuations'[h] = continuations[h]
        BY <1>1, <3>5
      <4>3. QED
        BY <1>5, <3>1, <3>5, <4>1, <4>2
    <3>6. QED
      BY <3>3, <3>4, <3>5
  <2>7. QED
    BY <2>1, <2>2, <2>4, <2>5, <2>6 DEF HandleInv
<1>10. QED
  BY <1>7, <1>8, <1>9 DEF HandlesInv

-------------------------------------------------------------------------------
(***************************************************************************)
(* Who has called whom, and who awaits whom.                               *)
(***************************************************************************)
CallsInv == FrameInv /\ OwnerInv /\ AwaitsInv

TaskCalls ==
  /\ \A f, g \in Frames : awaits[f] = g /\ g \in TaskFrames => owner[g] = f
  /\ \A g \in TaskFrames : owner[g] # main =>
       /\ frame[owner[g]] \in {"running", "suspended"} /\ ~LoopOn(stack, owner[g])
       /\ frame[owner[g]] = "suspended" /\ owner[g] \notin Prefetches => awaits[owner[g]] = g
  /\ \A g, h \in TaskFrames : owner[g] = owner[h] /\ owner[g] \notin Prefetches \cup {main} => g = h

LEMMA CallsCall ==
  ASSUME RuntimeInv, NEW g \in Frames, NEW caller \in Frames \cup {main}, Call(caller, g), HandlesInv'
  PROVE  CallsInv'
<1>1. /\ frame[g] = "none" /\ MayCall(caller, g)
      /\ \A f \in Frames : frame'[f] = IF f = g THEN "running" ELSE frame[f]
      /\ \A f \in Frames : owner'[f] = IF f = g /\ g \notin Loads THEN caller ELSE owner[f]
      /\ UNCHANGED <<continuations, awaits, io, criteriaVars>>
      /\ stack' = Append(stack, Run(g))
  BY DEF Call, RuntimeInv, TypeInv
<1>2. ~LoopOn(stack, g) /\ ~RunsOn(stack, g) /\ awaits[g] = main /\ \A f \in Frames : awaits[f] # g
  BY <1>1, AtRestIs DEF Asleep
<1>3. \A f \in Frames : LoopOn(stack', f) <=> LoopOn(stack, f)
  BY <1>1, <1>2, RunPushed, LoopsKept DEF RuntimeInv, StackInv
<1>4. caller \in Frames => /\ awaits[caller] = main /\ frame[caller] = "running" /\ ~LoopOn(stack, caller)
                           /\ Held(caller) = {} \/ caller \in Prefetches
  BY TopIs, Kinds DEF Call, Free
<1>5. owner[g] = main /\ main \notin Frames /\ TaskFrames \subseteq Frames
  BY <1>1, Kinds DEF RuntimeInv, OwnerInv, Frames
<1>6. \A h \in Frames : owner[h] \in Frames \cup {main}
  BY DEF RuntimeInv, TypeInv
<1>7. FrameInv' /\ AwaitsInv'
  BY <1>1, <1>2 DEF RuntimeInv, FrameInv, AwaitsInv
<1>8. \A h \in TaskFrames : owner'[h] # main =>
        /\ frame'[owner'[h]] \in {"running", "suspended"} /\ ~LoopOn(stack', owner'[h])
        /\ frame'[owner'[h]] = "suspended" /\ owner'[h] \notin Prefetches => awaits'[owner'[h]] = h
  <2> SUFFICES ASSUME NEW h \in TaskFrames, owner'[h] # main
               PROVE  /\ frame'[owner'[h]] \in {"running", "suspended"} /\ ~LoopOn(stack', owner'[h])
                      /\ frame'[owner'[h]] = "suspended" /\ owner'[h] \notin Prefetches => awaits'[owner'[h]] = h
    OBVIOUS
  <2>1. CASE owner'[h] = owner[h]
    <3>1. owner[h] \in Frames /\ frame[owner[h]] \in {"running", "suspended"} /\ ~LoopOn(stack, owner[h])
          /\ (frame[owner[h]] = "suspended" /\ owner[h] \notin Prefetches => awaits[owner[h]] = h)
      BY <1>5, <1>6, <2>1 DEF RuntimeInv, OwnerInv
    <3>2. QED
      BY <1>1, <1>3, <2>1, <3>1
  <2>2. CASE owner'[h] = caller
    BY <1>1, <1>3, <1>4, <2>2
  <2>3. QED
    BY <1>1, <1>5, <2>1, <2>2
<1>9. \A x, h \in TaskFrames : owner'[x] = owner'[h] /\ owner'[x] \notin Prefetches \cup {main} => x = h
  <2>1. \A h \in TaskFrames : owner[h] = caller /\ caller \notin Prefetches \cup {main} => FALSE
    BY <1>4 DEF Held
  <2>2. QED
    BY <1>1, <1>5, <2>1 DEF RuntimeInv, OwnerInv
<1>10. TaskCalls'
  <2>1. \A f, h \in Frames : awaits'[f] = h /\ h \in TaskFrames => owner'[h] = f
    BY <1>1, <1>2 DEF RuntimeInv, OwnerInv
  <2>2. QED
    BY <1>8, <1>9, <2>1 DEF TaskCalls
<1>11. /\ \A f \in Frames : frame'[f] \in {"none", "destroyed"} => owner'[f] = main
       /\ \A h \in Frames : owner'[h] # main => MayCall(owner'[h], h)
  BY <1>1, <1>5 DEF RuntimeInv, OwnerInv
<1>12. QED
  BY <1>7, <1>10, <1>11 DEF TaskCalls, CallsInv, OwnerInv

(* Nobody who suspends keeps a Task it does not await, but a prefetch.     *)
LEMMA CallsSuspend ==
  ASSUME RuntimeInv, NEW f \in Frames, Running = f, NEW what \in Reasons \ {main}, Suspends(f, what),
         owner' = owner,
         \/ Held(f) = {} \/ f \in Prefetches \/ what \in Held(f),
         what \in TaskFrames => owner[what] = f,
         \/ what \in TaskFrames
         \/ f \in Acquisitions /\ what \in Loads
         \/ f \in Modifications /\ what \in Prefetches \cup {"io", "zero"}
         \/ f \in Loads \cup Evictions /\ what = "io",
         \A g \in Frames : frame[g] \in {"none", "final", "destroyed"} =>
                             continuations'[g] = continuations[g]
  PROVE  CallsInv'
<1>1. /\ \A x \in Frames : frame'[x] = IF x = f THEN "suspended" ELSE frame[x]
      /\ \A x \in Frames : awaits'[x] = IF x = f THEN what ELSE awaits[x]
      /\ \A g \in Frames : LoopOn(stack', g) <=> LoopOn(stack, g)
  BY SuspensionIs
<1>2. frame[f] = "running" /\ ~LoopOn(stack, f) /\ f # main
  BY TopIs, Kinds
<1>3. FrameInv'
  BY <1>1, <1>2 DEF RuntimeInv, FrameInv
<1>4. AwaitsInv'
  BY <1>1 DEF RuntimeInv, AwaitsInv
<1>5. TaskFrames \subseteq Frames /\ \A h \in Frames : owner[h] \in Frames \cup {main}
  BY DEF RuntimeInv, TypeInv, Frames
<1>6. ASSUME NEW h \in TaskFrames, owner[h] # main
      PROVE  /\ frame'[owner[h]] \in {"running", "suspended"} /\ ~LoopOn(stack', owner[h])
             /\ frame'[owner[h]] = "suspended" /\ owner[h] \notin Prefetches => awaits'[owner[h]] = h
  <2>1. owner[h] \in Frames /\ frame[owner[h]] \in {"running", "suspended"} /\ ~LoopOn(stack, owner[h])
        /\ (frame[owner[h]] = "suspended" /\ owner[h] \notin Prefetches => awaits[owner[h]] = h)
    BY <1>5, <1>6 DEF RuntimeInv, OwnerInv
  <2>2. CASE owner[h] # f
    BY <1>1, <2>1, <2>2
  <2>3. CASE owner[h] = f /\ f \in Prefetches
    BY <1>1, <1>2, <2>1, <2>3
  <2>4. CASE owner[h] = f /\ f \notin Prefetches
    <3>1. h \in Held(f)
      BY <2>4 DEF Held
    <3>2. what \in TaskFrames /\ owner[what] = f
      BY <2>4, <3>1 DEF Held
    <3>3. what = h
      BY <1>2, <2>4, <3>2 DEF RuntimeInv, OwnerInv
    <3>4. QED
      BY <1>1, <1>2, <2>1, <2>4, <3>3
  <2>5. QED
    BY <2>2, <2>3, <2>4
<1>7. TaskCalls'
  <2>1. \A x, h \in Frames : awaits'[x] = h /\ h \in TaskFrames => owner'[h] = x
    BY <1>1 DEF RuntimeInv, OwnerInv
  <2>2. \A x, h \in TaskFrames : owner'[x] = owner'[h] /\ owner'[x] \notin Prefetches \cup {main} => x = h
    BY DEF RuntimeInv, OwnerInv
  <2>3. QED
    BY <1>6, <2>1, <2>2 DEF TaskCalls
<1>8. /\ \A x \in Frames : frame'[x] \in {"none", "destroyed"} => owner'[x] = main
      /\ \A h \in Frames : owner'[h] # main => MayCall(owner'[h], h)
  BY <1>1 DEF RuntimeInv, OwnerInv
<1>9. QED
  BY <1>3, <1>4, <1>7, <1>8 DEF TaskCalls, CallsInv, OwnerInv

LEMMA CallsAwaitIO ==
  ASSUME RuntimeInv, NEW f \in Frames, AwaitIO(f)
  PROVE  CallsInv'
<1>1. "io" \in Reasons \ {main} /\ "io" \notin TaskFrames
  BY Kinds DEF Reasons, Frames
<1>2. QED
  BY <1>1, CallsSuspend DEF AwaitIO, Free

LEMMA CallsAwaitZero ==
  ASSUME RuntimeInv, NEW f \in Frames, AwaitZero(f)
  PROVE  CallsInv'
<1>1. "zero" \in Reasons \ {main} /\ "zero" \notin TaskFrames
  BY Kinds DEF Reasons, Frames
<1>2. QED
  BY <1>1, CallsSuspend DEF AwaitZero, Free

LEMMA CallsAwaitShared ==
  ASSUME RuntimeInv, NEW f \in Frames, NEW g \in Frames, AwaitShared(f, g)
  PROVE  CallsInv'
<1>1. /\ Free(f) /\ Running = f /\ MayAwait(f, g) /\ Suspends(f, g) /\ owner' = owner
      /\ frame[g] # "none" /\ outcome[g] = "pending"
      /\ continuations' = [continuations EXCEPT ![g] = Append(@, f)]
  BY DEF AwaitShared, Free
<1>2. g \in Reasons \ {main}
  BY Kinds DEF Reasons
<1>3. \/ f \in Acquisitions /\ g \in Loads
      \/ f \in Modifications /\ g \in Prefetches
  BY <1>1 DEF MayAwait
<1>4. g \notin TaskFrames /\ g \notin Acquisitions
  BY <1>3, Kinds DEF TaskFrames, Pages
<1>5. frame[g] \notin {"none", "final", "destroyed"}
  BY <1>1, <1>4 DEF RuntimeInv, FrameInv
<1>6. \A h \in Frames : h # g => continuations'[h] = continuations[h]
  BY <1>1 DEF RuntimeInv, TypeInv
<1>7. QED
  BY <1>1, <1>2, <1>3, <1>4, <1>5, <1>6, CallsSuspend DEF Free

LEMMA CallsAwaitTask ==
  ASSUME RuntimeInv, NEW f \in Frames, NEW g \in Frames, AwaitTask(f, g)
  PROVE  CallsInv'
<1>1. /\ Running = f /\ g \in TaskFrames /\ g # main /\ owner[g] = f /\ f # main /\ g \in Held(f)
      /\ TaskFrames \subseteq Frames
  BY Kinds DEF AwaitTask, Held, Frames
<1>2. frame[g] \notin {"none", "destroyed"}
  BY <1>1 DEF RuntimeInv, OwnerInv
<1>3. \A x \in Frames : awaits[x] # g
  BY <1>1, TopIs DEF RuntimeInv, OwnerInv
<1>4. CASE frame[g] = "final"
  <2>1. /\ \A x \in Frames : frame'[x] = IF x = g THEN "none" ELSE frame[x]
        /\ \A x \in Frames : owner'[x] = IF x = g THEN main ELSE owner[x]
        /\ UNCHANGED <<continuations, awaits, stack>>
    BY <1>4 DEF AwaitTask, RuntimeInv, TypeInv
  <2>2. FrameInv' /\ AwaitsInv'
    BY <1>4, <2>1 DEF RuntimeInv, FrameInv, AwaitsInv
  <2>3. \A h \in TaskFrames : owner[h] # g
    BY <1>1, <1>4 DEF RuntimeInv, OwnerInv
  <2>4. TaskCalls'
    <3>1. \A h \in Frames : owner[h] \in Frames \cup {main}
      BY DEF RuntimeInv, TypeInv
    <3>2. QED
      BY <1>1, <1>3, <2>1, <2>3, <3>1 DEF RuntimeInv, OwnerInv, TaskCalls
  <2>5. /\ \A x \in Frames : frame'[x] \in {"none", "destroyed"} => owner'[x] = main
        /\ \A h \in Frames : owner'[h] # main => MayCall(owner'[h], h)
    BY <2>1 DEF RuntimeInv, OwnerInv
  <2>6. QED
    BY <2>2, <2>4, <2>5 DEF TaskCalls, CallsInv, OwnerInv
<1>5. CASE frame[g] # "final"
  <2>1. /\ continuations' = [continuations EXCEPT ![g] = <<f>>]
        /\ Suspends(f, g) /\ owner' = owner
    BY <1>5 DEF AwaitTask
  <2>2. \A h \in Frames : h # g => continuations'[h] = continuations[h]
    BY <2>1 DEF RuntimeInv, TypeInv
  <2>3. g \in Reasons \ {main}
    BY <1>1 DEF Reasons
  <2>4. QED
    BY <1>1, <1>2, <1>5, <2>1, <2>2, <2>3, CallsSuspend
<1>6. QED
  BY <1>4, <1>5

(* A coroutine is resumed; its Tasks stay with it.                         *)
LEMMA CallsResume ==
  ASSUME RuntimeInv, NEW h \in Frames, UNCHANGED <<owner, continuations>>,
         frame[h] \in {"running", "suspended"},
         frame' = [frame EXCEPT ![h] = "running"], awaits' = [awaits EXCEPT ![h] = main],
         \A g \in Frames : LoopOn(stack', g) <=> LoopOn(stack, g)
  PROVE  CallsInv'
<1>1. /\ \A x \in Frames : frame'[x] = IF x = h THEN "running" ELSE frame[x]
      /\ \A x \in Frames : awaits'[x] = IF x = h THEN main ELSE awaits[x]
  BY DEF RuntimeInv, TypeInv
<1>2. FrameInv' /\ AwaitsInv'
  BY <1>1 DEF RuntimeInv, FrameInv, AwaitsInv
<1>3. \A g \in Frames : owner[g] \in Frames \cup {main}
  BY DEF RuntimeInv, TypeInv
<1>4. TaskFrames \subseteq Frames /\ \A g \in Frames : g # main
  BY Kinds DEF Frames
<1>5. \A g \in TaskFrames : owner[g] # main =>
        /\ frame'[owner[g]] \in {"running", "suspended"} /\ ~LoopOn(stack', owner[g])
        /\ frame'[owner[g]] = "suspended" /\ owner[g] \notin Prefetches => awaits'[owner[g]] = g
  BY <1>1, <1>3, <1>4 DEF RuntimeInv, OwnerInv
<1>6. \A x, g \in Frames : awaits'[x] = g /\ g \in TaskFrames => owner[g] = x
  BY <1>1, <1>4 DEF RuntimeInv, OwnerInv
<1>7. OwnerInv'
  BY <1>1, <1>5, <1>6 DEF RuntimeInv, OwnerInv
<1>8. QED
  BY <1>2, <1>7 DEF CallsInv

LEMMA CallsPoll ==
  ASSUME RuntimeInv, NEW f \in Frames, Poll(f)
  PROVE  CallsInv'
<1>1. /\ stack = <<>> /\ f \in io /\ stack' = <<Run(f)>>
      /\ frame' = [frame EXCEPT ![f] = "running"] /\ awaits' = [awaits EXCEPT ![f] = main]
      /\ UNCHANGED <<owner, continuations>>
  BY DEF Poll, InMain
<1>2. frame[f] = "suspended"
  <2>1. awaits[f] = "io" /\ "io" # main /\ "io" \notin Loads
    BY <1>1, Kinds DEF RuntimeInv, HandleInv, Frames, SharedFrames
  <2>2. QED
    BY <2>1 DEF RuntimeInv, HandleInv, FrameInv, Asleep
<1>3. \A g \in Frames : LoopOn(stack', g) <=> LoopOn(stack, g)
  <2>1. Shape(stack) /\ ~RunsOn(stack, f) /\ stack' = Append(stack, Run(f))
    BY <1>1, EmptyStack
  <2>2. QED
    BY <2>1, RunPushed, LoopsKept
<1>4. QED
  BY <1>1, <1>2, <1>3, CallsResume

LEMMA CallsResumeNext ==
  ASSUME RuntimeInv, ResumeNext, HandlesInv',
         \A g \in Frames : LoopOn(stack', g) <=> LoopOn(stack, g)
  PROVE  CallsInv'
<1> PICK h : h = Head(Last(stack).todo)
  OBVIOUS
<1>1. /\ Loop # main /\ Last(stack).todo # <<>> /\ frame[h] = "suspended"
      /\ frame' = [frame EXCEPT ![h] = "running"] /\ awaits' = [awaits EXCEPT ![h] = main]
      /\ UNCHANGED <<owner, continuations>>
  BY DEF ResumeNext
<1>2. h \in Frames
  BY <1>1, LoopEnds, ListTaken
<1>3. QED
  BY <1>1, <1>2, CallsResume

(* A loop comes or goes, and no more.                                      *)
LEMMA CallsKeep ==
  ASSUME RuntimeInv, UNCHANGED <<frame, awaits, owner>>,
         \A g \in Frames : continuations'[g] = continuations[g] \/ continuations'[g] = <<>>,
         \A g \in Frames : LoopOn(stack', g) => LoopOn(stack, g) \/ Held(g) = {}
  PROVE  CallsInv'
<1>1. \A g \in Frames : owner[g] \in Frames \cup {main}
  BY DEF RuntimeInv, TypeInv
<1>2. \A g \in TaskFrames : owner[g] # main => ~LoopOn(stack', owner[g])
  BY <1>1 DEF RuntimeInv, OwnerInv, Held, Frames
<1>3. OwnerInv'
  BY <1>2 DEF RuntimeInv, OwnerInv
<1>4. FrameInv' /\ AwaitsInv'
  BY DEF RuntimeInv, FrameInv, AwaitsInv
<1>5. QED
  BY <1>3, <1>4 DEF CallsInv

LEMMA CallsLower ==
  ASSUME RuntimeInv, NEW f \in Frames, Lower(f)
  PROVE  CallsInv'
<1>1. UNCHANGED <<frame, awaits, owner, continuations>> /\ Evaluate(counted \ {f})
  BY DEF Lower, frameVars
<1>2. CASE stack' = stack
  BY <1>1, <1>2, CallsKeep
<1>3. CASE stack' # stack
  <2>1. ~is_evaluating_criteria /\ stack' = Append(stack, ResumeLoop("zero", waiting_coroutines))
    BY <1>1, <1>3 DEF Evaluate
  <2>2. /\ waiting_coroutines \in Seq(Frames) /\ IsInjective(waiting_coroutines)
        /\ ~LoopOn(stack, "zero") /\ "zero" \in Sources /\ "zero" \notin Frames
    BY <2>1, FramesAssumption DEF RuntimeInv, TypeInv, HandleInv, StackInv, Sources
  <2>3. \A g \in Frames : LoopOn(stack', g) <=> LoopOn(stack, g)
    BY <2>1, <2>2, LoopStarts
  <2>4. QED
    BY <1>1, <2>3, CallsKeep
<1>4. QED
  BY <1>2, <1>3

LEMMA CallsEndNotification ==
  ASSUME RuntimeInv, EndNotification
  PROVE  CallsInv'
<1>1. /\ Loop = "zero" /\ "zero" # main /\ stack' = Below
      /\ UNCHANGED <<frame, awaits, owner, continuations>>
  BY Kinds DEF EndNotification, frameVars
<1>2. \A g \in Frames : LoopOn(stack', g) => LoopOn(stack, g)
  BY <1>1, LoopEnds
<1>3. QED
  BY <1>1, <1>2, CallsKeep

LEMMA CallsEndShared ==
  ASSUME RuntimeInv, NEW f \in Frames, NEW threw \in BOOLEAN, EndShared(f, threw)
  PROVE  CallsInv'
<1> PICK handles : handles = IF f \in SharedFrames /\ ~threw THEN Reverse(continuations[f])
                             ELSE continuations[f]
  OBVIOUS
<1>1. /\ Running = f /\ f \in Sources /\ Held(f) = {}
      /\ stack' = Append(stack, ResumeLoop(f, handles))
      /\ \A g \in Frames : continuations'[g] = continuations[g] \/ continuations'[g] = <<>>
      /\ UNCHANGED <<frame, owner, awaits>>
  BY DEF EndShared, Free, Sources, Frames, RuntimeInv, TypeInv
<1>2. stack # <<>> /\ Last(stack).run = f /\ ~LoopOn(stack, f)
  BY <1>1, TopIs
<1>3. continuations[f] \in Seq(Frames) /\ IsInjective(continuations[f])
  BY DEF RuntimeInv, TypeInv, HandleInv
<1>4. handles \in Seq(Frames) /\ IsInjective(handles)
  BY <1>3, ListReversed
<1>5. \A g \in Frames : LoopOn(stack', g) <=> LoopOn(stack, g) \/ g = f
  BY <1>1, <1>2, <1>4, LoopStarts
<1>6. QED
  BY <1>1, <1>5, CallsKeep

(* A frame goes, or is kept by its Task only.                              *)
LEMMA CallsDrop ==
  ASSUME RuntimeInv, NEW f \in Frames, Drop(f)
  PROVE  CallsInv'
<1>1. /\ owner[f] = main /\ frame[f] = "final"
      /\ \A x \in Frames : frame'[x] = IF x = f THEN "none" ELSE frame[x]
      /\ UNCHANGED <<continuations, owner, awaits, stack>>
  BY DEF Drop, RuntimeInv, TypeInv
<1>2. FrameInv' /\ AwaitsInv'
  BY <1>1 DEF RuntimeInv, FrameInv, AwaitsInv
<1>3. \A h \in Frames : owner[h] \in Frames \cup {main}
  BY DEF RuntimeInv, TypeInv
<1>4. \A h \in TaskFrames : owner[h] # main =>
        /\ frame'[owner[h]] \in {"running", "suspended"}
        /\ frame'[owner[h]] = "suspended" /\ owner[h] \notin Prefetches => awaits[owner[h]] = h
  <2> SUFFICES ASSUME NEW h \in TaskFrames, owner[h] # main
               PROVE  /\ frame'[owner[h]] \in {"running", "suspended"}
                      /\ frame'[owner[h]] = "suspended" /\ owner[h] \notin Prefetches => awaits[owner[h]] = h
    OBVIOUS
  <2>1. owner[h] \in Frames /\ frame[owner[h]] \in {"running", "suspended"}
        /\ (frame[owner[h]] = "suspended" /\ owner[h] \notin Prefetches => awaits[owner[h]] = h)
    BY <1>3 DEF RuntimeInv, OwnerInv, Frames
  <2>2. QED
    BY <1>1, <2>1
<1>5. OwnerInv'
  BY <1>1, <1>4 DEF RuntimeInv, OwnerInv
<1>6. QED
  BY <1>2, <1>5 DEF CallsInv

LEMMA CallsEndTask ==
  ASSUME RuntimeInv, NEW f \in Frames, EndTask(f)
  PROVE  CallsInv'
<1>1. /\ Running = f /\ f \in TaskFrames /\ Held(f) = {} /\ f # main
      /\ owner' = Detached(f, {}) \/ owner' = Detached(f, {f})
  BY Kinds DEF EndTask, Free, TaskFrames, Pages
<1>2. /\ stack # <<>> /\ Last(stack).run = f /\ ~LoopOn(stack, f) /\ Shape(stack)
      /\ frame[f] = "running" /\ awaits[f] = main
  BY <1>1, TopIs DEF RuntimeInv, StackInv
<1>3. Shape(Below) /\ \A g \in Frames : LoopOn(Below, g) <=> LoopOn(stack, g)
  BY <1>2, RunPopped, LoopsKept DEF Below
<1>4. /\ TaskFrames \subseteq Frames /\ main \notin Frames
      /\ \A x \in Frames : owner[x] \in Frames \cup {main}
      /\ \A x \in TaskFrames : x \notin SmartFrames
      /\ continuations[f] \in Seq(Frames)
  BY Kinds DEF RuntimeInv, TypeInv, Frames, TaskFrames, SmartFrames, Pages
<1>5. \A x \in TaskFrames : owner[x] # f
  BY <1>1 DEF Held
<1>6. /\ \A x \in Frames : owner'[x] = owner[x] \/ owner'[x] = main
      /\ \A x \in TaskFrames : x # f => owner'[x] = owner[x]
      /\ owner' = Detached(f, {}) => owner'[f] = owner[f]
      /\ owner' = Detached(f, {f}) => owner'[f] = main
  BY <1>1, <1>4 DEF Detached
<1>7. ASSUME NEW h \in TaskFrames, owner[h] # main
      PROVE  /\ owner[h] \in Frames /\ owner[h] # f
             /\ frame[owner[h]] \in {"running", "suspended"} /\ ~LoopOn(stack, owner[h])
             /\ frame[owner[h]] = "suspended" /\ owner[h] \notin Prefetches => awaits[owner[h]] = h
  BY <1>4, <1>5, <1>7 DEF RuntimeInv, OwnerInv
<1>8. CASE continuations[f] = <<>>
  <2>1. /\ frame' = [frame EXCEPT ![f] = "final"]
        /\ stack' = Below /\ owner' = Detached(f, {}) /\ UNCHANGED <<continuations, awaits>>
    BY <1>8, ListOfNone DEF EndTask
  <2>2. \A x \in Frames : frame'[x] = IF x = f THEN "final" ELSE frame[x]
    BY <2>1 DEF RuntimeInv, TypeInv
  <2>3. FrameInv' /\ AwaitsInv'
    BY <1>1, <1>8, <2>1, <2>2 DEF RuntimeInv, FrameInv, AwaitsInv
  <2>4. \A h \in TaskFrames : owner'[h] = owner[h]
    BY <1>6, <2>1
  <2>5. \A h \in TaskFrames : owner'[h] # main =>
          /\ frame'[owner'[h]] \in {"running", "suspended"} /\ ~LoopOn(stack', owner'[h])
          /\ frame'[owner'[h]] = "suspended" /\ owner'[h] \notin Prefetches => awaits'[owner'[h]] = h
    BY <1>3, <1>7, <2>1, <2>2, <2>4
  <2>6. OwnerInv'
    BY <1>6, <2>1, <2>2, <2>4, <2>5 DEF RuntimeInv, OwnerInv
  <2>7. QED
    BY <2>3, <2>6 DEF CallsInv
<1>9. CASE continuations[f] # <<>>
  <2>1. PICK h \in ToSet(continuations[f]) :
          /\ frame' = [frame EXCEPT ![f] = "none", ![h] = "running"]
          /\ awaits' = [awaits EXCEPT ![h] = main]
          /\ continuations' = [continuations EXCEPT ![f] = <<>>]
          /\ stack' = Append(Below, Run(h)) /\ owner' = Detached(f, {f})
    BY <1>9 DEF EndTask
  <2>2. h \in Frames /\ awaits[h] = f /\ h # f /\ owner[f] = h
    <3>1. h \in Frames
      BY <1>4, ListOfNone
    <3>2. awaits[h] = f
      BY <1>2, <3>1 DEF RuntimeInv, HandleInv
    <3>3. QED
      BY <1>1, <1>2, <3>1, <3>2 DEF RuntimeInv, OwnerInv
  <2>3. /\ \A x \in Frames : frame'[x] = IF x = h THEN "running" ELSE IF x = f THEN "none" ELSE frame[x]
        /\ \A x \in Frames : awaits'[x] = IF x = h THEN main ELSE awaits[x]
        /\ \A x \in Frames : continuations'[x] = IF x = f THEN <<>> ELSE continuations[x]
    BY <2>1, <2>2 DEF RuntimeInv, TypeInv
  <2>4. FrameInv' /\ AwaitsInv'
    BY <1>1, <2>3 DEF RuntimeInv, FrameInv, AwaitsInv
  <2>5. \A g \in Frames : LoopOn(stack', g) <=> LoopOn(stack, g)
    <3>1. frame[h] # "running"
      BY <1>1, <1>4, <2>2 DEF RuntimeInv, HandleInv, Asleep
    <3>2. ~RunsOn(Below, h)
      BY <1>2, <2>2, <3>1, RunPopped DEF RuntimeInv, StackInv, Below
    <3>3. Shape(stack') /\ SameLoops(Below, stack')
      BY <1>3, <2>1, <2>2, <3>2, RunPushed
    <3>4. QED
      BY <1>3, <3>3, LoopsKept
  <2>6. ASSUME NEW g \in TaskFrames, owner'[g] # main
        PROVE  /\ g # f /\ owner'[g] = owner[g] /\ owner[g] # f
               /\ frame'[owner'[g]] \in {"running", "suspended"} /\ ~LoopOn(stack', owner'[g])
               /\ frame'[owner'[g]] = "suspended" /\ owner'[g] \notin Prefetches => awaits'[owner'[g]] = g
    <3>1. g # f /\ owner'[g] = owner[g]
      BY <1>6, <2>1, <2>6
    <3>2. QED
      BY <1>7, <2>3, <2>5, <2>6, <3>1
  <2>7. ASSUME NEW x \in Frames, NEW g \in Frames, awaits'[x] = g, g \in TaskFrames
        PROVE  owner'[g] = x
    <3>1. x # h /\ awaits[x] = g
      BY <1>4, <2>3, <2>7
    <3>2. owner[g] = x
      BY <2>7, <3>1 DEF RuntimeInv, OwnerInv
    <3>3. g # f
      BY <2>2, <3>1, <3>2
    <3>4. QED
      BY <1>6, <2>7, <3>2, <3>3
  <2>8. \A x \in Frames : frame'[x] \in {"none", "destroyed"} => owner'[x] = main
    <3>1. \A x \in Frames : x # f /\ frame'[x] \in {"none", "destroyed"} => owner[x] = main
      BY <2>3 DEF RuntimeInv, OwnerInv
    <3>2. owner'[f] = main
      BY <1>6, <2>1
    <3>3. QED
      BY <1>6, <3>1, <3>2
  <2>9. \A x, g \in TaskFrames : owner'[x] = owner'[g] /\ owner'[x] \notin Prefetches \cup {main} => x = g
    BY <2>6 DEF RuntimeInv, OwnerInv
  <2>10. \A g \in Frames : owner'[g] # main => MayCall(owner'[g], g)
    BY <1>6 DEF RuntimeInv, OwnerInv
  <2>11. OwnerInv'
    BY <2>6, <2>7, <2>8, <2>9, <2>10 DEF OwnerInv
  <2>12. QED
    BY <2>4, <2>11 DEF CallsInv
<1>10. QED
  BY <1>8, <1>9

LEMMA CallsEndFrame ==
  ASSUME RuntimeInv, EndFrame
  PROVE  CallsInv'
<1> PICK l : l = Loop
  OBVIOUS
<1>1. /\ l \in Frames /\ l # main /\ Last(stack).todo = <<>> /\ stack' = Front(Below)
      /\ continuations' = [continuations EXCEPT ![l] = <<>>]
      /\ frame' = [frame EXCEPT ![l] = "none"]
      /\ owner' = Detached(l, {l})
      /\ awaits' = awaits
  BY FramesAssumption DEF EndFrame
<1>2. /\ \A x \in Frames : continuations'[x] = IF x = l THEN <<>> ELSE continuations[x]
      /\ \A x \in Frames : frame'[x] = IF x = l THEN "none" ELSE frame[x]
  BY <1>1 DEF RuntimeInv, TypeInv
<1>3. /\ Shape(Below) /\ LoopOn(stack, l) /\ Below # <<>> /\ Last(Below).run = l
      /\ \A f \in Frames : ~InTodo(stack, f, l)
      /\ \A g \in Frames : LoopOn(Below, g) => LoopOn(stack, g)
  BY <1>1, LoopEnds, ListOfNone
<1>4. \A g \in Frames : LoopOn(stack', g) => LoopOn(stack, g)
  BY <1>1, <1>3, RunPopped, LoopsKept
<1>5. l \notin TaskFrames /\ TaskFrames \subseteq Frames /\ \A x \in TaskFrames : x \notin SmartFrames
  BY <1>3, TasksHaveNoLoop, Kinds DEF Frames, TaskFrames, SmartFrames, Pages
<1>6. /\ \A x \in Frames : owner'[x] = owner[x] \/ owner'[x] = main
      /\ \A x \in TaskFrames : owner'[x] = owner[x]
      /\ owner'[l] = main
  BY <1>1, <1>5 DEF Detached
<1>7. \A x \in Frames : owner[x] \in Frames \cup {main}
  BY DEF RuntimeInv, TypeInv
<1>8. FrameInv' /\ AwaitsInv'
  BY <1>1, <1>2 DEF RuntimeInv, FrameInv, AwaitsInv
<1>9. \A g \in TaskFrames : owner[g] # l
  BY <1>1, <1>3 DEF RuntimeInv, OwnerInv
<1>10. \A g \in TaskFrames : owner'[g] # main =>
         /\ frame'[owner'[g]] \in {"running", "suspended"} /\ ~LoopOn(stack', owner'[g])
         /\ frame'[owner'[g]] = "suspended" /\ owner'[g] \notin Prefetches => awaits'[owner'[g]] = g
  <2> SUFFICES ASSUME NEW g \in TaskFrames, owner[g] # main
               PROVE  /\ frame'[owner[g]] \in {"running", "suspended"} /\ ~LoopOn(stack', owner[g])
                      /\ frame'[owner[g]] = "suspended" /\ owner[g] \notin Prefetches => awaits[owner[g]] = g
    BY <1>1, <1>6
  <2>1. /\ owner[g] \in Frames /\ owner[g] # l /\ frame[owner[g]] \in {"running", "suspended"}
        /\ ~LoopOn(stack, owner[g])
        /\ (frame[owner[g]] = "suspended" /\ owner[g] \notin Prefetches => awaits[owner[g]] = g)
    BY <1>5, <1>7, <1>9 DEF RuntimeInv, OwnerInv
  <2>2. QED
    BY <1>2, <1>4, <2>1
<1>11. \A x \in Frames : frame'[x] \in {"none", "destroyed"} => owner'[x] = main
  BY <1>2, <1>6 DEF RuntimeInv, OwnerInv
<1>12. /\ \A x, g \in Frames : awaits'[x] = g /\ g \in TaskFrames => owner'[g] = x
       /\ \A x, g \in TaskFrames : owner'[x] = owner'[g] /\ owner'[x] \notin Prefetches \cup {main} => x = g
       /\ \A g \in Frames : owner'[g] # main => MayCall(owner'[g], g)
  <2>1. \A g \in Frames : owner'[g] # main => owner'[g] = owner[g]
    BY <1>6
  <2>2. \A x, g \in Frames : awaits'[x] = g /\ g \in TaskFrames => owner'[g] = x
    BY <1>1, <1>6 DEF RuntimeInv, OwnerInv
  <2>3. \A x, g \in TaskFrames : owner'[x] = owner'[g] /\ owner'[x] \notin Prefetches \cup {main} => x = g
    BY <1>6 DEF RuntimeInv, OwnerInv
  <2>4. \A g \in Frames : owner'[g] # main => MayCall(owner'[g], g)
    BY <2>1 DEF RuntimeInv, OwnerInv
  <2>5. QED
    BY <2>2, <2>3, <2>4
<1>13. OwnerInv'
  BY <1>10, <1>11, <1>12 DEF OwnerInv
<1>14. QED
  BY <1>8, <1>13 DEF CallsInv

LEMMA CallsFailPrefetch ==
  ASSUME RuntimeInv, NEW p \in Frames, FailPrefetch(p)
  PROVE  CallsInv'
<1> PICK G, D : G = Gone(p) /\ D = Dangling(Gone(p))
  OBVIOUS
<1>1. /\ p \in Prefetches /\ Running = p /\ p \in Sources /\ p # "zero" /\ p # main
      /\ frame' = [g \in Frames |-> IF g \in D THEN "destroyed"
                                    ELSE IF g \in G THEN "none" ELSE frame[g]]
      /\ awaits' = [g \in Frames |-> IF g \in G \ D THEN main ELSE awaits[g]]
      /\ owner' = Detached(p, G)
      /\ stack' = Append(stack, ResumeLoop(p, continuations[p]))
      /\ continuations' = [g \in Frames |-> IF g \in G \cup {p} THEN <<>> ELSE continuations[g]]
  BY Kinds DEF FailPrefetch, Free, Sources, SmartFrames
<1>2. /\ \A g \in G : /\ g # p /\ g \in Frames /\ g \in References \cup Acquisitions
                      /\ frame[g] \in {"suspended", "final"}
      /\ \A g \in D : g \in G /\ g \in Acquisitions /\ awaits[g] \in Loads
      /\ \A f \in Frames : \A g \in G : awaits[f] = g => f \in G
      /\ \A g \in G \ D : awaits[g] \in G \cup {main}
      /\ \A g \in TaskFrames : owner[g] \in G \cup {p} => g \in G
  BY <1>1, GoneAre DEF Dangling
<1>3. /\ stack # <<>> /\ Last(stack).run = p /\ ~LoopOn(stack, p) /\ frame[p] = "running"
  BY <1>1, TopIs
<1>4. continuations[p] \in Seq(Frames) /\ IsInjective(continuations[p])
  BY DEF RuntimeInv, TypeInv, HandleInv
<1>5. \A g \in Frames : LoopOn(stack', g) <=> LoopOn(stack, g) \/ g = p
  BY <1>1, <1>3, <1>4, LoopStarts
<1>6. /\ TaskFrames \subseteq Frames /\ main \notin Frames /\ \A x \in TaskFrames : x \notin SmartFrames
      /\ \A x \in Frames : owner[x] \in Frames \cup {main}
  BY Kinds DEF RuntimeInv, TypeInv, Frames, TaskFrames, SmartFrames, Pages
<1>7. /\ \A x \in Frames : owner'[x] = owner[x] \/ owner'[x] = main
      /\ \A x \in TaskFrames : owner'[x] = IF x \in G THEN main ELSE owner[x]
      /\ \A x \in G : owner'[x] = main
  BY <1>1, <1>2, <1>6 DEF Detached
<1>8. FrameInv'
  <2>1. \A g \in Frames : frame'[g] \in {"none", "final", "destroyed"} => continuations'[g] = <<>>
    BY <1>1, <1>2 DEF RuntimeInv, FrameInv
  <2>2. \A f \in Frames : frame'[f] = "final" => f \in TaskFrames
    BY <1>1 DEF RuntimeInv, FrameInv
  <2>3. \A f \in Frames : frame'[f] = "destroyed" => f \in Acquisitions /\ awaits'[f] \in Loads
    <3> SUFFICES ASSUME NEW f \in Frames, frame'[f] = "destroyed"
                 PROVE  f \in Acquisitions /\ awaits'[f] \in Loads
      OBVIOUS
    <3>1. CASE f \in D
      BY <1>1, <1>2, <3>1
    <3>2. CASE f \notin D
      <4>1. frame[f] = "destroyed" /\ f \notin G
        BY <1>1, <3>2
      <4>2. QED
        BY <1>1, <4>1 DEF RuntimeInv, FrameInv
    <3>3. QED
      BY <3>1, <3>2
  <2>4. QED
    BY <2>1, <2>2, <2>3 DEF FrameInv
<1>9. AwaitsInv'
  <2>1. \A f \in Frames : awaits'[f] # main => awaits'[f] = awaits[f]
    BY <1>1
  <2>2. QED
    BY <2>1 DEF RuntimeInv, AwaitsInv
<1>10. ASSUME NEW x \in Frames, NEW g \in Frames, awaits'[x] = g, g \in TaskFrames
       PROVE  owner'[g] = x
  <2>1. awaits[x] = g /\ x \notin G \ D
    BY <1>1, <1>6, <1>10
  <2>2. owner[g] = x
    BY <1>10, <2>1 DEF RuntimeInv, OwnerInv
  <2>3. g \notin G
    <3>1. ASSUME g \in G PROVE x \in D
      BY <1>2, <2>1, <3>1
    <3>2. x \in D => g \in Loads
      BY <1>2, <2>1
    <3>3. QED
      BY <1>10, <3>1, <3>2, Kinds DEF TaskFrames, Pages
  <2>4. QED
    BY <1>7, <1>10, <2>2, <2>3
<1>11. ASSUME NEW g \in TaskFrames, owner'[g] # main
       PROVE  /\ owner'[g] = owner[g]
              /\ frame'[owner'[g]] \in {"running", "suspended"} /\ ~LoopOn(stack', owner'[g])
              /\ frame'[owner'[g]] = "suspended" /\ owner'[g] \notin Prefetches => awaits'[owner'[g]] = g
  <2>1. g \in Frames /\ g \notin G /\ owner'[g] = owner[g] /\ owner[g] \in Frames
    BY <1>6, <1>7, <1>11
  <2>2. owner[g] \notin G /\ owner[g] # p
    BY <1>2, <2>1
  <2>3. /\ frame[owner[g]] \in {"running", "suspended"} /\ ~LoopOn(stack, owner[g])
        /\ (frame[owner[g]] = "suspended" /\ owner[g] \notin Prefetches => awaits[owner[g]] = g)
    BY <1>6, <1>11, <2>1 DEF RuntimeInv, OwnerInv
  <2>4. frame'[owner[g]] = frame[owner[g]] /\ awaits'[owner[g]] = awaits[owner[g]]
    <3>1. owner[g] \notin D
      BY <1>2, <2>2
    <3>2. QED
      BY <1>1, <2>1, <2>2, <3>1
  <2>5. QED
    BY <1>5, <2>1, <2>2, <2>3, <2>4
<1>12. \A x \in Frames : frame'[x] \in {"none", "destroyed"} => owner'[x] = main
  <2> SUFFICES ASSUME NEW x \in Frames, frame'[x] \in {"none", "destroyed"}
               PROVE  owner'[x] = main
    OBVIOUS
  <2>1. x \in G \/ frame[x] \in {"none", "destroyed"}
    BY <1>1, <1>2
  <2>2. QED
    BY <1>7, <2>1 DEF RuntimeInv, OwnerInv
<1>13. /\ \A x, g \in TaskFrames : owner'[x] = owner'[g] /\ owner'[x] \notin Prefetches \cup {main} => x = g
       /\ \A g \in Frames : owner'[g] # main => MayCall(owner'[g], g)
  BY <1>7, <1>11 DEF RuntimeInv, OwnerInv
<1>14. OwnerInv'
  BY <1>10, <1>11, <1>12, <1>13 DEF OwnerInv
<1>15. QED
  BY <1>8, <1>9, <1>14 DEF CallsInv

-------------------------------------------------------------------------------
(***************************************************************************)
(* Who runs above whom.                                                    *)
(***************************************************************************)
OrderInv == PageInv /\ ZeroInv

LEMMA AboveGrows ==
  ASSUME NEW st \in Seq(Entries), NEW e \in Entries
  PROVE  /\ \A d, x : Above(Append(st, e), d, x) => Above(st, d, x) \/ (x = e /\ d \in ToSet(st))
         /\ \A d : d \in ToSet(Append(st, e)) => d \in ToSet(st) \/ d = e
<1> PICK t : t = Append(st, e)
  OBVIOUS
<1> PICK n \in Nat : n = Len(st)
  OBVIOUS
<1>1. /\ DOMAIN st = 1 .. n /\ DOMAIN t = 1 .. n + 1
      /\ \A i \in 1 .. n : t[i] = st[i]
      /\ t[n + 1] = e
  OBVIOUS
<1>2. ASSUME NEW d, NEW x, Above(t, d, x)
      PROVE  Above(st, d, x) \/ (x = e /\ d \in ToSet(st))
  <2>1. PICK i, j \in DOMAIN t : i < j /\ t[i] = d /\ t[j] = x
    BY <1>2 DEF Above
  <2>2. i \in DOMAIN st /\ st[i] = d /\ (j \in DOMAIN st \/ j = n + 1)
    BY <1>1, <2>1
  <2>3. d \in ToSet(st)
    BY <2>2 DEF ToSet
  <2>4. CASE j \in DOMAIN st
    BY <1>1, <2>1, <2>2, <2>4 DEF Above
  <2>5. CASE j = n + 1
    BY <1>1, <2>1, <2>3, <2>5
  <2>6. QED
    BY <2>2, <2>4, <2>5
<1>3. \A d : d \in ToSet(t) => d \in ToSet(st) \/ d = e
  BY <1>1 DEF ToSet
<1>4. QED
  BY <1>2, <1>3

LEMMA AboveShrinks ==
  ASSUME NEW st \in Seq(Entries), st # <<>>
  PROVE  /\ \A d, x : Above(Front(st), d, x) => Above(st, d, x)
         /\ \A d : d \in ToSet(Front(st)) => Above(st, d, Last(st))
         /\ \A d : d \in ToSet(st) => d \in ToSet(Front(st)) \/ d = Last(st)
         /\ \A d, x : Above(st, d, x) => x \in ToSet(st) /\ d \in ToSet(Front(st))
<1> PICK t : t = Front(st)
  OBVIOUS
<1> PICK n \in Nat : n = Len(st)
  OBVIOUS
<1>1. /\ n # 0 /\ DOMAIN st = 1 .. n /\ DOMAIN t = 1 .. n - 1 /\ Last(st) = st[n]
      /\ \A i \in 1 .. n - 1 : t[i] = st[i]
  BY FrontIs
<1>2. ASSUME NEW d, NEW x, Above(t, d, x)
      PROVE  Above(st, d, x)
  <2>1. PICK i, j \in DOMAIN t : i < j /\ t[i] = d /\ t[j] = x
    BY <1>2 DEF Above
  <2>2. i \in DOMAIN st /\ j \in DOMAIN st /\ st[i] = d /\ st[j] = x
    BY <1>1, <2>1
  <2>3. QED
    BY <2>1, <2>2 DEF Above
<1>3. ASSUME NEW d \in ToSet(t)
      PROVE  Above(st, d, Last(st))
  <2>1. PICK i \in DOMAIN t : t[i] = d
    BY DEF ToSet
  <2>2. i \in DOMAIN st /\ n \in DOMAIN st /\ i < n /\ st[i] = d
    BY <1>1, <2>1
  <2>3. QED
    BY <1>1, <2>2 DEF Above
<1>4. ASSUME NEW d \in ToSet(st)
      PROVE  d \in ToSet(t) \/ d = Last(st)
  <2>1. PICK i \in DOMAIN st : st[i] = d
    BY DEF ToSet
  <2>2. i = n \/ (i \in DOMAIN t /\ t[i] = d)
    BY <1>1, <2>1
  <2>3. QED
    BY <1>1, <2>1, <2>2 DEF ToSet
<1>5. ASSUME NEW d, NEW x, Above(st, d, x)
      PROVE  x \in ToSet(st) /\ d \in ToSet(t)
  <2>1. PICK i, j \in DOMAIN st : i < j /\ st[i] = d /\ st[j] = x
    BY <1>5 DEF Above
  <2>2. i \in DOMAIN t /\ t[i] = d
    BY <1>1, <2>1
  <2>3. QED
    BY <2>1, <2>2 DEF ToSet
<1>6. QED
  BY <1>2, <1>3, <1>4, <1>5

LEMMA AboveRuns ==
  ASSUME NEW st, NEW d, NEW x, Above(st, d, x)
  PROVE  RunsOn(st, d.run) /\ RunsOn(st, x.run) /\ LoopOn(st, d.loop)
BY DEF Above, RunsOn, LoopOn

(* Nothing new is above another.                                           *)
LEMMA OrderKept ==
  ASSUME RuntimeInv,
         \A d, e : Above(stack', d, e) => Above(stack, d, e),
         \A x \in Pages : RunsOn(stack', x) /\ LoopOn(stack, x) => LoopOn(stack', x),
         \A x \in Pages : RunsOn(stack', x) =>
                            continuations'[x] = continuations[x] \/ continuations'[x] = <<>>,
         waiting_coroutines' # <<>> => counted' # {}
  PROVE  OrderInv'
<1>1. PageInv'
  <2> SUFFICES ASSUME NEW d, NEW e, Above(stack', d, e), d.run \in Pages, ~LoopOn(stack', d.run)
               PROVE  /\ e.todo = <<>>
                      /\ e.run # main => Deeper(d.run, e.run) /\ continuations'[e.run] = <<>>
    BY DEF PageInv
  <2>1. RunsOn(stack', d.run) /\ RunsOn(stack', e.run) /\ Above(stack, d, e)
    BY AboveRuns
  <2>2. /\ e.todo = <<>>
        /\ e.run # main => Deeper(d.run, e.run) /\ continuations[e.run] = <<>>
    BY <2>1 DEF RuntimeInv, PageInv
  <2>3. e.run # main => e.run \in Pages
    BY <2>2 DEF Deeper, Pages
  <2>4. QED
    BY <2>1, <2>2, <2>3
<1>2. ZeroInv'
  <2> SUFFICES ASSUME NEW d, NEW e, Above(stack', d, e), d.loop = "zero"
               PROVE  e.todo = <<>> /\ (e.run # main => Calm(e.run)')
    BY DEF ZeroInv
  <2>1. RunsOn(stack', e.run) /\ Above(stack, d, e)
    BY AboveRuns
  <2>2. e.todo = <<>> /\ (e.run # main => Calm(e.run))
    BY <2>1 DEF RuntimeInv, ZeroInv
  <2>3. QED
    BY <2>1, <2>2 DEF Calm
<1>3. QED
  BY <1>1, <1>2 DEF OrderInv

(* An entry comes on top.                                                  *)
LEMMA OrderPushed ==
  ASSUME RuntimeInv, NEW e \in Entries, stack' = Append(stack, e),
         \A x \in Pages : LoopOn(stack, x) => LoopOn(stack', x),
         \A x \in Pages : continuations'[x] = continuations[x] \/ continuations'[x] = <<>>,
         \A d \in ToSet(stack) : d.run \in Pages /\ ~LoopOn(stack', d.run) =>
           e.todo = <<>> /\ (e.run # main => Deeper(d.run, e.run) /\ continuations'[e.run] = <<>>),
         \A d \in ToSet(stack) : d.loop = "zero" => e.todo = <<>> /\ (e.run # main => Calm(e.run)'),
         waiting_coroutines' # <<>> => counted' # {}
  PROVE  OrderInv'
<1>1. \A d, x : Above(stack', d, x) => Above(stack, d, x) \/ (x = e /\ d \in ToSet(stack))
  BY AboveGrows DEF RuntimeInv, StackInv, Shape
<1>2. PageInv'
  <2> SUFFICES ASSUME NEW d, NEW x, Above(stack', d, x), d.run \in Pages, ~LoopOn(stack', d.run)
               PROVE  /\ x.todo = <<>>
                      /\ x.run # main => Deeper(d.run, x.run) /\ continuations'[x.run] = <<>>
    BY DEF PageInv
  <2>1. CASE Above(stack, d, x)
    <3>1. /\ x.todo = <<>>
          /\ x.run # main => Deeper(d.run, x.run) /\ continuations[x.run] = <<>>
      BY <2>1 DEF RuntimeInv, PageInv
    <3>2. x.run # main => x.run \in Pages
      BY <3>1 DEF Deeper, Pages
    <3>3. QED
      BY <3>1, <3>2
  <2>2. CASE x = e /\ d \in ToSet(stack)
    BY <2>2
  <2>3. QED
    BY <1>1, <2>1, <2>2
<1>3. ZeroInv'
  <2> SUFFICES ASSUME NEW d, NEW x, Above(stack', d, x), d.loop = "zero"
               PROVE  x.todo = <<>> /\ (x.run # main => Calm(x.run)')
    BY DEF ZeroInv
  <2>1. CASE Above(stack, d, x)
    <3>1. x.todo = <<>> /\ (x.run # main => Calm(x.run))
      BY <2>1 DEF RuntimeInv, ZeroInv
    <3>2. QED
      BY <3>1 DEF Calm
  <2>2. CASE x = e /\ d \in ToSet(stack)
    BY <2>2
  <2>3. QED
    BY <1>1, <2>1, <2>2
<1>4. QED
  BY <1>2, <1>3 DEF OrderInv

(* A coroutine is resumed over a stack on which no pages are brought.      *)
LEMMA OrderResumed ==
  ASSUME RuntimeInv, NEW st \in Seq(Entries), NEW h \in Frames, stack' = Append(st, Run(h)),
         \A d \in ToSet(st) : d.run \in Pages => LoopOn(stack', d.run),
         \A d, e : Above(st, d, e) /\ d.loop = "zero" => Above(stack, d, e),
         \A d \in ToSet(st) : d.loop = "zero" => Calm(h)',
         \A x \in Pages : continuations'[x] = continuations[x] \/ continuations'[x] = <<>>,
         UNCHANGED <<waiting_coroutines, counted>>
  PROVE  OrderInv'
<1> PICK e : e = Run(h)
  OBVIOUS
<1>1. e \in Entries /\ e.run = h /\ e.todo = <<>> /\ stack' = Append(st, e)
  BY DEF Run, Entries
<1>2. \A d, x : Above(stack', d, x) => Above(st, d, x) \/ (x = e /\ d \in ToSet(st))
  BY <1>1, AboveGrows
<1>3. \A d, x : Above(st, d, x) => d \in ToSet(st)
  BY DEF Above, ToSet
<1>4. PageInv'
  BY <1>2, <1>3 DEF PageInv
<1>5. ZeroInv'
  <2> SUFFICES ASSUME NEW d, NEW x, Above(stack', d, x), d.loop = "zero"
               PROVE  x.todo = <<>> /\ (x.run # main => Calm(x.run)')
    BY DEF RuntimeInv, ZeroInv
  <2>1. CASE Above(st, d, x)
    <3>1. x.todo = <<>> /\ (x.run # main => Calm(x.run))
      BY <2>1 DEF RuntimeInv, ZeroInv
    <3>2. QED
      BY <3>1 DEF Calm
  <2>2. CASE x = e /\ d \in ToSet(st)
    BY <1>1, <2>2
  <2>3. QED
    BY <1>2, <2>1, <2>2
<1>6. QED
  BY <1>4, <1>5 DEF OrderInv

(* Who is under the running coroutine.                                     *)
LEMMA TopOrder ==
  ASSUME RuntimeInv, NEW f \in Frames, Running = f
  PROVE  /\ stack \in Seq(Entries) /\ stack # <<>> /\ Last(stack).run = f /\ Last(stack).loop = main
         /\ \A d \in ToSet(stack) :
              d.run \in Pages /\ ~LoopOn(stack, d.run) =>
                \/ d.run = f
                \/ Deeper(d.run, f) /\ continuations[f] = <<>>
         /\ \A d \in ToSet(Below) :
              d.run \in Pages /\ ~LoopOn(stack, d.run) => Deeper(d.run, f) /\ continuations[f] = <<>>
         /\ \A d \in ToSet(stack) : d.loop = "zero" => d \in ToSet(Below) /\ Calm(f)
         /\ \A d \in ToSet(Below) : d.loop = "zero" => Calm(f)
<1>1. stack # <<>> /\ Last(stack).run = f /\ stack \in Seq(Entries) /\ Shape(stack)
  BY TopIs DEF RuntimeInv, StackInv, Shape
<1>2. f # main /\ "zero" # main
  BY Kinds
<1>3. Last(stack).loop = main
  <2> PICK e : e = Last(stack)
    OBVIOUS
  <2>1. IsRun(e) \/ IsLoop(e)
    BY <1>1, StackShrinks
  <2>2. QED
    BY <1>1, <1>2, <2>1 DEF IsRun, IsLoop
<1>4. /\ \A d : d \in ToSet(Below) => Above(stack, d, Last(stack))
      /\ \A d : d \in ToSet(stack) => d \in ToSet(Below) \/ d = Last(stack)
  BY <1>1, AboveShrinks DEF Below
<1>5. \A d \in ToSet(Below) : d.run \in Pages /\ ~LoopOn(stack, d.run) =>
        Deeper(d.run, f) /\ continuations[f] = <<>>
  BY <1>1, <1>2, <1>4 DEF RuntimeInv, PageInv
<1>6. \A d \in ToSet(Below) : d.loop = "zero" => Calm(f)
  BY <1>1, <1>2, <1>4 DEF RuntimeInv, ZeroInv
<1>7. QED
  BY <1>1, <1>2, <1>3, <1>4, <1>5, <1>6

(* A coroutine that is suspended on top of the stack leaves the order.     *)
LEMMA OrderPopped ==
  ASSUME RuntimeInv, NEW f \in Frames, Running = f, stack' = Below,
         \A x \in Pages : RunsOn(stack, x) =>
                            continuations'[x] = continuations[x] \/ continuations'[x] = <<>>,
         waiting_coroutines' # <<>> => counted' # {}
  PROVE  OrderInv'
<1>1. stack # <<>> /\ Last(stack).run = f /\ Shape(stack) /\ stack \in Seq(Entries)
  BY TopIs DEF RuntimeInv, StackInv, Shape
<1>2. /\ Shape(stack') /\ SameLoops(stack, stack')
      /\ \A x \in Frames : RunsOn(stack', x) => RunsOn(stack, x)
  BY <1>1, RunPopped DEF Below
<1>3. \A x \in Frames : LoopOn(stack', x) <=> LoopOn(stack, x)
  BY <1>1, <1>2, LoopsKept
<1>4. Pages \subseteq Frames
  BY DEF Pages, Frames, TaskFrames, SharedFrames, SmartFrames
<1>5. \A d, e : Above(stack', d, e) => Above(stack, d, e)
  BY <1>1, AboveShrinks DEF Below
<1>6. QED
  BY <1>2, <1>3, <1>4, <1>5, OrderKept

LEMMA DeeperCalls ==
  /\ \A f, g : MayCall(f, g) /\ f \in Pages => Deeper(f, g)
  /\ \A f, g, x : MayCall(f, g) /\ Deeper(x, f) => Deeper(x, g)
  /\ \A f, x : Deeper(x, f) => x \in Pages /\ f \in Pages /\ ~Deeper(f, x) /\ x # f
  /\ Pages \subseteq Frames
<1>1. \A x : x \in Pages => x \in Frames
  BY DEF Pages, Frames, TaskFrames, SharedFrames, SmartFrames
<1>2. main \notin Pages
  BY <1>1, Kinds
<1>3. ASSUME NEW f, NEW g, MayCall(f, g), f \in Pages
      PROVE  Deeper(f, g)
  BY <1>2, <1>3, Kinds DEF MayCall, Deeper, Pages
<1>4. \A f, x : Deeper(x, f) => x \in Pages /\ f \in Pages /\ ~Deeper(f, x) /\ x # f
  BY Kinds DEF Deeper, Pages
<1>5. \A x, y, z : Deeper(x, y) /\ Deeper(y, z) => Deeper(x, z)
  BY Kinds DEF Deeper, Pages
<1>6. QED
  BY <1>1, <1>3, <1>4, <1>5

LEMMA CalmCalls ==
  ASSUME NEW f, NEW g \in Frames, Calm(f), MayCall(f, g), continuations[g] = <<>>
  PROVE  Calm(g)
<1>1. CASE f \in Pages
  BY <1>1, DeeperCalls DEF Calm
<1>2. CASE f \in Modifications \cup Requests
  <2>1. f # main
    BY <1>2, Kinds DEF Frames, TaskFrames, SmartFrames
  <2>2. QED
    BY <1>2, <2>1, Kinds DEF Calm, MayCall, Pages
<1>3. QED
  BY <1>1, <1>2 DEF Calm

(* What brings pages is not awaited while it runs.                         *)
LEMMA AwaitedSleeps ==
  ASSUME RuntimeInv, NEW f \in Frames, NEW g \in Pages, Running = f,
         (g \in TaskFrames /\ owner[g] = f) \/ (MayAwait(f, g) /\ outcome[g] = "pending")
  PROVE  ~RunsOn(stack, g)
<1>1. g \in Frames /\ f # main
  BY DeeperCalls, Kinds
<1>2. CASE g \in TaskFrames /\ owner[g] = f
  <2>1. MayCall(f, g) /\ ~LoopOn(stack, g)
    BY <1>1, <1>2, TasksHaveNoLoop DEF RuntimeInv, OwnerInv
  <2>2. ~Deeper(g, f)
    BY <2>1, DeeperCalls
  <2>3. g # f
    BY <1>1, <1>2, <2>1, Kinds DEF MayCall, TaskFrames, Pages
  <2>4. QED
    BY <2>1, <2>2, <2>3, UnderTop
<1>3. CASE MayAwait(f, g) /\ outcome[g] = "pending"
  <2>1. ~LoopOn(stack, g)
    BY <1>1, <1>3 DEF RuntimeInv, StackInv
  <2>2. g # f /\ ~Deeper(g, f)
    BY <1>3, Kinds DEF MayAwait, Deeper, Pages
  <2>3. QED
    BY <2>1, <2>2, UnderTop
<1>4. QED
  BY <1>2, <1>3

LEMMA RequestsAreNotAwaited ==
  ASSUME RuntimeInv, NEW f \in Requests, ~LoopOn(stack, f)
  PROVE  continuations[f] = <<>>
<1>1. f \in Frames
  BY DEF Frames, SmartFrames
<1>2. \A x \in Frames : awaits[x] # f
  BY <1>1, Kinds DEF RuntimeInv, AwaitsInv, TaskFrames, Pages
<1>3. QED
  BY <1>1, <1>2, ListOfNone DEF RuntimeInv, HandleInv, TypeInv

LEMMA OrderCall ==
  ASSUME RuntimeInv, NEW g \in Frames, NEW caller \in Frames \cup {main}, Call(caller, g), HandlesInv'
  PROVE  OrderInv'
<1>1. /\ frame[g] = "none" /\ MayCall(caller, g) /\ continuations' = continuations
      /\ UNCHANGED <<waiting_coroutines, counted>> /\ stack' = Append(stack, Run(g))
      /\ caller \in Frames => Running = caller
      /\ caller = main => stack = <<>>
  BY Kinds DEF Call, Free, InMain, criteriaVars
<1>2. continuations[g] = <<>>
  BY <1>1 DEF RuntimeInv, FrameInv
<1>3. Run(g) \in Entries /\ Run(g).run = g /\ Run(g).todo = <<>>
  BY DEF Run, Entries
<1>4. \A x \in Pages : LoopOn(stack', x) <=> LoopOn(stack, x)
  BY <1>1, AtRestIs, RunPushed, LoopsKept, DeeperCalls DEF RuntimeInv, StackInv
<1>5. CASE caller = main
  <2>1. ToSet(stack) = {}
    BY <1>1, <1>5, ListOfNone
  <2>2. QED
    BY <1>1, <1>3, <1>4, <2>1, OrderPushed DEF RuntimeInv, ZeroInv
<1>6. CASE caller \in Frames
  <2>1. \A d \in ToSet(stack) : d.run \in Pages /\ ~LoopOn(stack, d.run) => Deeper(d.run, g)
    BY <1>1, <1>6, TopOrder, DeeperCalls
  <2>2. \A d \in ToSet(stack) : d.loop = "zero" => Calm(g)'
    <3>1. \A d \in ToSet(stack) : d.loop = "zero" => Calm(caller)
      BY <1>1, <1>6, TopOrder
    <3>2. Calm(caller) => Calm(g)
      BY <1>1, <1>2, CalmCalls
    <3>3. QED
      BY <1>1, <3>1, <3>2 DEF Calm
  <2>3. QED
    BY <1>1, <1>2, <1>3, <1>4, <2>1, <2>2, OrderPushed DEF RuntimeInv, ZeroInv
<1>7. QED
  BY <1>5, <1>6

LEMMA OrderAwaits ==
  ASSUME RuntimeInv, NEW f \in Frames, AwaitIO(f) \/ AwaitZero(f)
  PROVE  OrderInv'
<1>1. Running = f /\ stack' = Below /\ continuations' = continuations
  BY DEF AwaitIO, AwaitZero, Free, Suspends
<1>2. waiting_coroutines' # <<>> => counted' # {}
  BY DEF AwaitIO, AwaitZero, criteriaVars, RuntimeInv, ZeroInv
<1>3. QED
  BY <1>1, <1>2, OrderPopped

LEMMA OrderAwaitShared ==
  ASSUME RuntimeInv, NEW f \in Frames, NEW g \in Frames, AwaitShared(f, g)
  PROVE  OrderInv'
<1>1. /\ Running = f /\ stack' = Below /\ MayAwait(f, g) /\ outcome[g] = "pending"
      /\ \A h \in Frames : h # g => continuations'[h] = continuations[h]
      /\ UNCHANGED <<waiting_coroutines, counted>>
  BY DEF AwaitShared, Free, Suspends, criteriaVars, RuntimeInv, TypeInv
<1>2. \A x \in Pages : RunsOn(stack, x) => continuations'[x] = continuations[x]
  BY <1>1, AwaitedSleeps, DeeperCalls
<1>3. QED
  BY <1>1, <1>2, OrderPopped DEF RuntimeInv, ZeroInv

LEMMA OrderAwaitTask ==
  ASSUME RuntimeInv, NEW f \in Frames, NEW g \in Frames, AwaitTask(f, g)
  PROVE  OrderInv'
<1>1. /\ Running = f /\ g \in TaskFrames /\ owner[g] = f
      /\ UNCHANGED <<waiting_coroutines, counted>>
      /\ \A h \in Frames : h # g => continuations'[h] = continuations[h]
      /\ \/ stack' = stack /\ continuations' = continuations
         \/ stack' = Below
  BY DEF AwaitTask, Held, Suspends, criteriaVars, RuntimeInv, TypeInv
<1>2. \A x \in Pages : RunsOn(stack, x) => continuations'[x] = continuations[x]
  BY <1>1, AwaitedSleeps, DeeperCalls
<1>3. CASE stack' = stack
  BY <1>1, <1>2, <1>3, OrderKept DEF RuntimeInv, ZeroInv
<1>4. CASE stack' = Below
  BY <1>1, <1>2, <1>4, OrderPopped DEF RuntimeInv, ZeroInv
<1>5. QED
  BY <1>1, <1>3, <1>4

LEMMA OrderSame ==
  ASSUME RuntimeInv, UNCHANGED <<stack, continuations, waiting_coroutines>>,
         waiting_coroutines # <<>> => counted' # {}
  PROVE  OrderInv'
BY OrderKept

LEMMA OrderPoll ==
  ASSUME RuntimeInv, NEW f \in Frames, Poll(f)
  PROVE  OrderInv'
<1>1. /\ stack' = Append(<<>>, Run(f)) /\ continuations' = continuations
      /\ UNCHANGED <<waiting_coroutines, counted>>
  BY DEF Poll, criteriaVars
<1>2. <<>> \in Seq(Entries) /\ ToSet(<<>>) = {} /\ \A d, e : ~Above(<<>>, d, e)
  <2>1. DOMAIN <<>> = {}
    OBVIOUS
  <2>2. QED
    BY <2>1, ListOfNone DEF Above
<1> PICK st : st = <<>>
  OBVIOUS
<1>3. QED
  BY <1>1, <1>2, OrderResumed

LEMMA OrderResumeNext ==
  ASSUME RuntimeInv, ResumeNext,
         \A x \in Pages : LoopOn(stack', x) <=> LoopOn(stack, x)
  PROVE  OrderInv'
<1> PICK l, h : l = Last(stack) /\ h = Head(Last(stack).todo)
  OBVIOUS
<1> PICK k : k = [Last(stack) EXCEPT !.todo = Tail(@)]
  OBVIOUS
<1>1. /\ Loop # main /\ l.todo # <<>> /\ stack' = Append(Append(Below, k), Run(h))
      /\ UNCHANGED <<continuations, waiting_coroutines, counted>>
  BY DEF ResumeNext, criteriaVars
<1>2. /\ stack # <<>> /\ l.loop = Loop /\ stack \in Seq(Entries) /\ l \in Entries
      /\ (IsRun(l) \/ IsLoop(l))
  <2>1. stack # <<>> /\ l.loop = Loop /\ Shape(stack)
    BY <1>1 DEF Loop, RuntimeInv, StackInv
  <2>2. QED
    BY <2>1, StackShrinks DEF Shape
<1>3. h \in Frames /\ h \in ToSet(l.todo) /\ Tail(l.todo) \in Seq(Frames)
  BY <1>1, <1>2, ListTaken DEF Entries
<1>4. l.run = main /\ k \in Entries /\ k.run = main /\ k.loop = l.loop
  BY <1>1, <1>2, <1>3 DEF IsRun, IsLoop, Entries
<1>5. /\ Below \in Seq(Entries)
      /\ \A d \in ToSet(Below) : Above(stack, d, l)
      /\ \A d, e : Above(Below, d, e) => Above(stack, d, e)
  BY <1>2, FrontIs, AboveShrinks DEF Below
<1> PICK st : st = Append(Below, k)
  OBVIOUS
<1>6. /\ st \in Seq(Entries)
      /\ \A d \in ToSet(st) : d \in ToSet(Below) \/ d = k
      /\ \A d, e : Above(st, d, e) => d \in ToSet(Below)
  <2>1. st \in Seq(Entries)
    BY <1>4, <1>5
  <2>2. \A d, e : Above(Below, d, e) => d \in ToSet(Below)
    BY DEF Above, ToSet
  <2>3. QED
    BY <1>4, <1>5, <2>1, <2>2, AboveGrows
<1>7. main \notin Pages
  BY DeeperCalls, Kinds
<1>8. \A d \in ToSet(Below) : d.loop # "zero"
  BY <1>1, <1>5 DEF RuntimeInv, ZeroInv
<1>9. \A d \in ToSet(st) : d.run \in Pages => LoopOn(stack', d.run)
  BY <1>1, <1>4, <1>5, <1>6, <1>7 DEF RuntimeInv, PageInv
<1>10. \A d \in ToSet(st) : d.loop = "zero" => Calm(h)'
  <2>1. ASSUME l.loop = "zero" PROVE h \in Modifications
    <3>1. InTodo(stack, h, "zero")
      <4>1. Loop = "zero" /\ "zero" # main
        BY <1>2, <2>1, Kinds
      <4>2. QED
        BY <1>3, <4>1, LoopEnds
    <3>2. awaits[h] = "zero"
      BY <1>3, <3>1 DEF RuntimeInv, HandleInv
    <3>3. "zero" \notin Frames /\ "zero" # main /\ "zero" # "io"
      BY Kinds
    <3>4. QED
      BY <1>3, <3>2, <3>3 DEF RuntimeInv, AwaitsInv, Frames, SharedFrames
  <2>2. QED
    BY <1>4, <1>6, <1>8, <2>1 DEF Calm
<1>11. QED
  BY <1>1, <1>3, <1>6, <1>8, <1>9, <1>10, OrderResumed

LEMMA OrderEndTask ==
  ASSUME RuntimeInv, NEW f \in Frames, EndTask(f)
  PROVE  OrderInv'
<1>1. Running = f /\ f \in TaskFrames /\ UNCHANGED <<waiting_coroutines, counted>>
  BY DEF EndTask, Free, criteriaVars
<1>2. continuations[f] \in Seq(Frames) /\ ~LoopOn(stack, f) /\ Shape(stack) /\ f # main
      /\ stack # <<>> /\ Last(stack).run = f /\ stack \in Seq(Entries)
  BY <1>1, TopIs, Kinds DEF RuntimeInv, TypeInv, StackInv, Shape
<1>3. CASE continuations[f] = <<>>
  <2>1. stack' = Below /\ continuations' = continuations
    BY <1>3, ListOfNone DEF EndTask
  <2>2. QED
    BY <1>1, <2>1, OrderPopped DEF RuntimeInv, ZeroInv
<1>4. CASE continuations[f] # <<>>
  <2>1. PICK h \in ToSet(continuations[f]) :
          /\ continuations' = [continuations EXCEPT ![f] = <<>>]
          /\ frame' = [frame EXCEPT ![f] = "none", ![h] = "running"]
          /\ stack' = Append(Below, Run(h))
    BY <1>4 DEF EndTask
  <2>2. h \in Frames /\ awaits[h] = f /\ owner[f] = h /\ h # main
    <3>1. h \in Frames
      BY <1>2, ListOfNone
    <3>2. awaits[h] = f
      BY <1>2, <3>1 DEF RuntimeInv, HandleInv
    <3>3. QED
      BY <1>1, <3>1, <3>2, Kinds DEF RuntimeInv, OwnerInv
  <2>3. /\ Below \in Seq(Entries) /\ Shape(Below) /\ SameLoops(stack, Below)
        /\ \A x \in Frames : RunsOn(Below, x) => RunsOn(stack, x)
        /\ \A d, e : Above(Below, d, e) => Above(stack, d, e)
    BY <1>2, RunPopped, FrontIs, AboveShrinks DEF Below
  <2>4. ~RunsOn(Below, h)
    BY <1>2, <2>2, <2>3 DEF RuntimeInv, StackInv, HandleInv, Asleep
  <2>5. \A x \in Frames : LoopOn(stack', x) <=> LoopOn(stack, x)
    <3>1. Shape(stack') /\ SameLoops(Below, stack')
      BY <2>1, <2>2, <2>3, <2>4, RunPushed
    <3>2. QED
      BY <1>2, <2>3, <3>1, LoopsKept
  <2>6. \A d \in ToSet(Below) : d.run \in Pages => LoopOn(stack', d.run)
    BY <1>1, <1>4, <2>5, TopOrder, DeeperCalls
  <2>7. \A d \in ToSet(Below) : d.loop = "zero" => Calm(h)'
    <3>1. \A d \in ToSet(Below) : d.loop = "zero" => Calm(f)
      BY <1>1, TopOrder
    <3>2. Calm(f) => f \in Modifications
      BY <1>1, <1>4, Kinds DEF Calm, TaskFrames, Pages
    <3>3. MayCall(h, f)
      BY <2>2 DEF RuntimeInv, OwnerInv
    <3>4. f \in Modifications => h \in Modifications \cup Requests
      BY <2>2, <3>3, Kinds DEF MayCall, Pages
    <3>5. QED
      BY <3>1, <3>2, <3>4 DEF Calm
  <2>8. \A x \in Pages : continuations'[x] = continuations[x] \/ continuations'[x] = <<>>
    BY <2>1, DeeperCalls DEF RuntimeInv, TypeInv
  <2>9. QED
    BY <1>1, <2>1, <2>2, <2>3, <2>6, <2>7, <2>8, OrderResumed
<1>5. QED
  BY <1>3, <1>4

(* Whoever is awaited and ends its coroutine does not run over pages that  *)
(* are brought, nor in an evaluation.                                      *)
LEMMA OrderLoop ==
  ASSUME RuntimeInv, NEW f \in Frames, Running = f, f \in Sources, NEW handles \in Seq(Frames),
         handles # <<>> => continuations[f] # <<>>,
         stack' = Append(stack, ResumeLoop(f, handles)),
         \A x \in Pages : LoopOn(stack, x) => LoopOn(stack', x),
         LoopOn(stack', f),
         \A x \in Pages : continuations'[x] = continuations[x] \/ continuations'[x] = <<>>,
         UNCHANGED <<waiting_coroutines, counted>>
  PROVE  OrderInv'
<1> PICK e : e = ResumeLoop(f, handles)
  OBVIOUS
<1>1. e \in Entries /\ e.run = main /\ e.todo = handles /\ stack' = Append(stack, e)
  BY DEF ResumeLoop, Entries
<1>2. \A d \in ToSet(stack) : d.run \in Pages /\ ~LoopOn(stack', d.run) => e.todo = <<>>
  BY <1>1, TopOrder
<1>3. ~LoopOn(stack, f)
  BY TopIs
<1>4. Calm(f) => continuations[f] = <<>>
  BY <1>3, RequestsAreNotAwaited, Kinds DEF Calm, Sources, SharedFrames, SmartFrames, Pages, Frames
<1>5. \A d \in ToSet(stack) : d.loop = "zero" => e.todo = <<>>
  BY <1>1, <1>4, TopOrder
<1>6. QED
  BY <1>1, <1>2, <1>5, OrderPushed DEF RuntimeInv, ZeroInv

LEMMA OrderEndShared ==
  ASSUME RuntimeInv, NEW f \in Frames, NEW threw \in BOOLEAN, EndShared(f, threw)
  PROVE  OrderInv'
<1> PICK handles : handles = IF f \in SharedFrames /\ ~threw THEN Reverse(continuations[f])
                             ELSE continuations[f]
  OBVIOUS
<1>1. /\ Running = f /\ f \in Sources
      /\ stack' = Append(stack, ResumeLoop(f, handles))
      /\ \A g \in Frames : continuations'[g] = continuations[g] \/ continuations'[g] = <<>>
      /\ UNCHANGED <<waiting_coroutines, counted>>
  BY DEF EndShared, Free, Sources, Frames, RuntimeInv, TypeInv, criteriaVars
<1>2. stack # <<>> /\ Last(stack).run = f /\ ~LoopOn(stack, f)
  BY <1>1, TopIs
<1>3. continuations[f] \in Seq(Frames) /\ IsInjective(continuations[f])
  BY DEF RuntimeInv, TypeInv, HandleInv
<1>4. handles \in Seq(Frames) /\ IsInjective(handles) /\ ToSet(handles) = ToSet(continuations[f])
  BY <1>3, ListReversed
<1>5. \A g \in Frames : LoopOn(stack', g) <=> LoopOn(stack, g) \/ g = f
  BY <1>1, <1>2, <1>4, LoopStarts
<1>6. handles # <<>> => continuations[f] # <<>>
  BY <1>3, <1>4, ListOfNone
<1>7. QED
  BY <1>1, <1>4, <1>5, <1>6, OrderLoop, DeeperCalls

LEMMA OrderFailPrefetch ==
  ASSUME RuntimeInv, NEW p \in Frames, FailPrefetch(p)
  PROVE  OrderInv'
<1>1. /\ Running = p /\ p \in Sources /\ p # "zero"
      /\ stack' = Append(stack, ResumeLoop(p, continuations[p]))
      /\ \A g \in Frames : continuations'[g] = continuations[g] \/ continuations'[g] = <<>>
      /\ UNCHANGED <<waiting_coroutines, counted>>
  BY Kinds DEF FailPrefetch, Free, Sources, SmartFrames, criteriaVars
<1>2. stack # <<>> /\ Last(stack).run = p /\ ~LoopOn(stack, p)
  BY <1>1, TopIs
<1>3. continuations[p] \in Seq(Frames) /\ IsInjective(continuations[p])
  BY DEF RuntimeInv, TypeInv, HandleInv
<1>4. \A g \in Frames : LoopOn(stack', g) <=> LoopOn(stack, g) \/ g = p
  BY <1>1, <1>2, <1>3, LoopStarts
<1>5. QED
  BY <1>1, <1>3, <1>4, OrderLoop, DeeperCalls

LEMMA OrderEndFrame ==
  ASSUME RuntimeInv, EndFrame
  PROVE  OrderInv'
<1> PICK l : l = Loop
  OBVIOUS
<1>1. /\ l \in Frames /\ l # main /\ stack' = Front(Below)
      /\ \A g \in Frames : continuations'[g] = continuations[g] \/ continuations'[g] = <<>>
      /\ UNCHANGED <<waiting_coroutines, counted>>
  BY Kinds DEF EndFrame, RuntimeInv, TypeInv, criteriaVars
<1>2. /\ stack # <<>> /\ Shape(Below) /\ Below # <<>> /\ Last(Below).run = l
      /\ \A g \in Frames : LoopOn(Below, g) <=> LoopOn(stack, g) /\ g # l
  BY <1>1, LoopEnds
<1>3. /\ Shape(stack') /\ SameLoops(Below, stack')
      /\ \A g \in Frames : RunsOn(stack', g) <=> RunsOn(Below, g) /\ g # l
  BY <1>1, <1>2, RunPopped
<1>4. \A g \in Frames : LoopOn(stack', g) <=> LoopOn(Below, g)
  BY <1>2, <1>3, LoopsKept
<1>5. \A d, e : Above(stack', d, e) => Above(stack, d, e)
  <2>1. stack \in Seq(Entries) /\ Below \in Seq(Entries)
    BY <1>2 DEF RuntimeInv, StackInv, Shape
  <2>2. \A d, e : Above(Below, d, e) => Above(stack, d, e)
    BY <1>2, <2>1, AboveShrinks DEF Below
  <2>3. \A d, e : Above(stack', d, e) => Above(Below, d, e)
    BY <1>1, <1>2, <2>1, AboveShrinks
  <2>4. QED
    BY <2>2, <2>3
<1>6. QED
  BY <1>1, <1>2, <1>3, <1>4, <1>5, OrderKept, DeeperCalls DEF RuntimeInv, ZeroInv

LEMMA OrderEndNotification ==
  ASSUME RuntimeInv, EndNotification
  PROVE  OrderInv'
<1>1. /\ Loop = "zero" /\ "zero" # main /\ stack' = Below /\ "zero" \notin Frames
      /\ UNCHANGED <<continuations, waiting_coroutines, counted>>
  BY Kinds DEF EndNotification, frameVars
<1>2. /\ stack # <<>> /\ stack \in Seq(Entries)
      /\ \A g \in Frames : LoopOn(stack', g) <=> LoopOn(stack, g)
  BY <1>1, LoopEnds DEF RuntimeInv, StackInv, Shape
<1>3. \A d, e : Above(stack', d, e) => Above(stack, d, e)
  BY <1>1, <1>2, AboveShrinks DEF Below
<1>4. QED
  BY <1>1, <1>2, <1>3, OrderKept, DeeperCalls DEF RuntimeInv, ZeroInv

(* The counter is lowered outside any evaluation: no lookup runs in one.   *)
LEMMA OrderLower ==
  ASSUME RuntimeInv, NEW f \in Frames, Lower(f)
  PROVE  OrderInv'
<1>1. /\ Running = f /\ f \in Lookups /\ counted' = counted \ {f} /\ Evaluate(counted \ {f})
      /\ continuations' = continuations
  BY DEF Lower, Free, frameVars, RuntimeInv, TypeInv
<1>2. \A d \in ToSet(stack) : d.loop # "zero"
  BY <1>1, TopOrder, Kinds DEF Calm
<1>3. ~is_evaluating_criteria
  BY <1>2 DEF RuntimeInv, StackInv, LoopOn, ToSet
<1>4. CASE counted' # {} \/ waiting_coroutines = <<>>
  BY <1>1, <1>4, OrderSame DEF Evaluate
<1>5. CASE counted' = {} /\ waiting_coroutines # <<>>
  <2>1. /\ waiting_coroutines' = <<>>
        /\ stack' = Append(stack, ResumeLoop("zero", waiting_coroutines))
    BY <1>1, <1>3, <1>5 DEF Evaluate
  <2> PICK e : e = ResumeLoop("zero", waiting_coroutines)
    OBVIOUS
  <2>2. e \in Entries /\ e.run = main /\ stack' = Append(stack, e)
    BY <2>1 DEF ResumeLoop, Entries, RuntimeInv, TypeInv
  <2>3. \A g \in Frames : LoopOn(stack', g) <=> LoopOn(stack, g)
    <3>1. /\ waiting_coroutines \in Seq(Frames) /\ IsInjective(waiting_coroutines)
          /\ ~LoopOn(stack, "zero") /\ "zero" \in Sources /\ "zero" \notin Frames
      BY <1>3, FramesAssumption DEF RuntimeInv, TypeInv, HandleInv, StackInv, Sources
    <3>2. QED
      BY <2>1, <3>1, LoopStarts
  <2>4. \A d \in ToSet(stack) : ~(d.run \in Pages /\ ~LoopOn(stack', d.run))
    BY <1>1, <2>3, TopOrder, DeeperCalls, Kinds
  <2>5. QED
    BY <1>1, <1>2, <2>1, <2>2, <2>3, <2>4, OrderPushed, DeeperCalls
<1>6. QED
  BY <1>4, <1>5

-------------------------------------------------------------------------------
(***************************************************************************)
(* The theorems.                                                           *)
(***************************************************************************)

(* Whoever calls or awaits is a coroutine or main.                         *)
LEMMA NextByFrame ==
  ASSUME Next
  PROVE  \/ \E g \in Frames : \E caller \in Frames \cup {main} : Call(caller, g)
         \/ \E f, g \in Frames : AwaitTask(f, g) \/ AwaitShared(f, g)
         \/ \E f \in Frames : \/ AwaitIO(f) \/ Poll(f) \/ Drop(f) \/ EndTask(f) \/ FailPrefetch(f)
                              \/ AwaitZero(f) \/ Raise(f) \/ Lower(f)
         \/ \E f \in Frames, threw \in BOOLEAN : EndShared(f, threw)
         \/ ResumeNext \/ EndFrame \/ EndNotification
<1>1. ASSUME NEW g \in Frames, Call(Running, g)
      PROVE  Running \in Frames \cup {main}
  BY <1>1 DEF Call, Free
<1>2. ASSUME NEW g \in Frames, AwaitTask(Running, g) \/ AwaitShared(Running, g)
      PROVE  Running \in Frames
  BY <1>2 DEF AwaitTask, AwaitShared, Free
<1>3. QED
  BY <1>1, <1>2 DEF Next

(* The stack, the handles, the frames and who holds them agree, after any  *)
(* interleaving of calls, suspensions, resumptions, ends and exceptions.   *)
THEOREM RuntimeInvCorrect == Spec => []RuntimeInv
<1>1. Init => RuntimeInv
  <2> SUFFICES ASSUME Init PROVE RuntimeInv
    OBVIOUS
  <2>1. TypeInv
    <3>1. /\ [f \in Frames |-> <<>>] \in [Frames -> Seq(Frames)]
          /\ [f \in Frames |-> main] \in [Frames -> Frames \cup {main}]
          /\ [f \in Frames |-> main] \in [Frames -> Reasons]
      BY DEF Reasons
    <3>2. <<>> \in Seq(Frames)
      OBVIOUS
    <3>3. QED
      BY <3>1, <3>2 DEF Init, TypeInv, States
  <2>2. StackInv
    BY EmptyStack DEF Init, StackInv
  <2>3. HandleInv
    BY Kinds, EmptyStack, ListOfNone DEF Init, HandleInv, Asleep
  <2>4. /\ \A f \in Frames : /\ frame[f] = "none" /\ continuations[f] = <<>>
                             /\ owner[f] = main /\ awaits[f] = main
        /\ TaskFrames \subseteq Frames
    BY DEF Init, Frames
  <2>5. FrameInv
    BY <2>4 DEF FrameInv
  <2>6. OwnerInv
    BY <2>4, Kinds DEF OwnerInv
  <2>7. AwaitsInv
    BY <2>4 DEF AwaitsInv
  <2>8. PageInv /\ ZeroInv
    <3>1. \A d, e : ~Above(stack, d, e)
      BY EmptyStack DEF Init, Above
    <3>2. QED
      BY <3>1 DEF Init, PageInv, ZeroInv
  <2>9. QED
    BY <2>1, <2>2, <2>3, <2>5, <2>6, <2>7, <2>8 DEF RuntimeInv
<1>2. RuntimeInv /\ [Next]_vars => RuntimeInv'
  <2> SUFFICES ASSUME RuntimeInv, [Next]_vars
               PROVE  HandlesInv' /\ CallsInv' /\ OrderInv'
    BY DEF RuntimeInv, HandlesInv, CallsInv, OrderInv
  <2>1. ASSUME NEW g \in Frames, NEW caller \in Frames \cup {main}, Call(caller, g)
        PROVE  HandlesInv' /\ CallsInv' /\ OrderInv'
    BY <2>1, StepCall, CallsCall, OrderCall
  <2>2. ASSUME NEW f \in Frames, NEW g \in Frames, AwaitTask(f, g)
        PROVE  HandlesInv' /\ CallsInv' /\ OrderInv'
    BY <2>2, StepAwaitTask, CallsAwaitTask, OrderAwaitTask
  <2>3. ASSUME NEW f \in Frames, NEW g \in Frames, AwaitShared(f, g)
        PROVE  HandlesInv' /\ CallsInv' /\ OrderInv'
    BY <2>3, StepAwaitShared, CallsAwaitShared, OrderAwaitShared
  <2>4. ASSUME NEW f \in Frames, AwaitIO(f) \/ AwaitZero(f) \/ Poll(f)
        PROVE  HandlesInv' /\ CallsInv' /\ OrderInv'
    BY <2>4, StepAwaitIO, StepAwaitZero, StepPoll, CallsAwaitIO, CallsAwaitZero, CallsPoll,
       OrderAwaits, OrderPoll
  <2>5. ASSUME NEW f \in Frames, Drop(f)
        PROVE  HandlesInv' /\ CallsInv' /\ OrderInv'
    <3>1. UNCHANGED <<stack, continuations, waiting_coroutines, counted>>
      BY <2>5 DEF Drop, criteriaVars
    <3>2. QED
      BY <2>5, <3>1, StepDrop, CallsDrop, OrderSame DEF RuntimeInv, ZeroInv
  <2>6. ASSUME NEW f \in Frames, Raise(f)
        PROVE  HandlesInv' /\ CallsInv' /\ OrderInv'
    <3>1. /\ UNCHANGED <<stack, frame, outcome, continuations, owner, awaits, waiting_coroutines>>
          /\ counted' = counted \cup {f}
      BY <2>6 DEF Raise, frameVars
    <3>2. CallsInv'
      BY <3>1 DEF RuntimeInv, CallsInv, FrameInv, OwnerInv, AwaitsInv
    <3>3. OrderInv'
      BY <3>1, OrderSame
    <3>4. QED
      BY <2>6, <3>2, <3>3, StepRaise
  <2>7. ASSUME NEW f \in Frames, Lower(f)
        PROVE  HandlesInv' /\ CallsInv' /\ OrderInv'
    BY <2>7, StepLower, CallsLower, OrderLower
  <2>8. ASSUME NEW f \in Frames, EndTask(f)
        PROVE  HandlesInv' /\ CallsInv' /\ OrderInv'
    BY <2>8, StepEndTask, CallsEndTask, OrderEndTask
  <2>9. ASSUME NEW f \in Frames, NEW threw \in BOOLEAN, EndShared(f, threw)
        PROVE  HandlesInv' /\ CallsInv' /\ OrderInv'
    BY <2>9, StepEndShared, CallsEndShared, OrderEndShared
  <2>10. ASSUME NEW p \in Frames, FailPrefetch(p)
         PROVE  HandlesInv' /\ CallsInv' /\ OrderInv'
    BY <2>10, StepFailPrefetch, CallsFailPrefetch, OrderFailPrefetch
  <2>11. CASE ResumeNext
    <3>1. Pages \subseteq Frames
      BY DEF Pages, Frames, TaskFrames, SharedFrames, SmartFrames
    <3>2. QED
      BY <2>11, <3>1, StepResumeNext, CallsResumeNext, OrderResumeNext
  <2>12. CASE EndFrame
    BY <2>12, StepEndFrame, CallsEndFrame, OrderEndFrame
  <2>13. CASE EndNotification
    BY <2>13, StepEndNotification, CallsEndNotification, OrderEndNotification
  <2>14. CASE UNCHANGED vars
    <3>1. UNCHANGED <<stack, frame, outcome, continuations, owner, awaits, io, waiting_coroutines,
                      counted, is_evaluating_criteria>>
      BY <2>14 DEF vars, frameVars, criteriaVars
    <3>2. HandlesInv'
      BY <3>1 DEF RuntimeInv, HandlesInv, TypeInv, StackInv, HandleInv
    <3>3. CallsInv'
      BY <3>1 DEF RuntimeInv, CallsInv, FrameInv, OwnerInv, AwaitsInv
    <3>4. OrderInv'
      BY <3>1, OrderSame DEF RuntimeInv, ZeroInv
    <3>5. QED
      BY <3>2, <3>3, <3>4
  <2>15. QED
    BY <2>1, <2>2, <2>3, <2>4, <2>5, <2>6, <2>7, <2>8, <2>9, <2>10, <2>11, <2>12, <2>13, <2>14,
       NextByFrame
<1>3. QED
  BY <1>1, <1>2, PTL DEF Spec

LEMMA OneOrNone ==
  ASSUME NEW S, \A x, y \in S : x = y
  PROVE  Cardinality(S) = IF S = {} THEN 0 ELSE 1
<1>1. CASE S = {}
  BY <1>1, FS_EmptySet
<1>2. CASE S # {}
  <2>1. PICK x : S = {x}
    BY <1>2
  <2>2. QED
    BY <1>2, <2>1, FS_Singleton
<1>3. QED
  BY <1>1, <1>2

(* A list without duplicates holds a coroutine once or not at all.         *)
LEMMA TimesIs ==
  ASSUME NEW f, NEW handles \in Seq(Frames), IsInjective(handles)
  PROVE  Times(f, handles) = IF f \in ToSet(handles) THEN 1 ELSE 0
<1> PICK S : S = {i \in DOMAIN handles : handles[i] = f}
  OBVIOUS
<1>1. \A x, y \in S : x = y
  BY DEF IsInjective
<1>2. S = {} <=> f \notin ToSet(handles)
  BY DEF ToSet
<1>3. QED
  BY <1>1, <1>2, OneOrNone DEF Times

(* The loops that will resume f: the one of what it waits for.             *)
LEMMA LoopedIs ==
  ASSUME RuntimeInv, NEW f \in Frames
  PROVE  Cardinality({i \in DOMAIN stack : f \in ToSet(stack[i].todo)}) =
           IF \/ awaits[f] \in Frames /\ LoopOn(stack, awaits[f])
              \/ awaits[f] = "zero" /\ InTodo(stack, f, "zero")
           THEN 1 ELSE 0
<1> PICK S : S = {i \in DOMAIN stack : f \in ToSet(stack[i].todo)}
  OBVIOUS
<1>1. ASSUME NEW i \in S
      PROVE  /\ stack[i].loop \in Sources /\ stack[i].loop = awaits[f]
             /\ InTodo(stack, f, stack[i].loop) /\ LoopOn(stack, stack[i].loop)
  <2>1. i \in DOMAIN stack /\ f \in ToSet(stack[i].todo)
    OBVIOUS
  <2>2. stack[i].loop \in Sources
    BY <2>1, ListOfNone DEF RuntimeInv, StackInv, Shape, IsRun, IsLoop
  <2>3. InTodo(stack, f, stack[i].loop) /\ LoopOn(stack, stack[i].loop)
    BY <2>1 DEF InTodo, LoopOn
  <2>4. stack[i].loop = awaits[f]
    BY <2>2, <2>3 DEF RuntimeInv, HandleInv, Sources, Frames
  <2>5. QED
    BY <2>2, <2>3, <2>4
<1>2. \A i, j \in S : i = j
  <2> SUFFICES ASSUME NEW i \in S, NEW j \in S
               PROVE  i = j
    OBVIOUS
  <2>1. stack[i].loop = stack[j].loop /\ stack[i].loop # main
    BY <1>1, SourceIsNotMain
  <2>2. QED
    BY <2>1 DEF RuntimeInv, StackInv, Shape
<1>3. S # {} <=> \/ awaits[f] \in Frames /\ LoopOn(stack, awaits[f])
                 \/ awaits[f] = "zero" /\ InTodo(stack, f, "zero")
  <2>1. ASSUME S # {}
        PROVE  \/ awaits[f] \in Frames /\ LoopOn(stack, awaits[f])
               \/ awaits[f] = "zero" /\ InTodo(stack, f, "zero")
    BY <1>1, <2>1 DEF Sources, Frames
  <2>2. ASSUME \/ awaits[f] \in Frames /\ LoopOn(stack, awaits[f])
               \/ awaits[f] = "zero" /\ InTodo(stack, f, "zero")
        PROVE  S # {}
    <3>1. InTodo(stack, f, awaits[f])
      BY <2>2 DEF RuntimeInv, HandleInv
    <3>2. QED
      BY <3>1 DEF InTodo
  <2>3. QED
    BY <2>1, <2>2
<1>4. QED
  BY <1>2, <1>3, OneOrNone

(* A suspended coroutine will be resumed from exactly one place, and no    *)
(* handle is kept to one that runs, is done or is gone, but to what was    *)
(* destroyed undone.                                                       *)
THEOREM HandlesExactCorrect == Spec => []HandlesExact
<1>1. RuntimeInv => HandlesExact
  <2> SUFFICES ASSUME RuntimeInv, NEW f \in Frames
               PROVE  /\ Handles(f) = IF frame[f] \in Asleep THEN 1 ELSE 0
                      /\ Cardinality({i \in DOMAIN stack : stack[i].run = f})
                           = IF frame[f] = "running" THEN 1 ELSE 0
    BY DEF HandlesExact, Asleep
  <2> DEFINE listed == {g \in Frames \ Resuming : f \in ToSet(continuations[g])}
             looped == {i \in DOMAIN stack : f \in ToSet(stack[i].todo)}
  <2>1. Cardinality(listed) =
          IF awaits[f] \in Frames /\ ~LoopOn(stack, awaits[f]) THEN 1 ELSE 0
    <3>1. \A g \in Frames : g \in listed <=> awaits[f] = g /\ ~LoopOn(stack, g)
      BY DEF RuntimeInv, HandleInv, Resuming, LoopOn
    <3>2. listed \subseteq Frames
      OBVIOUS
    <3> HIDE DEF listed
    <3>3. \A x, y \in listed : x = y
      BY <3>1, <3>2
    <3>4. listed = {} <=> ~(awaits[f] \in Frames /\ ~LoopOn(stack, awaits[f]))
      BY <3>1, <3>2
    <3>5. QED
      BY <3>3, <3>4, OneOrNone
  <2>2. Cardinality(looped) = IF \/ awaits[f] \in Frames /\ LoopOn(stack, awaits[f])
                                 \/ awaits[f] = "zero" /\ InTodo(stack, f, "zero")
                              THEN 1 ELSE 0
    BY LoopedIs
  <2>3. Times(f, waiting_coroutines) =
          IF awaits[f] = "zero" /\ ~InTodo(stack, f, "zero") THEN 1 ELSE 0
    <3>1. Times(f, waiting_coroutines) = IF f \in ToSet(waiting_coroutines) THEN 1 ELSE 0
      BY TimesIs DEF RuntimeInv, TypeInv, HandleInv
    <3>2. f \in ToSet(waiting_coroutines) <=> awaits[f] = "zero" /\ ~InTodo(stack, f, "zero")
      BY DEF RuntimeInv, HandleInv
    <3>3. QED
      BY <3>1, <3>2
  <2>4. f \in io <=> awaits[f] = "io"
    BY DEF RuntimeInv, HandleInv
  <2>5. awaits[f] \in Frames \/ awaits[f] \in {main, "io", "zero"}
    BY DEF RuntimeInv, TypeInv, Reasons
  <2>6. frame[f] \in Asleep <=> awaits[f] # main
    BY DEF RuntimeInv, HandleInv
  <2>7. Handles(f) = Cardinality(listed) + Cardinality(looped) + Times(f, waiting_coroutines)
                       + (IF f \in io THEN 1 ELSE 0)
    BY DEF Handles
  <2> HIDE DEF listed, looped
  <2>8. Handles(f) = IF frame[f] \in Asleep THEN 1 ELSE 0
    <3>1. main \notin {"io", "zero"} /\ \A x \in {main, "io", "zero"} : x \notin Frames
      BY FramesAssumption
    <3>2. CASE awaits[f] \in Frames
      BY <2>1, <2>2, <2>3, <2>4, <2>6, <2>7, <3>1, <3>2
    <3>3. CASE awaits[f] = main
      BY <2>1, <2>2, <2>3, <2>4, <2>6, <2>7, <3>1, <3>3
    <3>4. CASE awaits[f] = "io"
      BY <2>1, <2>2, <2>3, <2>4, <2>6, <2>7, <3>1, <3>4
    <3>5. CASE awaits[f] = "zero"
      BY <2>1, <2>2, <2>3, <2>4, <2>6, <2>7, <3>1, <3>5
    <3>6. QED
      BY <2>5, <3>2, <3>3, <3>4, <3>5
  <2>9. Cardinality({i \in DOMAIN stack : stack[i].run = f})
          = IF frame[f] = "running" THEN 1 ELSE 0
    <3> PICK S : S = {i \in DOMAIN stack : stack[i].run = f}
      OBVIOUS
    <3>1. \A i, j \in S : i = j
      BY FramesAssumption DEF RuntimeInv, StackInv, Shape
    <3>2. S # {} <=> frame[f] = "running"
      BY DEF RuntimeInv, StackInv, RunsOn
    <3>3. QED
      BY <3>1, <3>2, OneOrNone
  <2>10. QED
    BY <2>8, <2>9
<1>2. QED
  BY <1>1, RuntimeInvCorrect, PTL

(* A Task is kept by main or by a coroutine that is still there and waits, *)
(* if it waits and is no prefetch, for this very Task; no other frame is   *)
(* kept when it is done, and none is destroyed undone but what a failing   *)
(* prefetch destroys.                                                      *)
THEOREM FramesHeldCorrect == Spec => []FramesHeld
<1>1. RuntimeInv => FramesHeld
  <2> SUFFICES ASSUME RuntimeInv PROVE FramesHeld
    OBVIOUS
  <2>1. TaskFrames \subseteq Frames /\ frame \in [Frames -> States]
    BY DEF Frames, RuntimeInv, TypeInv
  <2>2. ASSUME NEW f \in TaskFrames, owner[f] # main
        PROVE  /\ frame[f] \in {"running", "suspended", "final"}
               /\ frame[owner[f]] \in {"running", "suspended"}
               /\ frame[owner[f]] = "suspended" => awaits[owner[f]] = f \/ owner[f] \in Prefetches
    BY <2>1, <2>2 DEF RuntimeInv, OwnerInv, States
  <2>3. \A f \in Frames : /\ frame[f] = "final" => f \in TaskFrames
                          /\ frame[f] = "destroyed" => f \in Acquisitions /\ awaits[f] \in Loads
    BY DEF RuntimeInv, FrameInv
  <2>4. QED
    BY <2>2, <2>3 DEF FramesHeld
<1>2. QED
  BY <1>1, RuntimeInvCorrect, PTL

(* Whoever is resumed from a coroutine it awaits finds a result there.     *)
THEOREM OutcomesKnownCorrect == Spec => OutcomesKnown
<1> DEFINE Known == \A f \in Frames :
      frame[f] = "suspended" /\ frame'[f] = "running" /\ awaits[f] \in Frames
        => outcome'[awaits[f]] # "pending"
<1>1. RuntimeInv /\ [Next]_vars => Known
  <2> SUFFICES ASSUME RuntimeInv, [Next]_vars, NEW f \in Frames,
                      frame[f] = "suspended", frame'[f] = "running", awaits[f] \in Frames
               PROVE  outcome'[awaits[f]] = "known"
    OBVIOUS
  <2>1. frame \in [Frames -> States]
    BY DEF RuntimeInv, TypeInv
  <2>2. ASSUME NEW g \in Frames, frame' = [frame EXCEPT ![g] = "running"]
        PROVE  f = g
    BY <2>1, <2>2
  <2>3. ASSUME NEW g \in Frames, NEW to \in States \ {"running"},
               frame' = [frame EXCEPT ![g] = to]
        PROVE  FALSE
    BY <2>1, <2>3 DEF States
  <2>4. frame' # frame
    OBVIOUS
  <2>5. ~(\E g \in Frames : \E caller \in Frames \cup {main} : Call(caller, g))
    BY <2>1, <2>2 DEF Call
  <2>6. ~(\E g, h \in Frames : AwaitShared(g, h))
    BY <2>3 DEF AwaitShared, Suspends, States
  <2>7. ASSUME NEW g \in Frames
        PROVE  ~(AwaitIO(g) \/ AwaitZero(g) \/ Raise(g) \/ Lower(g) \/ Drop(g))
    BY <2>3, <2>4 DEF AwaitIO, AwaitZero, Raise, Lower, Drop, Suspends, frameVars, States
  <2>8. ASSUME NEW g \in Frames, NEW h \in Frames
        PROVE  ~AwaitTask(g, h)
    BY <2>3 DEF AwaitTask, Suspends, States
  <2>9. ASSUME NEW g \in Frames
        PROVE  ~Poll(g)
    <3> SUFFICES ASSUME Poll(g) PROVE FALSE
      OBVIOUS
    <3>1. f = g /\ f \in io
      BY <2>2 DEF Poll
    <3>2. awaits[f] = "io"
      BY <3>1 DEF RuntimeInv, HandleInv
    <3>3. QED
      BY <3>2, FramesAssumption
  <2>10. ASSUME NEW g \in Frames, NEW threw \in BOOLEAN
         PROVE  ~EndShared(g, threw)
    BY <2>4 DEF EndShared
  <2>11. ~EndNotification
    BY <2>4 DEF EndNotification, frameVars
  <2>12. ~EndFrame
    BY <2>3 DEF EndFrame, States
  <2>16. ASSUME NEW p \in Frames
         PROVE  ~FailPrefetch(p)
    BY <2>1 DEF FailPrefetch
  <2>13. ASSUME NEW g \in Frames, EndTask(g)
         PROVE  outcome'[awaits[f]] = "known"
    <3>1. /\ g \in TaskFrames /\ Free(g) /\ Running = g
          /\ outcome' = [outcome EXCEPT ![g] = "known"]
      BY <2>13 DEF EndTask, Free
    <3>2. CASE continuations[g] = <<>>
      BY <2>3, <2>13, <3>2, ListOfNone DEF EndTask, States
    <3>3. CASE continuations[g] # <<>>
      <4>1. PICK h \in ToSet(continuations[g]) :
              frame' = [frame EXCEPT ![g] = "none", ![h] = "running"]
        BY <2>13, <3>3 DEF EndTask
      <4>2. h \in Frames
        BY <4>1, ListOfNone DEF RuntimeInv, TypeInv
      <4>3. f = h
        BY <2>1, <4>1, <4>2 DEF States
      <4>4. ~LoopOn(stack, g)
        BY <3>1, TasksHaveNoLoop
      <4>5. awaits[f] = g
        BY <4>1, <4>3, <4>4 DEF RuntimeInv, HandleInv
      <4>6. QED
        BY <3>1, <4>5 DEF RuntimeInv, TypeInv
    <3>4. QED
      BY <3>2, <3>3
  <2>14. ASSUME ResumeNext
         PROVE  outcome'[awaits[f]] = "known"
    <3> PICK h : h = Head(Last(stack).todo)
      OBVIOUS
    <3>1. /\ Loop # main /\ Last(stack).todo # <<>> /\ outcome' = outcome
          /\ frame' = [frame EXCEPT ![h] = "running"]
      BY <2>14 DEF ResumeNext
    <3>2. /\ Last(stack).todo \in Seq(Frames) /\ Loop \in Sources /\ LoopOn(stack, Loop)
          /\ \A g \in Frames : InTodo(stack, g, Loop) <=> g \in ToSet(Last(stack).todo)
      BY <3>1, LoopEnds
    <3>3. h \in Frames /\ h \in ToSet(Last(stack).todo)
      BY <3>1, <3>2, ListTaken
    <3>4. f = h /\ InTodo(stack, f, Loop)
      BY <2>2, <3>1, <3>2, <3>3
    <3>5. awaits[f] = Loop
      BY <3>2, <3>4 DEF RuntimeInv, HandleInv, Sources, Frames
    <3>6. QED
      BY <3>1, <3>2, <3>5 DEF RuntimeInv, StackInv
  <2>15. QED
    BY <2>4, <2>5, <2>6, <2>7, <2>8, <2>9, <2>10, <2>11, <2>12, <2>13, <2>14, <2>16, NextByFrame
    DEF vars, frameVars
<1>2. Spec => [][Known]_vars
  BY <1>1, RuntimeInvCorrect, PTL DEF Spec
<1>3. QED
  BY <1>2 DEF OutcomesKnown

(* Nobody waits for zero while the counter is zero: what a loop of the     *)
(* CriteriaVariable resumes never lowers the counter before the loop ends. *)
THEOREM NoStrandedWaiterCorrect == Spec => []NoStrandedWaiter
<1>1. RuntimeInv => NoStrandedWaiter
  BY DEF RuntimeInv, ZeroInv, NoStrandedWaiter
<1>2. QED
  BY <1>1, RuntimeInvCorrect, PTL
===============================================================================
