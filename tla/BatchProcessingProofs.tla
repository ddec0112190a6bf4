----------------------- MODULE BatchProcessingProofs -----------------------
(***************************************************************************)
(* Proofs about batch and interactive processing, for any number of pages, *)
(* stages and threads, and any number of user actions and projects.        *)
(*                                                                         *)
(* A handler of the main window is a function of app, so what has to hold  *)
(* within a handler is stated as predicates of such a value s and of the   *)
(* posted events ev, and the lemmas say what each part of a handler does   *)
(* to them.                                                                *)
(***************************************************************************)
EXTENDS BatchProcessing, Functions, SequenceTheorems, FiniteSetTheorems,
        WellFoundedInduction, TLAPS

-----------------------------------------------------------------------------
(* Sequences, sets and numbers.                                            *)

\* A non-empty set of natural numbers has a least element.
LEMMA LeastNatural ==
  ASSUME NEW S \in SUBSET Nat, S # {}
  PROVE  \E t \in S : \A u \in S : t <= u
<1> DEFINE R == {ss \in Nat \X Nat : ss[1] < ss[2]}
<1>1. IsWellFoundedOn(R, Nat)
  BY NatLessThanWellFounded DEF OpToRel
<1>2. \E t \in S : \A u \in S : ~ (<<u, t>> \in R)
  <2> HIDE DEF R
  <2> QED BY <1>1, WFMin
<1>3. PICK t \in S : \A u \in S : ~ (<<u, t>> \in R)
  BY <1>2
<1>4. ASSUME NEW u \in S PROVE t <= u
  <2>1. u \in Nat /\ t \in Nat
    OBVIOUS
  <2>2. <<u, t>> \in Nat \X Nat /\ <<u, t>>[1] = u /\ <<u, t>>[2] = t
    BY <2>1
  <2>3. ~ (u < t)
    BY <1>3, <2>2
  <2> QED BY <2>1, <2>3
<1> QED
  BY <1>4

\* Appending a new element keeps a sequence free of repetitions.
LEMMA AppendNew ==
  ASSUME NEW S, NEW q \in Seq(S), IsInjective(q), NEW x \in S, x \notin Range(q)
  PROVE  /\ Append(q, x) \in Seq(S)
         /\ IsInjective(Append(q, x))
         /\ Range(Append(q, x)) = Range(q) \cup {x}
<1> DEFINE r == Append(q, x)
           n == Len(q)
<1>1. /\ n \in Nat /\ DOMAIN q = 1..n
      /\ r \in Seq(S) /\ DOMAIN r = 1..(n + 1)
      /\ \A k \in 1..n : r[k] = q[k]
      /\ r[n + 1] = x
  BY AppendProperties, LenProperties
<1> HIDE DEF r, n
<1>2. Range(r) = Range(q) \cup {x}
  <2>1. Range(r) \subseteq Range(q) \cup {x}
    <3> SUFFICES ASSUME NEW k \in DOMAIN r PROVE r[k] \in Range(q) \cup {x}
      BY DEF Range
    <3>1. k \in 1..n \/ k = n + 1
      BY <1>1
    <3> QED BY <1>1, <3>1 DEF Range
  <2>2. \A k \in DOMAIN q : q[k] \in Range(r)
    BY <1>1 DEF Range
  <2>3. x \in Range(r)
    BY <1>1 DEF Range
  <2> QED BY <2>1, <2>2, <2>3 DEF Range
<1>3. IsInjective(r)
  <2> SUFFICES ASSUME NEW a \in DOMAIN r, NEW b \in DOMAIN r, r[a] = r[b]
               PROVE  a = b
    BY DEF IsInjective
  <2>1. \A k \in 1..n : r[k] \in Range(q)
    BY <1>1 DEF Range
  <2> QED BY <1>1, <2>1 DEF IsInjective
<1> QED BY <1>1, <1>2, <1>3 DEF r

\* Taking the head leaves a tail that does not have it.
LEMMA TailLoses ==
  ASSUME NEW S, NEW q \in Seq(S), IsInjective(q), q # <<>>
  PROVE  /\ Tail(q) \in Seq(S)
         /\ IsInjective(Tail(q))
         /\ Head(q) \in S /\ Head(q) \in Range(q)
         /\ Range(Tail(q)) = Range(q) \ {Head(q)}
<1> DEFINE r == Tail(q)
           n == Len(q)
<1>1. /\ n \in Nat /\ n > 0 /\ DOMAIN q = 1..n
      /\ r \in Seq(S) /\ DOMAIN r = 1..(n - 1)
      /\ \A k \in 1..(n - 1) : r[k] = q[k + 1]
      /\ Head(q) = q[1]
  BY HeadTailProperties, EmptySeq, LenProperties
<1> HIDE DEF r, n
<1>2. IsInjective(r)
  <2> SUFFICES ASSUME NEW a \in DOMAIN r, NEW b \in DOMAIN r, r[a] = r[b]
               PROVE  a = b
    BY DEF IsInjective
  <2>1. a + 1 \in DOMAIN q /\ b + 1 \in DOMAIN q /\ q[a + 1] = q[b + 1]
    BY <1>1
  <2> QED BY <1>1, <2>1 DEF IsInjective
<1>3. \A k \in DOMAIN r : r[k] \in Range(q) /\ r[k] # Head(q)
  BY <1>1 DEF IsInjective, Range
<1>4. ASSUME NEW k \in DOMAIN q, q[k] # Head(q) PROVE q[k] \in Range(r)
  <2>1. k # 1 /\ k - 1 \in 1..(n - 1) /\ r[k - 1] = q[k]
    BY <1>1, <1>4
  <2> QED BY <1>1, <2>1 DEF Range
<1>5. Range(r) = Range(q) \ {Head(q)}
  BY <1>3, <1>4 DEF Range
<1>6. Head(q) \in S /\ Head(q) \in Range(q)
  BY <1>1, ElementOfSeq DEF Range
<1> QED BY <1>1, <1>2, <1>5, <1>6 DEF r

\* Removing one element keeps the others, in their order.
LEMMA RemoveOne ==
  ASSUME NEW S, NEW q \in Seq(S), NEW k \in DOMAIN q
  PROVE  LET r == SubSeq(q, 1, k - 1) \o SubSeq(q, k + 1, Len(q))
         IN /\ r \in Seq(S)
            /\ Len(r) = Len(q) - 1
            /\ \A j \in 1..Len(r) : r[j] = IF j < k THEN q[j] ELSE q[j + 1]
<1> DEFINE n == Len(q)
           a == SubSeq(q, 1, k - 1)
           b == SubSeq(q, k + 1, n)
           r == a \o b
<1>1. n \in Nat /\ DOMAIN q = 1..n /\ k \in 1..n
  BY LenProperties
<1>2. /\ a \in Seq(S) /\ Len(a) = k - 1
      /\ \A j \in 1..(k - 1) : a[j] = q[j]
  BY <1>1, SubSeqProperties
<1>3. /\ b \in Seq(S) /\ Len(b) = n - k
      /\ \A j \in 1..(n - k) : b[j] = q[k + j]
  BY <1>1, SubSeqProperties
<1> HIDE DEF n, a, b
<1>4. /\ r \in Seq(S) /\ Len(r) = n - 1
      /\ \A j \in 1..(n - 1) :
           r[j] = IF j <= k - 1 THEN a[j] ELSE b[j - (k - 1)]
  <2>1. /\ r \in Seq(S) /\ Len(r) = Len(a) + Len(b)
        /\ \A j \in 1..(Len(a) + Len(b)) :
             r[j] = IF j <= Len(a) THEN a[j] ELSE b[j - Len(a)]
    BY <1>2, <1>3, ConcatProperties
  <2>2. Len(a) = k - 1 /\ Len(a) + Len(b) = n - 1
    BY <1>1, <1>2, <1>3
  <2> HIDE DEF r
  <2> QED BY <2>1, <2>2
<1> HIDE DEF r
<1>5. ASSUME NEW j \in 1..(n - 1)
      PROVE  r[j] = IF j < k THEN q[j] ELSE q[j + 1]
  <2>1. CASE j < k
    BY <1>1, <1>2, <1>4, <2>1
  <2>2. CASE ~(j < k)
    <3>1. j - (k - 1) \in 1..(n - k) /\ k + (j - (k - 1)) = j + 1
      BY <1>1, <2>2
    <3>2. r[j] = b[j - (k - 1)]
      BY <1>1, <1>4, <2>2
    <3> QED BY <1>3, <2>2, <3>1, <3>2
  <2> QED BY <2>1, <2>2
<1>6. Len(r) = n - 1 /\ r \in Seq(S)
  BY <1>4
<1>7. \A j \in 1..Len(r) : r[j] = IF j < k THEN q[j] ELSE q[j + 1]
  BY <1>5, <1>6
<1> QED BY <1>6, <1>7 DEF r, n, a, b

\* Without repetitions, the element that is removed is gone.
LEMMA RemoveOneLoses ==
  ASSUME NEW S, NEW q \in Seq(S), IsInjective(q), NEW k \in DOMAIN q
  PROVE  LET r == SubSeq(q, 1, k - 1) \o SubSeq(q, k + 1, Len(q))
         IN /\ IsInjective(r)
            /\ Range(r) = Range(q) \ {q[k]}
<1> DEFINE n == Len(q)
           r == SubSeq(q, 1, k - 1) \o SubSeq(q, k + 1, Len(q))
           from(j) == IF j < k THEN j ELSE j + 1
<1>1. n \in Nat /\ DOMAIN q = 1..n /\ k \in 1..n
  BY LenProperties
<1>2. /\ r \in Seq(S) /\ Len(r) = n - 1 /\ DOMAIN r = 1..(n - 1)
      /\ \A j \in 1..(n - 1) : r[j] = IF j < k THEN q[j] ELSE q[j + 1]
  BY RemoveOne, LenProperties
<1> HIDE DEF r, n
<1>3. \A j \in 1..(n - 1) : /\ r[j] = q[from(j)] /\ from(j) \in 1..n
                           /\ from(j) # k
  BY <1>1, <1>2
<1>4. IsInjective(r)
  <2> SUFFICES ASSUME NEW a \in 1..(n - 1), NEW b \in 1..(n - 1), r[a] = r[b]
               PROVE  a = b
    BY <1>2 DEF IsInjective
  <2>1. from(a) = from(b)
    <3>1. /\ from(a) \in DOMAIN q /\ from(b) \in DOMAIN q
          /\ q[from(a)] = q[from(b)]
      BY <1>1, <1>3
    <3> HIDE DEF from
    <3> QED BY <3>1 DEF IsInjective
  <2> QED BY <1>1, <2>1
<1>5. ASSUME NEW j \in DOMAIN r PROVE r[j] \in Range(q) \ {q[k]}
  <2>1. from(j) \in DOMAIN q /\ from(j) # k /\ r[j] = q[from(j)]
    BY <1>1, <1>2, <1>3
  <2> HIDE DEF from
  <2> QED BY <2>1 DEF IsInjective, Range
<1>6. ASSUME NEW i \in DOMAIN q, i # k PROVE q[i] \in Range(r)
  <2>1. CASE i < k
    <3>1. i \in DOMAIN r /\ r[i] = q[i]
      BY <1>1, <1>2, <2>1
    <3> QED BY <3>1 DEF Range
  <2>2. CASE i > k
    <3>1. i - 1 \in DOMAIN r /\ r[i - 1] = q[i]
      BY <1>1, <1>2, <2>2
    <3> QED BY <3>1 DEF Range
  <2> QED BY <1>1, <1>6, <2>1, <2>2
<1>7. Range(r) = Range(q) \ {q[k]}
  BY <1>5, <1>6 DEF Range
<1> QED BY <1>4, <1>7 DEF r
-----------------------------------------------------------------------------

Task == [page : Pages, project : Nat, stage : Stages, inBatch : BOOLEAN]

AppFields == {"interactive", "batch", "batching", "batchTasks", "tasks",
              "cancelled", "pool", "project", "pages", "selected", "stage",
              "shown", "shownTask"}

TasksOf(s) == DOMAIN s.tasks
Held(s)    == Queued(s.interactive) \cup Queued(s.batch)
Taken(s)   == s.interactive.taken \cup s.batch.taken

Typed(s) ==
  /\ DOMAIN s = AppFields
  /\ s.batching \in BOOLEAN
  /\ s.tasks \in Seq(Task)
  /\ s.project \in Nat
  /\ s.stage \in Stages
  /\ s.selected \in Pages \cup {NoPage}

\* The pages are distinct, and one of them is selected.
PagesSound(s) ==
  /\ s.pages \in Seq(Pages)
  /\ IsInjective(s.pages)
  /\ s.pages # <<>> => s.selected \in Range(s.pages)
  /\ s.batching => s.pages # <<>>

\* A task is queued once, and never after it was cancelled.
QueuesSound(s) ==
  /\ Held(s) \cup s.cancelled \subseteq TasksOf(s)
  /\ Held(s) \cap s.cancelled = {}
  /\ s.interactive.taken = Queued(s.interactive)
  /\ \A t, u \in Queued(s.interactive) : t = u
  /\ s.batch.taken \subseteq Queued(s.batch)
  /\ \A t \in s.batch.taken, u \in Queued(s.batch) : u < t => u \in s.batch.taken
  /\ s.batching => Queued(s.interactive) = {}
  /\ ~s.batching => Queued(s.batch) = {}

\* A batch is about the pages of the open project.
BatchSound(s) ==
  s.batching =>
    /\ \A t \in Queued(s.batch) : /\ s.batch.entries[t] \in Range(s.pages)
                                  /\ s.tasks[t].project = s.project
                                  /\ s.tasks[t].inBatch
    /\ s.batch.selectedPage \in Range(s.pages) \cup {NoPage}
    /\ s.batch.pageToSelectWhenDone \in Range(s.pages) \cup {NoPage}

\* A task is in one place only: waiting for a thread, on one, or reported.
PoolTasks(p) == Range(p.waiting) \cup p.running
PoolSound(p, ev) ==
  /\ DOMAIN p = {"waiting", "running", "leaving"}
  /\ p.waiting \in Seq(Nat) /\ IsInjective(p.waiting)
  /\ ev \in Seq(Nat) /\ IsInjective(ev)
  /\ p.running \subseteq Nat
  /\ Range(p.waiting) \cap p.running = {}
  /\ Range(ev) \cap PoolTasks(p) = {}

\* Whatever a worker may still bring back is known to a queue, or cancelled.
NoOrphans(s, ev) ==
  PoolTasks(s.pool) \cup Range(ev) \subseteq s.cancelled \cup Taken(s)

Sound(s, ev) ==
  /\ Typed(s)
  /\ PagesSound(s)
  /\ QueuesSound(s)
  /\ BatchSound(s)
  /\ PoolSound(s.pool, ev)
  /\ NoOrphans(s, ev)

\* The task of the page being edited is for the selected page.
Current(s) ==
  \A t \in Queued(s.interactive) :
    /\ s.interactive.entries[t] = s.selected
    /\ s.tasks[t] = [page |-> s.selected, project |-> s.project,
                     stage |-> s.stage, inBatch |-> FALSE]
NothingOpen(s) == s.pages = <<>> => Queued(s.interactive) = {}
Shown(s) ==
  s.shown = "image" =>
    /\ s.shownTask \in TasksOf(s)
    /\ s.tasks[s.shownTask].page = s.selected
    /\ s.tasks[s.shownTask].project = s.project

\* What holds between two handlers.
Consistent(s, ev) ==
  Sound(s, ev) /\ Current(s) /\ NothingOpen(s) /\ Shown(s)

Feeding == gui \in {"feeding", "checking"} => app.batching

Inv ==
  /\ Consistent(app, events)
  /\ Feeding
  /\ BatchConserved
  /\ applied \subseteq TasksOf(app)
-----------------------------------------------------------------------------
(* The threads of the pool.                                                *)

\* A new task starts or waits, and is then in one place.
LEMMA StartSound ==
  ASSUME NEW p, NEW ev, PoolSound(p, ev), NEW t \in Nat,
         t \notin PoolTasks(p) \cup Range(ev)
  PROVE  /\ PoolSound(Start(p, t), ev)
         /\ PoolTasks(Start(p, t)) = PoolTasks(p) \cup {t}
<1>1. CASE HasSpareCapacity(p)
  <2> DEFINE r == [p EXCEPT !.running = @ \cup {t}]
  <2>1. /\ Start(p, t) = r
        /\ DOMAIN r = DOMAIN p /\ r.waiting = p.waiting
        /\ r.running = p.running \cup {t}
    BY <1>1 DEF Start, PoolSound
  <2> QED BY <2>1 DEF PoolSound, PoolTasks
<1>2. CASE ~HasSpareCapacity(p)
  <2> DEFINE r == [p EXCEPT !.waiting = Append(@, t)]
  <2>1. /\ Start(p, t) = r
        /\ DOMAIN r = DOMAIN p /\ r.waiting = Append(p.waiting, t)
        /\ r.running = p.running
    BY <1>2 DEF Start, PoolSound
  <2>2. /\ Append(p.waiting, t) \in Seq(Nat)
        /\ IsInjective(Append(p.waiting, t))
        /\ Range(Append(p.waiting, t)) = Range(p.waiting) \cup {t}
    BY AppendNew DEF PoolSound, PoolTasks
  <2> QED BY <2>1, <2>2 DEF PoolSound, PoolTasks
<1> QED BY <1>1, <1>2
-----------------------------------------------------------------------------
(* What a handler may do to tasks that exist already: never queue one      *)
(* again, never take one back, never forget that one was cancelled.        *)

Evolves(s, r) ==
  /\ TasksOf(s) \subseteq TasksOf(r)
  /\ s.cancelled \subseteq r.cancelled
  /\ \A t \in TasksOf(s) \cap Held(r) :
       /\ t \in Held(s)
       /\ t \in Taken(s) => t \in Taken(r)

\* The parts of a handler follow each other.
LEMMA EvolvesOn ==
  ASSUME NEW s, NEW r, NEW u, Evolves(s, r), Evolves(r, u)
  PROVE  Evolves(s, u)
BY DEF Evolves

\* What does not touch queues, tasks and cancel flags evolves.
LEMMA Untouched ==
  ASSUME NEW s, NEW r,
         r.tasks = s.tasks, r.cancelled = s.cancelled,
         r.interactive = s.interactive, r.batch = s.batch
  PROVE  Evolves(s, r)
BY DEF Evolves, TasksOf, Held, Taken
-----------------------------------------------------------------------------
(* The parts of the handlers.                                              *)

\* Clearing the interactive queue cancels its task, and changes nothing else.
LEMMA ClearInteractiveSound ==
  ASSUME NEW s, NEW ev, Sound(s, ev)
  PROVE  LET r == ClearInteractive(s)
         IN /\ Sound(r, ev) /\ Evolves(s, r)
            /\ Queued(r.interactive) = {}
            /\ r.batching = s.batching /\ r.batch = s.batch
            /\ r.batchTasks = s.batchTasks /\ r.tasks = s.tasks
            /\ r.pool = s.pool /\ r.project = s.project /\ r.pages = s.pages
            /\ r.selected = s.selected /\ r.stage = s.stage
            /\ r.shown = s.shown /\ r.shownTask = s.shownTask
<1> DEFINE r == ClearInteractive(s)
<1>1. /\ DOMAIN r = AppFields
      /\ r.cancelled = s.cancelled \cup s.interactive.taken
      /\ r.interactive = CancelAndClear(s.interactive)
      /\ r.batching = s.batching /\ r.batch = s.batch
      /\ r.batchTasks = s.batchTasks /\ r.tasks = s.tasks
      /\ r.pool = s.pool /\ r.project = s.project /\ r.pages = s.pages
      /\ r.selected = s.selected /\ r.stage = s.stage
      /\ r.shown = s.shown /\ r.shownTask = s.shownTask
  BY DEF ClearInteractive, CancelledByClear, Sound, Typed, AppFields
<1>2. Queued(r.interactive) = {} /\ r.interactive.taken = {}
  BY <1>1 DEF CancelAndClear, KeepOnly, Queued
<1> HIDE DEF r
<1>3. Typed(r) /\ PagesSound(r) /\ BatchSound(r) /\ PoolSound(r.pool, ev)
  BY <1>1 DEF Sound, Typed, PagesSound, BatchSound
<1>4. QueuesSound(r)
  BY <1>1, <1>2 DEF Sound, QueuesSound, Held, TasksOf
<1>5. NoOrphans(r, ev)
  BY <1>1, <1>2 DEF Sound, NoOrphans, Taken
<1>6. Evolves(s, r)
  BY <1>1, <1>2 DEF Sound, QueuesSound, Evolves, Held, Taken, TasksOf
<1> QED BY <1>1, <1>2, <1>3, <1>4, <1>5, <1>6 DEF Sound, r

\* Clearing the batch queue cancels what was taken of it.  The page to go to is
\* still one of the project.
LEMMA ClearBatchSound ==
  ASSUME NEW s, NEW ev, Sound(s, ev)
  PROVE  LET r == ClearBatch(s)
         IN /\ Sound(r, ev) /\ Evolves(s, r)
            /\ Queued(r.batch) = {}
            /\ r.batching = s.batching /\ r.interactive = s.interactive
            /\ r.batchTasks = s.batchTasks /\ r.tasks = s.tasks
            /\ r.pool = s.pool /\ r.project = s.project /\ r.pages = s.pages
            /\ r.selected = s.selected /\ r.stage = s.stage
            /\ r.shown = s.shown /\ r.shownTask = s.shownTask
<1> DEFINE r == ClearBatch(s)
<1>1. /\ DOMAIN r = AppFields
      /\ r.cancelled = s.cancelled \cup s.batch.taken
      /\ r.batch = CancelAndClear(s.batch)
      /\ r.batching = s.batching /\ r.interactive = s.interactive
      /\ r.batchTasks = s.batchTasks /\ r.tasks = s.tasks
      /\ r.pool = s.pool /\ r.project = s.project /\ r.pages = s.pages
      /\ r.selected = s.selected /\ r.stage = s.stage
      /\ r.shown = s.shown /\ r.shownTask = s.shownTask
  BY DEF ClearBatch, CancelledByClear, Sound, Typed, AppFields
<1>2. /\ Queued(r.batch) = {} /\ r.batch.taken = {}
      /\ r.batch.selectedPage = s.batch.pageToSelectWhenDone
      /\ r.batch.pageToSelectWhenDone = s.batch.pageToSelectWhenDone
  BY <1>1 DEF CancelAndClear, KeepOnly, Queued
<1> HIDE DEF r
<1>3. Typed(r) /\ PagesSound(r) /\ PoolSound(r.pool, ev)
  BY <1>1 DEF Sound, Typed, PagesSound
<1>4. BatchSound(r)
  BY <1>1, <1>2 DEF Sound, BatchSound
<1>5. QueuesSound(r)
  BY <1>1, <1>2 DEF Sound, QueuesSound, Held, TasksOf
<1>6. NoOrphans(r, ev)
  BY <1>1, <1>2 DEF Sound, NoOrphans, Taken
<1>7. Evolves(s, r)
  BY <1>1, <1>2 DEF Sound, QueuesSound, Evolves, Held, Taken, TasksOf
<1> QED BY <1>1, <1>2, <1>3, <1>4, <1>5, <1>6, <1>7 DEF Sound, r

\* A task for the page being edited: the interactive queue, which is empty, gets
\* its only entry, and hands it out.
LEMMA OneTaken ==
  ASSUME NEW q, Queued(q) = {}, q.taken = {}, NEW page, NEW t \in Nat
  PROVE  LET r == TakeForProcessing(AddProcessingTask(q, page, t))
         IN Queued(r) = {t} /\ r.taken = {t} /\ r.entries[t] = page
<1> DEFINE a == AddProcessingTask(q, page, t)
<1>1. Queued(a) = {t} /\ a.taken = {} /\ a.entries[t] = page
  BY DEF AddProcessingTask, Queued
<1> HIDE DEF a
<1>2. Untaken(a) = {t}
  BY <1>1 DEF Untaken
<1>3. First({t}) = t
  BY DEF First
<1>4. /\ Queued(TakeForProcessing(a)) = {t} /\ TakeForProcessing(a).taken = {t}
      /\ TakeForProcessing(a).entries[t] = page
  BY <1>1, <1>2, <1>3 DEF TakeForProcessing, Next2Take, Queued
<1> QED BY <1>4 DEF a

\* A task that is appended has a number of its own, and the others keep theirs.
LEMMA AppendTask ==
  ASSUME NEW q \in Seq(Task), NEW x \in Task
  PROVE  /\ Append(q, x) \in Seq(Task)
         /\ DOMAIN Append(q, x) = DOMAIN q \cup {Len(q) + 1}
         /\ Len(q) + 1 \in Nat /\ Len(q) + 1 \notin DOMAIN q
         /\ \A t \in DOMAIN q : Append(q, x)[t] = q[t]
         /\ Append(q, x)[Len(q) + 1] = x
BY AppendProperties, LenProperties

\* loadPageInteractive() leaves a task for the selected page at most, and shows
\* no page.
LEMMA LoadSound ==
  ASSUME NEW s, NEW ev, Sound(s, ev), ~s.batching, s.pages # <<>>,
         NEW ready \in BOOLEAN
  PROVE  LET r == LoadPageInteractive(s, ready)
         IN /\ Sound(r, ev) /\ Evolves(s, r)
            /\ Current(r) /\ NothingOpen(r) /\ r.shown # "image"
            /\ r.batching = s.batching /\ r.project = s.project /\ r.selected = s.selected
            /\ r.pages = s.pages
            /\ TasksOf(r) \subseteq TasksOf(s) \cup Held(r)
<1> DEFINE c == ClearInteractive(s)
           t == Len(s.tasks) + 1
           x == NewTask(s, s.selected, FALSE)
<1>1. /\ Sound(c, ev) /\ Evolves(s, c)
      /\ Queued(c.interactive) = {}
      /\ c.batching = s.batching /\ c.batch = s.batch /\ c.tasks = s.tasks
      /\ c.pool = s.pool /\ c.project = s.project /\ c.pages = s.pages
      /\ c.selected = s.selected /\ c.stage = s.stage
  BY ClearInteractiveSound
<1> HIDE DEF c
<1>2. CASE ~ready
  <2> DEFINE r == [c EXCEPT !.shown = "error", !.shownTask = NoTask]
  <2>1. /\ LoadPageInteractive(s, ready) = r
        /\ DOMAIN r = AppFields /\ r.shown # "image"
        /\ r.interactive = c.interactive /\ r.batch = c.batch
        /\ r.batching = c.batching /\ r.tasks = c.tasks
        /\ r.cancelled = c.cancelled /\ r.pool = c.pool
        /\ r.project = c.project /\ r.pages = c.pages
        /\ r.selected = c.selected /\ r.stage = c.stage
    BY <1>1, <1>2 DEF LoadPageInteractive, Sound, Typed, AppFields, c
  <2> HIDE DEF r
  <2>2. Sound(r, ev)
    BY <1>1, <2>1 DEF Sound, Typed, PagesSound, QueuesSound, BatchSound, NoOrphans,
                      Held, Taken, TasksOf
  <2>3. Evolves(s, r)
    BY <1>1, <2>1, Untouched, EvolvesOn
  <2> QED BY <1>1, <2>1, <2>2, <2>3 DEF Current, NothingOpen, TasksOf
<1>3. CASE ready
  <2> DEFINE q == TakeForProcessing(AddProcessingTask(c.interactive, s.selected, t))
             r == SubmitTask([c EXCEPT !.tasks = Append(@, x), !.interactive = q,
                                       !.shown = "processing", !.shownTask = NoTask], t)
  <2>1. s.selected \in Pages /\ x \in Task
    BY DEF Sound, Typed, PagesSound, Range, Task, NewTask
  <2>2. c.tasks \in Seq(Task) /\ t = Len(c.tasks) + 1
    BY <1>1 DEF Sound, Typed
  <2> HIDE DEF x, t
  <2>3. /\ Append(c.tasks, x) \in Seq(Task)
        /\ DOMAIN Append(c.tasks, x) = TasksOf(c) \cup {t}
        /\ t \in Nat /\ t \notin TasksOf(c)
        /\ \A u \in TasksOf(c) : Append(c.tasks, x)[u] = c.tasks[u]
        /\ Append(c.tasks, x)[t] = x
    BY <2>1, <2>2, AppendTask DEF TasksOf
  <2>4. c.interactive.taken = {}
    BY <1>1 DEF Sound, QueuesSound
  <2>5. Queued(q) = {t} /\ q.taken = {t} /\ q.entries[t] = s.selected
    <3> DEFINE i == c.interactive
    <3>1. Queued(i) = {} /\ i.taken = {} /\ t \in Nat
      BY <1>1, <2>3, <2>4
    <3> HIDE DEF i
    <3>2. LET a == TakeForProcessing(AddProcessingTask(i, s.selected, t))
          IN Queued(a) = {t} /\ a.taken = {t} /\ a.entries[t] = s.selected
      BY <3>1, OneTaken
    <3> QED BY <3>2 DEF i
  <2> HIDE DEF q
  <2>6. /\ LoadPageInteractive(s, ready) = r
        /\ DOMAIN r = AppFields /\ r.shown # "image"
        /\ r.interactive = q /\ r.batch = c.batch
        /\ r.batching = c.batching /\ r.tasks = Append(c.tasks, x)
        /\ r.cancelled = c.cancelled /\ r.pool = Start(c.pool, t)
        /\ r.project = c.project /\ r.pages = c.pages
        /\ r.selected = c.selected /\ r.stage = c.stage
    BY <1>1, <1>3 DEF LoadPageInteractive, SubmitTask, Sound, Typed, AppFields, c, q, x, t
  <2> HIDE DEF r
  <2>7. t \notin c.cancelled \cup Held(c) \cup Taken(c)
    BY <1>1, <2>3 DEF Sound, QueuesSound, Held, Taken
  <2>8. t \notin PoolTasks(c.pool) \cup Range(ev)
    BY <1>1, <2>7 DEF Sound, NoOrphans
  <2>9. /\ PoolSound(r.pool, ev)
        /\ PoolTasks(r.pool) = PoolTasks(c.pool) \cup {t}
    BY <1>1, <2>3, <2>6, <2>8, StartSound DEF Sound
  <2>10. TasksOf(r) = TasksOf(c) \cup {t}
    BY <2>3, <2>6 DEF TasksOf
  <2>11. Queued(r.batch) = {} /\ r.batch.taken = {} /\ c.batch.taken = {}
    BY <1>1, <2>6 DEF Sound, QueuesSound
  <2>12. Typed(r) /\ PagesSound(r) /\ BatchSound(r)
    BY <1>1, <2>3, <2>6 DEF Sound, Typed, PagesSound, BatchSound
  <2>13. QueuesSound(r)
    <3>1. /\ Queued(r.interactive) = {t} /\ r.interactive.taken = {t}
          /\ r.cancelled = c.cancelled /\ ~r.batching
      BY <1>1, <2>5, <2>6
    <3>2. t \notin c.cancelled /\ c.cancelled \subseteq TasksOf(c)
      BY <1>1, <2>7 DEF Sound, QueuesSound
    <3> QED BY <2>10, <2>11, <3>1, <3>2 DEF QueuesSound, Held
  <2>14. NoOrphans(r, ev)
    BY <1>1, <2>5, <2>6, <2>9, <2>11 DEF Sound, QueuesSound, NoOrphans, Taken
  <2>15. Evolves(c, r)
    BY <2>3, <2>5, <2>6, <2>10, <2>11 DEF Evolves, Held
  <2>16. Current(r) /\ NothingOpen(r)
    BY <1>1, <2>3, <2>5, <2>6 DEF Current, NothingOpen, NewTask, x
  <2>17. Sound(r, ev) /\ Evolves(s, r)
    BY <1>1, <2>9, <2>12, <2>13, <2>14, <2>15, EvolvesOn DEF Sound
  <2>18. TasksOf(r) \subseteq TasksOf(s) \cup Held(r)
    BY <1>1, <2>5, <2>6, <2>10 DEF TasksOf, Held
  <2> QED BY <1>1, <2>6, <2>16, <2>17, <2>18
<1> QED BY <1>2, <1>3

ShowInstead(s, what) == [s EXCEPT !.shown = what, !.shownTask = NoTask]

\* What the main area shows does not matter to the tasks and queues.
LEMMA ShowingSound ==
  ASSUME NEW s, NEW ev, Sound(s, ev), NEW what
  PROVE  LET r == ShowInstead(s, what)
         IN /\ Sound(r, ev) /\ Evolves(s, r)
            /\ r.shown = what
            /\ r.batching = s.batching /\ r.batch = s.batch
            /\ r.interactive = s.interactive /\ r.batchTasks = s.batchTasks
            /\ r.tasks = s.tasks /\ r.project = s.project /\ r.pages = s.pages
            /\ r.selected = s.selected /\ r.stage = s.stage
<1> DEFINE r == ShowInstead(s, what)
<1>1. /\ DOMAIN r = AppFields
      /\ r.shown = what
      /\ r.interactive = s.interactive /\ r.batch = s.batch
      /\ r.batching = s.batching /\ r.tasks = s.tasks
      /\ r.batchTasks = s.batchTasks
      /\ r.cancelled = s.cancelled /\ r.pool = s.pool
      /\ r.project = s.project /\ r.pages = s.pages
      /\ r.selected = s.selected /\ r.stage = s.stage
  BY DEF ShowInstead, Sound, Typed, AppFields
<1> HIDE DEF r
<1>2. Sound(r, ev)
  BY <1>1 DEF Sound, Typed, PagesSound, QueuesSound, BatchSound, NoOrphans,
              Held, Taken, TasksOf
<1>3. Evolves(s, r)
  BY <1>1, Untouched
<1> QED BY <1>1, <1>2, <1>3 DEF r

\* updateMainArea() makes the queue of the page being edited agree with the
\* selection, whatever was selected before, and shows no page.
LEMMA UpdateSound ==
  ASSUME NEW s, NEW ev, Sound(s, ev), NothingOpen(s), NEW ready \in BOOLEAN
  PROVE  LET r == UpdateMainArea(s, ready)
         IN /\ Sound(r, ev) /\ Evolves(s, r)
            /\ Current(r) /\ NothingOpen(r) /\ r.shown # "image"
            /\ r.batching = s.batching /\ r.project = s.project
            /\ r.selected = s.selected /\ r.pages = s.pages
            /\ TasksOf(r) \subseteq TasksOf(s) \cup Held(r)
            /\ s.batching => r.batch = s.batch /\ r.batchTasks = s.batchTasks
<1>1. CASE s.pages = <<>> \/ (~s.batching /\ s.selected = NoPage)
  <2> DEFINE r == ShowInstead(s, "nothing")
  <2>1. UpdateMainArea(s, ready) = r
    BY <1>1 DEF UpdateMainArea, ShowInstead
  <2>2. s.pages = <<>>
    BY <1>1, PageAssumption DEF Sound, PagesSound, Range
  <2>3. Queued(s.interactive) = {}
    BY <2>2 DEF NothingOpen
  <2>4. /\ Sound(r, ev) /\ Evolves(s, r)
        /\ r.shown = "nothing"
        /\ r.interactive = s.interactive
        /\ r.batching = s.batching /\ r.batch = s.batch
        /\ r.batchTasks = s.batchTasks /\ r.project = s.project
        /\ r.selected = s.selected /\ r.pages = s.pages
        /\ r.tasks = s.tasks
    BY ShowingSound
  <2> HIDE DEF r
  <2> QED BY <2>1, <2>3, <2>4 DEF Current, NothingOpen, TasksOf
<1>2. CASE s.pages # <<>> /\ s.batching
  <2> DEFINE r == ShowInstead(s, "batch")
  <2>1. UpdateMainArea(s, ready) = r
    BY <1>2 DEF UpdateMainArea, ShowInstead
  <2>2. Queued(s.interactive) = {}
    BY <1>2 DEF Sound, QueuesSound
  <2>3. /\ Sound(r, ev) /\ Evolves(s, r)
        /\ r.shown = "batch"
        /\ r.interactive = s.interactive
        /\ r.batching = s.batching /\ r.batch = s.batch
        /\ r.batchTasks = s.batchTasks /\ r.project = s.project
        /\ r.selected = s.selected /\ r.pages = s.pages
        /\ r.tasks = s.tasks
    BY ShowingSound
  <2> HIDE DEF r
  <2> QED BY <2>1, <2>2, <2>3 DEF Current, NothingOpen, TasksOf
<1>3. CASE s.pages # <<>> /\ ~s.batching /\ s.selected # NoPage
  <2>1. UpdateMainArea(s, ready) = LoadPageInteractive(s, ready)
    BY <1>3 DEF UpdateMainArea
  <2> QED BY <1>3, <2>1, LoadSound
<1> QED BY <1>1, <1>2, <1>3 DEF Sound, Typed

\* Another page of the project may be selected at any time.
LEMMA SelectSound ==
  ASSUME NEW s, NEW ev, Sound(s, ev), NEW page \in Range(s.pages)
  PROVE  LET r == [s EXCEPT !.selected = page]
         IN /\ Sound(r, ev) /\ Evolves(s, r)
            /\ r.selected = page
            /\ r.batching = s.batching /\ r.batch = s.batch
            /\ r.interactive = s.interactive /\ r.batchTasks = s.batchTasks
            /\ r.tasks = s.tasks /\ r.project = s.project /\ r.pages = s.pages
            /\ r.stage = s.stage
            /\ r.shown = s.shown /\ r.shownTask = s.shownTask
<1> DEFINE r == [s EXCEPT !.selected = page]
<1>1. /\ DOMAIN r = AppFields
      /\ r.shown = s.shown /\ r.shownTask = s.shownTask
      /\ r.interactive = s.interactive /\ r.batch = s.batch
      /\ r.batching = s.batching /\ r.tasks = s.tasks
      /\ r.batchTasks = s.batchTasks
      /\ r.cancelled = s.cancelled /\ r.pool = s.pool
      /\ r.project = s.project /\ r.pages = s.pages
      /\ r.selected = page /\ r.stage = s.stage
  BY DEF Sound, Typed, AppFields
<1> HIDE DEF r
<1>2. page \in Pages
  BY ElementOfSeq DEF Sound, PagesSound, Range
<1>3. Sound(r, ev)
  BY <1>1, <1>2 DEF Sound, Typed, PagesSound, QueuesSound, BatchSound, NoOrphans,
                    Held, Taken, TasksOf
<1>4. Evolves(s, r)
  BY <1>1, Untouched
<1> QED BY <1>1, <1>3, <1>4 DEF r

\* The page a batch has come to is selected, if it has come to any.
LEMMA SetSelectionSound ==
  ASSUME NEW s, NEW ev, Sound(s, ev), s.batching
  PROVE  LET r == SetSelection(s, s.batch.selectedPage)
         IN /\ Sound(r, ev) /\ Evolves(s, r)
            /\ r.batching /\ r.batch = s.batch
            /\ r.interactive = s.interactive /\ r.batchTasks = s.batchTasks
            /\ r.project = s.project /\ r.pages = s.pages
<1>1. CASE s.batch.selectedPage = NoPage
  BY <1>1, Untouched DEF SetSelection
<1>2. CASE s.batch.selectedPage # NoPage
  <2>1. s.batch.selectedPage \in Range(s.pages)
    BY <1>2 DEF Sound, BatchSound
  <2>2. SetSelection(s, s.batch.selectedPage) = [s EXCEPT !.selected = s.batch.selectedPage]
    BY <1>2 DEF SetSelection
  <2> QED BY <2>1, <2>2, SelectSound
<1> QED BY <1>1, <1>2

\* After a batch no queue has entries.
LEMMA EndBatchSound ==
  ASSUME NEW s, NEW ev, Sound(s, ev)
  PROVE  LET r == EndBatch(s)
         IN /\ Sound(r, ev) /\ Evolves(s, r)
            /\ ~r.batching
            /\ r.pages = s.pages /\ r.project = s.project
            /\ s.batching => Queued(r.interactive) = {}
            /\ ~s.batching => r = s
<1>1. CASE ~s.batching
  BY <1>1, Untouched DEF EndBatch
<1>2. CASE s.batching
  <2> DEFINE a == SetSelection(s, s.batch.selectedPage)
             b == ClearBatch(a)
             r == [b EXCEPT !.batching = FALSE]
  <2>1. /\ Sound(a, ev) /\ Evolves(s, a)
        /\ a.batching /\ a.interactive = s.interactive
        /\ a.project = s.project /\ a.pages = s.pages
    BY <1>2, SetSelectionSound
  <2> HIDE DEF a
  <2>2. /\ Sound(b, ev) /\ Evolves(a, b)
        /\ Queued(b.batch) = {} /\ b.batching
        /\ b.interactive = a.interactive
        /\ b.project = a.project /\ b.pages = a.pages
    BY <2>1, ClearBatchSound
  <2> HIDE DEF b
  <2>3. EndBatch(s) = r
    BY <1>2 DEF EndBatch, AbandonBatch, a, b
  <2>4. /\ DOMAIN r = AppFields /\ r.batching = FALSE
        /\ r.interactive = b.interactive /\ r.batch = b.batch
        /\ r.tasks = b.tasks /\ r.cancelled = b.cancelled /\ r.pool = b.pool
        /\ r.project = b.project /\ r.pages = b.pages
        /\ r.selected = b.selected /\ r.stage = b.stage
    BY <2>2 DEF Sound, Typed, AppFields
  <2> HIDE DEF r
  <2>5. Sound(r, ev)
    BY <2>2, <2>4 DEF Sound, Typed, PagesSound, QueuesSound, BatchSound, NoOrphans,
                      Held, Taken, TasksOf
  <2>6. Evolves(s, r)
    BY <2>1, <2>2, <2>4, Untouched, EvolvesOn
  <2>7. Queued(r.interactive) = {}
    BY <2>2, <2>4 DEF Sound, QueuesSound
  <2> QED BY <1>2, <2>1, <2>2, <2>3, <2>4, <2>5, <2>6, <2>7
<1> QED BY <1>1, <1>2

\* What is not an image shows no wrong page.
LEMMA UpdateConsistent ==
  ASSUME NEW s, NEW ev, Sound(s, ev), NothingOpen(s), NEW ready \in BOOLEAN
  PROVE  LET r == UpdateMainArea(s, ready)
         IN Consistent(r, ev) /\ Evolves(s, r) /\ r.batching = s.batching
BY UpdateSound DEF Consistent, Shown

\* Stopping a batch.
LEMMA StopBatchSound ==
  ASSUME NEW s, NEW ev, Sound(s, ev), s.batching, NEW ready \in BOOLEAN
  PROVE  LET r == StopBatch(s, ready)
         IN /\ Consistent(r, ev) /\ Evolves(s, r)
            /\ ~r.batching /\ r.pages = s.pages
<1> DEFINE c == EndBatch(s)
<1>1. /\ Sound(c, ev) /\ Evolves(s, c) /\ ~c.batching /\ c.pages = s.pages
      /\ NothingOpen(c)
  BY EndBatchSound DEF NothingOpen
<1>2. StopBatch(s, ready) = UpdateMainArea(c, ready)
  BY DEF StopBatch
<1> HIDE DEF c
<1> QED BY <1>1, <1>2, UpdateSound, EvolvesOn DEF Consistent, Shown

\* goFirstPage() after a batch.
LEMMA WrapAroundSound ==
  ASSUME NEW s, NEW ev, Consistent(s, ev), s.pages # <<>>, NEW ready \in BOOLEAN
  PROVE  LET r == WrapAround(s, ready)
         IN Consistent(r, ev) /\ Evolves(s, r) /\ r.batching = s.batching
<1>1. CASE s.selected = Last(s.pages)
  <2> DEFINE c == [s EXCEPT !.selected = Head(s.pages)]
  <2>1. Head(s.pages) \in Range(s.pages)
    BY TailLoses DEF Consistent, Sound, PagesSound
  <2>2. /\ Sound(c, ev) /\ Evolves(s, c) /\ NothingOpen(c)
        /\ c.batching = s.batching
    BY <2>1, SelectSound DEF Consistent, NothingOpen
  <2>3. WrapAround(s, ready) = UpdateMainArea(c, ready)
    BY <1>1 DEF WrapAround
  <2> HIDE DEF c
  <2> QED BY <2>2, <2>3, UpdateConsistent, EvolvesOn
<1>2. CASE s.selected # Last(s.pages)
  BY <1>2, Untouched DEF WrapAround
<1> QED BY <1>1, <1>2

\* Opening another project, or closing this one.
LEMMA SwitchSound ==
  ASSUME NEW s, NEW ev, Sound(s, ev), NEW page \in Pages \cup {NoPage},
         NEW ready \in BOOLEAN
  PROVE  LET r == SwitchTo(s, page, ready)
         IN Consistent(r, ev) /\ Evolves(s, r) /\ ~r.batching
<1> DEFINE a == EndBatch(s)
           c == ClearInteractive(a)
           pages == IF page = NoPage THEN <<>> ELSE PageOrder
           d == [c EXCEPT !.project = @ + 1, !.pages = pages,
                          !.selected = page, !.stage = 1]
<1>1. Sound(a, ev) /\ Evolves(s, a) /\ ~a.batching
  BY EndBatchSound
<1> HIDE DEF a
<1>2. /\ Sound(c, ev) /\ Evolves(a, c) /\ ~c.batching
      /\ Queued(c.interactive) = {}
  BY <1>1, ClearInteractiveSound
<1> HIDE DEF c
<1>3. /\ pages \in Seq(Pages) /\ IsInjective(pages)
      /\ pages # <<>> => page \in Range(pages)
  BY BatchAssumption DEF IsInjective
<1> HIDE DEF pages
<1>4. SwitchTo(s, page, ready) = UpdateMainArea(d, ready)
  BY DEF SwitchTo, a, c, pages
<1>5. /\ DOMAIN d = AppFields
      /\ d.interactive = c.interactive /\ d.batch = c.batch
      /\ d.batching = c.batching /\ d.tasks = c.tasks
      /\ d.cancelled = c.cancelled /\ d.pool = c.pool
      /\ d.project = c.project + 1 /\ d.pages = pages
      /\ d.selected = page /\ d.stage = 1
  BY <1>2 DEF Sound, Typed, AppFields
<1> HIDE DEF d
<1>6. Sound(d, ev)
  <2>1. Typed(d)
    BY <1>2, <1>5, BatchAssumption DEF Sound, Typed
  <2>2. PagesSound(d) /\ BatchSound(d)
    BY <1>2, <1>3, <1>5 DEF PagesSound, BatchSound
  <2>3. QueuesSound(d)
    BY <1>2, <1>5 DEF Sound, QueuesSound, Held, TasksOf
  <2>4. PoolSound(d.pool, ev) /\ NoOrphans(d, ev)
    BY <1>2, <1>5 DEF Sound, NoOrphans, Taken
  <2> QED BY <2>1, <2>2, <2>3, <2>4 DEF Sound
<1>7. Evolves(s, d) /\ NothingOpen(d) /\ ~d.batching
  BY <1>1, <1>2, <1>5, Untouched, EvolvesOn DEF NothingOpen
<1> QED BY <1>4, <1>6, <1>7, UpdateConsistent, EvolvesOn

\* The queue of a batch has an entry for every page, with the numbers that
\* follow n, and none of them taken.
LEMMA QueueOfFields ==
  ASSUME NEW pages \in Seq(Pages), NEW n \in Nat
  PROVE  LET q == QueueOf(pages, n)
         IN /\ Queued(q) = n + 1 .. n + Len(pages)
            /\ q.taken = {}
            /\ \A t \in Queued(q) : q.entries[t] \in Range(pages)
            /\ q.selectedPage = NoPage /\ q.pageToSelectWhenDone = NoPage
<1> DEFINE q == QueueOf(pages, n)
<1>1. /\ q.entries = [t \in n + 1 .. n + Len(pages) |-> pages[t - n]]
      /\ q.taken = {} /\ q.selectedPage = NoPage /\ q.pageToSelectWhenDone = NoPage
  BY DEF QueueOf, EmptyQueue
<1> HIDE DEF q
<1>2. Queued(q) = n + 1 .. n + Len(pages)
  BY <1>1 DEF Queued
<1>3. ASSUME NEW t \in n + 1 .. n + Len(pages) PROVE pages[t - n] \in Range(pages)
  <2>1. Len(pages) \in Nat /\ DOMAIN pages = 1..Len(pages)
    BY LenProperties
  <2> QED BY <2>1 DEF Range
<1>4. \A t \in Queued(q) : q.entries[t] \in Range(pages)
  BY <1>1, <1>2, <1>3
<1> QED BY <1>1, <1>2, <1>4 DEF q

\* Tasks that are appended have numbers of their own, and the others keep theirs.
LEMMA AppendTasks ==
  ASSUME NEW a \in Seq(Task), NEW x \in Seq(Task)
  PROVE  /\ a \o x \in Seq(Task)
         /\ DOMAIN (a \o x) = DOMAIN a \cup (Len(a) + 1 .. Len(a) + Len(x))
         /\ DOMAIN a \cap (Len(a) + 1 .. Len(a) + Len(x)) = {}
         /\ \A t \in DOMAIN a : (a \o x)[t] = a[t]
         /\ \A t \in Len(a) + 1 .. Len(a) + Len(x) : (a \o x)[t] = x[t - Len(a)]
<1> DEFINE r == a \o x
<1>1. /\ r \in Seq(Task) /\ Len(r) = Len(a) + Len(x)
      /\ \A t \in 1..(Len(a) + Len(x)) :
           r[t] = IF t <= Len(a) THEN a[t] ELSE x[t - Len(a)]
  BY ConcatProperties
<1> HIDE DEF r
<1>2. /\ Len(a) \in Nat /\ Len(x) \in Nat
      /\ DOMAIN a = 1..Len(a) /\ DOMAIN r = 1..Len(r)
  BY <1>1, LenProperties
<1> QED BY <1>1, <1>2 DEF r

\* Starting a batch: a task for every page, of the project that is open; the
\* image shown stays until the feeding is over.
LEMMA StartBatchSound ==
  ASSUME NEW s, NEW ev, Consistent(s, ev), ~s.batching, s.pages # <<>>
  PROVE  LET r == StartBatch(s)
         IN /\ Consistent(r, ev) /\ Evolves(s, r)
            /\ r.batching
            /\ Queued(r.batch) = r.batchTasks
            /\ r.batchTasks \cap TasksOf(s) = {}
<1> DEFINE c  == ClearInteractive(s)
           n  == Len(s.tasks)
           xs == [k \in DOMAIN s.pages |-> NewTask(s, s.pages[k], TRUE)]
           q  == QueueOf(s.pages, n)
           new == n + 1 .. n + Len(s.pages)
           r  == StartBatch(s)
<1> HIDE DEF xs, q, r
<1>1. /\ Sound(c, ev) /\ Evolves(s, c)
      /\ Queued(c.interactive) = {}
      /\ c.batching = s.batching /\ c.batch = s.batch /\ c.tasks = s.tasks
      /\ c.pool = s.pool /\ c.project = s.project /\ c.pages = s.pages
      /\ c.selected = s.selected /\ c.stage = s.stage
      /\ c.shown = s.shown /\ c.shownTask = s.shownTask
  BY ClearInteractiveSound DEF Consistent
<1> HIDE DEF c
<1>2. /\ DOMAIN r = AppFields
      /\ r.interactive = c.interactive /\ r.batch = q
      /\ r.batching = TRUE /\ r.batchTasks = new
      /\ r.tasks = c.tasks \o xs
      /\ r.cancelled = c.cancelled /\ r.pool = c.pool
      /\ r.project = c.project /\ r.pages = c.pages
      /\ r.selected = c.selected /\ r.stage = c.stage
      /\ r.shown = c.shown /\ r.shownTask = c.shownTask
  BY <1>1 DEF StartBatch, Sound, Typed, AppFields, c, xs, q, r
<1>3. /\ s.tasks \in Seq(Task) /\ s.pages \in Seq(Pages)
      /\ n \in Nat /\ DOMAIN s.tasks = 1..n
      /\ Len(s.pages) \in Nat /\ DOMAIN s.pages = 1..Len(s.pages)
  BY LenProperties DEF Consistent, Sound, Typed, PagesSound
<1> HIDE DEF n
<1>4. /\ Queued(q) = new /\ q.taken = {}
      /\ \A t \in new : q.entries[t] \in Range(s.pages)
      /\ q.selectedPage = NoPage /\ q.pageToSelectWhenDone = NoPage
  <2> DEFINE ps == s.pages
  <2>1. ps \in Seq(Pages) /\ n \in Nat
    BY <1>3
  <2> HIDE DEF ps
  <2>2. LET k == QueueOf(ps, n)
        IN /\ Queued(k) = n + 1 .. n + Len(ps)
           /\ k.taken = {}
           /\ \A t \in Queued(k) : k.entries[t] \in Range(ps)
           /\ k.selectedPage = NoPage /\ k.pageToSelectWhenDone = NoPage
    BY <2>1, QueueOfFields
  <2> QED BY <2>2 DEF q, ps
<1>5. /\ xs \in Seq(Task) /\ Len(xs) = Len(s.pages)
      /\ \A k \in 1..Len(s.pages) : /\ xs[k].project = s.project
                                    /\ xs[k].inBatch = TRUE
  <2>1. \A k \in DOMAIN s.pages : NewTask(s, s.pages[k], TRUE) \in Task
    BY <1>3, ElementOfSeq DEF Consistent, Sound, Typed, Task, NewTask
  <2>2. xs \in [1..Len(s.pages) -> Task]
    BY <1>3, <2>1 DEF xs
  <2>3. \A k \in 1..Len(s.pages) : xs[k].project = s.project /\ xs[k].inBatch = TRUE
    BY <1>3 DEF NewTask, xs
  <2>4. xs \in Seq(Task)
    BY <1>3, <2>2, IsASeq
  <2>5. Len(xs) = Len(s.pages)
    BY <1>3, <2>2, <2>4, LenProperties
  <2> QED BY <2>3, <2>4, <2>5
<1>6. /\ r.tasks \in Seq(Task)
      /\ TasksOf(r) = TasksOf(s) \cup new
      /\ \A t \in TasksOf(s) : r.tasks[t] = s.tasks[t]
      /\ \A t \in new : r.tasks[t] = xs[t - n]
      /\ new \cap TasksOf(s) = {}
  <2>1. r.tasks = s.tasks \o xs /\ Len(s.tasks) = n
    BY <1>1, <1>2 DEF n
  <2> QED BY <1>3, <1>5, <2>1, AppendTasks DEF TasksOf
<1>7. \A t \in new : r.tasks[t].project = r.project /\ r.tasks[t].inBatch
  <2> SUFFICES ASSUME NEW t \in new
               PROVE  r.tasks[t].project = r.project /\ r.tasks[t].inBatch
    OBVIOUS
  <2>1. t - n \in 1..Len(s.pages)
    BY <1>3
  <2> QED BY <1>1, <1>2, <1>5, <1>6, <2>1
<1>8. /\ Queued(c.batch) = {} /\ c.batch.taken = {} /\ c.interactive.taken = {}
      /\ c.cancelled \subseteq TasksOf(s)
  BY <1>1 DEF Sound, QueuesSound, TasksOf
<1> HIDE DEF new
<1>9. Typed(r) /\ PagesSound(r) /\ PoolSound(r.pool, ev)
  BY <1>1, <1>2, <1>6 DEF Sound, Typed, PagesSound
<1>10. QueuesSound(r)
  BY <1>1, <1>2, <1>4, <1>6, <1>7, <1>8 DEF QueuesSound, Held
<1>11. BatchSound(r)
  BY <1>1, <1>2, <1>4, <1>7 DEF BatchSound
<1>12. NoOrphans(r, ev)
  BY <1>1, <1>2, <1>4, <1>8 DEF Sound, NoOrphans, Taken
<1>13. Evolves(s, r)
  <2>1. Evolves(c, r)
    BY <1>1, <1>2, <1>4, <1>6, <1>7 DEF Evolves, Held, TasksOf
  <2> QED BY <1>1, <2>1, EvolvesOn
<1>14. Current(r) /\ NothingOpen(r) /\ Shown(r)
  <2>1. Queued(r.interactive) = {}
    BY <1>1, <1>2
  <2>2. Shown(r)
    <3> SUFFICES ASSUME r.shown = "image"
                 PROVE  /\ r.shownTask \in TasksOf(r)
                        /\ r.tasks[r.shownTask].page = r.selected
                        /\ r.tasks[r.shownTask].project = r.project
      BY DEF Shown
    <3>1. /\ s.shownTask \in TasksOf(s)
          /\ s.tasks[s.shownTask].page = s.selected
          /\ s.tasks[s.shownTask].project = s.project
      BY <1>1, <1>2 DEF Consistent, Shown
    <3>2. r.shownTask = s.shownTask /\ r.selected = s.selected /\ r.project = s.project
      BY <1>1, <1>2
    <3>3. r.tasks[s.shownTask] = s.tasks[s.shownTask] /\ s.shownTask \in TasksOf(r)
      BY <1>6, <3>1
    <3> QED BY <3>1, <3>2, <3>3
  <2> QED BY <2>1, <2>2 DEF Current, NothingOpen
<1>15. Consistent(r, ev)
  BY <1>9, <1>10, <1>11, <1>12, <1>14 DEF Consistent, Sound
<1> QED BY <1>2, <1>4, <1>6, <1>13, <1>15 DEF r
-----------------------------------------------------------------------------
(* The feeding loop.                                                       *)

\* takeForProcessing() takes the first entry that is not taken.
LEMMA TakeNext ==
  ASSUME NEW q, Queued(q) \subseteq Nat, HasUntaken(q)
  PROVE  LET t == Next2Take(q)
             r == TakeForProcessing(q)
         IN /\ t \in Untaken(q) /\ \A u \in Untaken(q) : t <= u
            /\ r.entries = q.entries /\ Queued(r) = Queued(q)
            /\ r.taken = q.taken \cup {t}
            /\ r.selectedPage \in {q.selectedPage, q.entries[t]}
            /\ r.pageToSelectWhenDone = q.pageToSelectWhenDone
<1> DEFINE t == Next2Take(q)
           r == TakeForProcessing(q)
<1>1. PICK m \in Untaken(q) : \A u \in Untaken(q) : m <= u
  BY LeastNatural DEF HasUntaken, Untaken
<1>2. t \in Untaken(q) /\ \A u \in Untaken(q) : t <= u
  BY <1>1 DEF Next2Take, First
<1>3. /\ r.entries = q.entries
      /\ r.taken = q.taken \cup {t}
      /\ r.selectedPage \in {q.selectedPage, q.entries[t]}
      /\ r.pageToSelectWhenDone = q.pageToSelectWhenDone
  BY DEF TakeForProcessing
<1> HIDE DEF t, r
<1> QED BY <1>2, <1>3 DEF t, r, Queued

\* Submitting the next task of a batch.
LEMMA SubmitNextSound ==
  ASSUME NEW s, NEW ev, Consistent(s, ev), s.batching, HasUntaken(s.batch)
  PROVE  LET r == SubmitNext(s)
         IN /\ Consistent(r, ev) /\ Evolves(s, r)
            /\ r.batching /\ r.batchTasks = s.batchTasks
            /\ Queued(r.batch) = Queued(s.batch)
<1> DEFINE t == Next2Take(s.batch)
           q == TakeForProcessing(s.batch)
           r == SubmitNext(s)
<1> HIDE DEF r
<1>1. /\ Held(s) \subseteq Nat /\ Queued(s.batch) \subseteq Nat
      /\ TasksOf(s) \subseteq Nat
  BY LenProperties DEF Consistent, Sound, Typed, QueuesSound, Held, TasksOf
<1>2. /\ t \in Untaken(s.batch) /\ \A u \in Untaken(s.batch) : t <= u
      /\ q.entries = s.batch.entries /\ Queued(q) = Queued(s.batch)
      /\ q.taken = s.batch.taken \cup {t}
      /\ q.selectedPage \in {s.batch.selectedPage, s.batch.entries[t]}
      /\ q.pageToSelectWhenDone = s.batch.pageToSelectWhenDone
  <2> DEFINE b == s.batch
  <2> HIDE DEF b
  <2>1. LET tt == Next2Take(b)
            rr == TakeForProcessing(b)
        IN /\ tt \in Untaken(b) /\ \A u \in Untaken(b) : tt <= u
           /\ rr.entries = b.entries /\ Queued(rr) = Queued(b)
           /\ rr.taken = b.taken \cup {tt}
           /\ rr.selectedPage \in {b.selectedPage, b.entries[tt]}
           /\ rr.pageToSelectWhenDone = b.pageToSelectWhenDone
    BY <1>1, TakeNext DEF b
  <2> QED BY <2>1 DEF b
<1> HIDE DEF t, q
<1>3. /\ DOMAIN r = AppFields
      /\ r.batch = q /\ r.pool = Start(s.pool, t)
      /\ r.interactive = s.interactive
      /\ r.batching = s.batching /\ r.tasks = s.tasks
      /\ r.batchTasks = s.batchTasks /\ r.cancelled = s.cancelled
      /\ r.project = s.project /\ r.pages = s.pages
      /\ r.selected = s.selected /\ r.stage = s.stage
      /\ r.shown = s.shown /\ r.shownTask = s.shownTask
  BY DEF SubmitNext, SubmitTask, Consistent, Sound, Typed, AppFields, t, q, r
<1>4. t \in Queued(s.batch) /\ t \notin s.batch.taken /\ t \in Nat
  BY <1>1, <1>2 DEF Untaken
<1>5. Queued(s.interactive) = {} /\ s.interactive.taken = {}
  BY DEF Consistent, Sound, QueuesSound
<1>6. t \notin s.cancelled \cup Taken(s)
  BY <1>4, <1>5 DEF Consistent, Sound, QueuesSound, Held, Taken
<1>7. t \notin PoolTasks(s.pool) \cup Range(ev)
  BY <1>6 DEF Consistent, Sound, NoOrphans
<1>8. /\ PoolSound(r.pool, ev)
      /\ PoolTasks(r.pool) = PoolTasks(s.pool) \cup {t}
  BY <1>3, <1>4, <1>7, StartSound DEF Consistent, Sound
<1>9. Typed(r) /\ PagesSound(r)
  BY <1>3 DEF Consistent, Sound, Typed, PagesSound
<1>10. QueuesSound(r)
  <2>1. \A u \in r.batch.taken, v \in Queued(r.batch) : v < u => v \in r.batch.taken
    <3> SUFFICES ASSUME NEW u \in q.taken, NEW v \in Queued(s.batch), v < u,
                        v \notin q.taken
                 PROVE  FALSE
      BY <1>2, <1>3
    <3>1. v \in Untaken(s.batch) /\ t <= v
      BY <1>2 DEF Untaken
    <3>2. u # t
      BY <1>1, <1>4, <3>1
    <3> QED BY <1>2, <3>2 DEF Consistent, Sound, QueuesSound
  <2> QED BY <1>2, <1>3, <1>4, <2>1 DEF Consistent, Sound, QueuesSound, Held, TasksOf
<1>11. BatchSound(r)
  BY <1>2, <1>3, <1>4 DEF Consistent, Sound, BatchSound
<1>12. NoOrphans(r, ev)
  BY <1>2, <1>3, <1>8 DEF Consistent, Sound, NoOrphans, Taken
<1>13. Evolves(s, r)
  BY <1>2, <1>3 DEF Evolves, Held, Taken, TasksOf
<1>14. Current(r) /\ NothingOpen(r) /\ Shown(r)
  <2>1. Current(r) /\ NothingOpen(r)
    BY <1>3, <1>5 DEF Current, NothingOpen
  <2>2. Shown(r)
    BY <1>3 DEF Consistent, Shown, TasksOf
  <2> QED BY <2>1, <2>2
<1>15. Consistent(r, ev)
  BY <1>8, <1>9, <1>10, <1>11, <1>12, <1>14 DEF Consistent, Sound
<1> QED BY <1>2, <1>3, <1>13, <1>15 DEF r

\* The end of the feeding loop.
LEMMA EndFeedingSound ==
  ASSUME NEW s, NEW ev, Consistent(s, ev), s.batching
  PROVE  LET r == EndFeeding(s)
         IN /\ Consistent(r, ev) /\ Evolves(s, r)
            /\ r.batching /\ r.batchTasks = s.batchTasks /\ r.batch = s.batch
<1> DEFINE c == SetSelection(s, s.batch.selectedPage)
<1>1. /\ Sound(c, ev) /\ Evolves(s, c)
      /\ c.batching /\ c.batch = s.batch
      /\ c.interactive = s.interactive /\ c.batchTasks = s.batchTasks
      /\ c.project = s.project /\ c.pages = s.pages
  BY SetSelectionSound DEF Consistent
<1>2. EndFeeding(s) = UpdateMainArea(c, TRUE)
  BY DEF EndFeeding
<1>3. NothingOpen(c)
  BY <1>1 DEF Consistent, NothingOpen
<1> HIDE DEF c
<1> DEFINE r == UpdateMainArea(c, TRUE)
<1>4. /\ Sound(r, ev) /\ Evolves(c, r)
      /\ Current(r) /\ NothingOpen(r) /\ r.shown # "image"
      /\ r.batching = c.batching
      /\ r.batch = c.batch /\ r.batchTasks = c.batchTasks
  BY <1>1, <1>3, UpdateSound
<1> HIDE DEF r
<1>5. Consistent(r, ev) /\ Evolves(s, r)
  BY <1>1, <1>4, EvolvesOn DEF Consistent, Shown
<1> QED BY <1>1, <1>2, <1>4, <1>5 DEF r
-----------------------------------------------------------------------------
(* Results.                                                                *)

\* A result that is delivered is no longer anywhere.
LEMMA Delivered ==
  ASSUME NEW p, NEW ev, PoolSound(p, ev), ev # <<>>
  PROVE  /\ PoolSound(p, Tail(ev))
         /\ Head(ev) \in Range(ev)
         /\ PoolTasks(p) \cup Range(Tail(ev)) = (PoolTasks(p) \cup Range(ev)) \ {Head(ev)}
<1>1. /\ Tail(ev) \in Seq(Nat) /\ IsInjective(Tail(ev))
      /\ Head(ev) \in Range(ev)
      /\ Range(Tail(ev)) = Range(ev) \ {Head(ev)}
  BY TailLoses DEF PoolSound
<1> QED BY <1>1 DEF PoolSound

\* processingFinished() on a task that was taken erases its entry, and selects
\* only pages that are, or were, in the queue.
LEMMA FinishTaken ==
  ASSUME NEW q, Queued(q) \subseteq Nat, q.taken \subseteq Queued(q),
         \A t \in q.taken, u \in Queued(q) : u < t => u \in q.taken,
         NEW t \in q.taken
  PROVE  LET r == ProcessingFinished(q, t)
             seen == {q.selectedPage, q.pageToSelectWhenDone}
                     \cup {q.entries[u] : u \in Queued(q)}
         IN /\ Queued(r) = Queued(q) \ {t}
            /\ r.taken = q.taken \ {t}
            /\ \A u \in Queued(r) : r.entries[u] = q.entries[u]
            /\ r.selectedPage \in seen /\ r.pageToSelectWhenDone \in seen
<1> DEFINE r == ProcessingFinished(q, t)
           rest == Queued(q) \ {t}
           seen == {q.selectedPage, q.pageToSelectWhenDone}
                   \cup {q.entries[u] : u \in Queued(q)}
<1>1. Found(q, t)
  BY DEF Found
<1>2. /\ r.entries = KeepOnly(q, rest)
      /\ r.taken = q.taken \ {t}
      /\ r.selectedPage = SelectedAfter(q, t)
      /\ r.pageToSelectWhenDone = WhenDoneAfter(q, t)
  BY <1>1 DEF ProcessingFinished
<1> HIDE DEF r
<1>3. Queued(r) = rest /\ \A u \in rest : r.entries[u] = q.entries[u]
  BY <1>2 DEF KeepOnly, Queued
<1>4. WhenDoneAfter(q, t) \in seen
  BY DEF WhenDoneAfter
<1>5. rest # {} => First(rest) \in rest
  BY LeastNatural DEF First
<1>6. SelectedAfter(q, t) \in seen
  <2>1. CASE q.selectedPage # q.entries[t]
    BY <2>1 DEF SelectedAfter
  <2>2. CASE q.selectedPage = q.entries[t] /\ rest # {}
    BY <1>5, <2>2 DEF SelectedAfter
  <2>3. CASE q.selectedPage = q.entries[t] /\ rest = {}
    BY <1>4, <2>3 DEF SelectedAfter
  <2> QED BY <2>1, <2>2, <2>3
<1> QED BY <1>2, <1>3, <1>4, <1>6 DEF r

\* "Cancelled or not, we must mark it as finished": for the queues it makes no
\* difference when it was cancelled.
LEMMA FinishedCancelled ==
  ASSUME NEW s, NEW ev, Consistent(s, ev), NEW t \in s.cancelled
  PROVE  LET r == Finished(s, t)
         IN /\ DOMAIN r = AppFields
            /\ r.interactive = s.interactive /\ r.batch = s.batch
            /\ r.batching = s.batching /\ r.tasks = s.tasks
            /\ r.batchTasks = s.batchTasks
            /\ r.cancelled = s.cancelled /\ r.pool = s.pool
            /\ r.project = s.project /\ r.pages = s.pages
            /\ r.selected = s.selected /\ r.stage = s.stage
            /\ r.shown = s.shown /\ r.shownTask = s.shownTask
<1>1. t \notin s.interactive.taken /\ t \notin s.batch.taken
  BY DEF Consistent, Sound, QueuesSound, Held
<1>2. /\ ProcessingFinished(s.interactive, t) = s.interactive
      /\ ProcessingFinished(s.batch, t) = s.batch
  BY <1>1 DEF ProcessingFinished, Found
<1> QED BY <1>2 DEF Finished, Consistent, Sound, Typed, AppFields

\* A result that nobody cancelled is that of the queue in use: its entry goes.
LEMMA FinishedLive ==
  ASSUME NEW s, NEW ev, Consistent(s, ev), ev # <<>>, Head(ev) \notin s.cancelled
  PROVE  LET t == Head(ev)
             r == Finished(s, t)
         IN /\ Consistent(r, Tail(ev)) /\ Evolves(s, r)
            /\ t \in TasksOf(s) /\ t \in Taken(s)
            /\ r.batching = s.batching /\ r.batchTasks = s.batchTasks
            /\ r.pages = s.pages /\ r.tasks = s.tasks
            /\ r.project = s.project /\ r.selected = s.selected
            /\ Queued(r.interactive) = {}
            /\ s.batching => Queued(r.batch) = Queued(s.batch) \ {t}
            /\ ~s.batching => s.tasks[t].page = s.selected
                              /\ s.tasks[t].project = s.project
<1> DEFINE t == Head(ev)
           r == Finished(s, t)
           qi == ProcessingFinished(s.interactive, t)
           qb == ProcessingFinished(s.batch, t)
<1> HIDE DEF r
<1>1. /\ DOMAIN r = AppFields
      /\ r.interactive = qi /\ r.batch = IF s.batching THEN qb ELSE s.batch
      /\ r.batching = s.batching /\ r.tasks = s.tasks
      /\ r.batchTasks = s.batchTasks
      /\ r.cancelled = s.cancelled /\ r.pool = s.pool
      /\ r.project = s.project /\ r.pages = s.pages
      /\ r.selected = s.selected /\ r.stage = s.stage
      /\ r.shown = s.shown /\ r.shownTask = s.shownTask
  BY DEF Finished, Consistent, Sound, Typed, AppFields, r
<1> HIDE DEF qi, qb
<1>2. /\ PoolSound(s.pool, Tail(ev))
      /\ t \in Range(ev)
      /\ PoolTasks(s.pool) \cup Range(Tail(ev)) = (PoolTasks(s.pool) \cup Range(ev)) \ {t}
  BY Delivered DEF Consistent, Sound
<1> HIDE DEF t
<1>3. t \in Taken(s) /\ t \in Held(s) /\ t \in TasksOf(s) /\ t \notin s.cancelled
  BY <1>2 DEF Consistent, Sound, NoOrphans, QueuesSound, Taken, Held, t
<1>4. TasksOf(s) \subseteq Nat /\ Queued(s.batch) \subseteq Nat /\ Queued(s.interactive) \subseteq Nat
  BY LenProperties DEF Consistent, Sound, Typed, QueuesSound, Held, TasksOf
<1>5. CASE s.batching
  <2>1. /\ Queued(s.interactive) = {} /\ s.interactive.taken = {}
        /\ t \in s.batch.taken /\ s.batch.taken \subseteq Queued(s.batch)
    BY <1>3, <1>5 DEF Consistent, Sound, QueuesSound, Taken
  <2>2. qi = s.interactive
    BY <2>1 DEF ProcessingFinished, Found, qi
  <2> DEFINE seen == {s.batch.selectedPage, s.batch.pageToSelectWhenDone}
                     \cup {s.batch.entries[u] : u \in Queued(s.batch)}
  <2>3. /\ Queued(qb) = Queued(s.batch) \ {t}
        /\ qb.taken = s.batch.taken \ {t}
        /\ \A u \in Queued(qb) : qb.entries[u] = s.batch.entries[u]
        /\ qb.selectedPage \in seen /\ qb.pageToSelectWhenDone \in seen
    BY <1>4, <2>1, FinishTaken DEF Consistent, Sound, QueuesSound, qb
  <2>4. seen \subseteq Range(s.pages) \cup {NoPage}
    BY <1>5 DEF Consistent, Sound, BatchSound
  <2> HIDE DEF seen
  <2>5. r.batch = qb
    BY <1>1, <1>5
  <2>6. Typed(r) /\ PagesSound(r) /\ PoolSound(r.pool, Tail(ev))
    BY <1>1, <1>2 DEF Consistent, Sound, Typed, PagesSound
  <2>7. QueuesSound(r)
    BY <1>1, <1>5, <2>1, <2>2, <2>3, <2>5 DEF Consistent, Sound, QueuesSound, Held, TasksOf
  <2>8. BatchSound(r)
    BY <1>1, <1>5, <2>3, <2>4, <2>5 DEF Consistent, Sound, BatchSound
  <2>9. NoOrphans(r, Tail(ev))
    BY <1>1, <1>2, <2>1, <2>2, <2>3, <2>5 DEF Consistent, Sound, NoOrphans, Taken
  <2>10. Current(r) /\ NothingOpen(r) /\ Shown(r)
    BY <1>1, <2>1, <2>2 DEF Consistent, Current, NothingOpen, Shown, TasksOf
  <2>11. Evolves(s, r)
    BY <1>1, <2>1, <2>2, <2>3, <2>5 DEF Evolves, Held, Taken, TasksOf
  <2>12. Consistent(r, Tail(ev))
    BY <2>6, <2>7, <2>8, <2>9, <2>10 DEF Consistent, Sound
  <2> QED BY <1>1, <1>3, <1>5, <2>1, <2>2, <2>3, <2>5, <2>11, <2>12 DEF r, t
<1>6. CASE ~s.batching
  <2>1. /\ Queued(s.batch) = {} /\ s.batch.taken = {}
        /\ s.interactive.taken = Queued(s.interactive)
        /\ \A u \in Queued(s.interactive) : u = t
        /\ t \in s.interactive.taken
    BY <1>3, <1>6 DEF Consistent, Sound, QueuesSound, Taken
  <2>2. Queued(qi) = {} /\ qi.taken = {}
    BY <1>4, <2>1, FinishTaken DEF qi
  <2>3. r.batch = s.batch
    BY <1>1, <1>6
  <2>4. s.tasks[t].page = s.selected /\ s.tasks[t].project = s.project
    BY <2>1 DEF Consistent, Current
  <2>6. Typed(r) /\ PagesSound(r) /\ PoolSound(r.pool, Tail(ev))
    BY <1>1, <1>2 DEF Consistent, Sound, Typed, PagesSound
  <2>7. QueuesSound(r) /\ BatchSound(r)
    BY <1>1, <1>6, <2>1, <2>2, <2>3 DEF Consistent, Sound, QueuesSound, BatchSound, Held, TasksOf
  <2>9. NoOrphans(r, Tail(ev))
    BY <1>1, <1>2, <2>1, <2>2, <2>3 DEF Consistent, Sound, NoOrphans, Taken
  <2>10. Current(r) /\ NothingOpen(r) /\ Shown(r)
    BY <1>1, <2>2 DEF Consistent, Current, NothingOpen, Shown, TasksOf
  <2>11. Evolves(s, r)
    BY <1>1, <2>1, <2>2, <2>3 DEF Evolves, Held, Taken, TasksOf
  <2>12. Consistent(r, Tail(ev))
    BY <2>6, <2>7, <2>9, <2>10 DEF Consistent, Sound
  <2> QED BY <1>1, <1>3, <1>6, <2>2, <2>4, <2>11, <2>12 DEF r, t
<1> QED BY <1>5, <1>6 DEF Consistent, Sound, Typed
-----------------------------------------------------------------------------
(* The actions: each keeps everything consistent, and only lets tasks      *)
(* evolve.                                                                 *)

Kept == /\ Consistent(app', events')
        /\ Evolves(app, app')

\* The threads of the pool move tasks about, or drop them; nothing else changes.
LEMMA PoolMoves ==
  ASSUME NEW s, NEW ev, Consistent(s, ev), NEW r, NEW ev2,
         DOMAIN r = AppFields,
         r.interactive = s.interactive, r.batch = s.batch,
         r.batching = s.batching, r.tasks = s.tasks,
         r.cancelled = s.cancelled,
         r.project = s.project, r.pages = s.pages,
         r.selected = s.selected, r.stage = s.stage,
         r.shown = s.shown, r.shownTask = s.shownTask,
         PoolSound(r.pool, ev2),
         PoolTasks(r.pool) \cup Range(ev2) \subseteq s.cancelled \cup Taken(s)
  PROVE  Consistent(r, ev2) /\ Evolves(s, r)
<1>1. Typed(r) /\ PagesSound(r)
  BY DEF Consistent, Sound, Typed, PagesSound
<1>2. QueuesSound(r) /\ BatchSound(r)
  BY DEF Consistent, Sound, QueuesSound, BatchSound, Held, TasksOf
<1>3. NoOrphans(r, ev2)
  BY DEF NoOrphans, Taken
<1>4. Current(r) /\ NothingOpen(r)
  BY DEF Consistent, Current, NothingOpen
<1>5. Shown(r)
  BY DEF Consistent, Shown, TasksOf
<1> QED BY <1>1, <1>2, <1>3, <1>4, <1>5, Untouched DEF Consistent, Sound

\* A worker ends its task, with a result or without.
LEMMA WorkerKeeps ==
  ASSUME Inv, NEW t \in app.pool.running, Return(t) \/ RunOutOfMemory(t)
  PROVE  Kept /\ app'.batching = app.batching /\ app'.batch = app.batch
              /\ app'.batchTasks = app.batchTasks
<1>1. app' = Leave(t) /\ events' \in {events, Append(events, t)}
  BY DEF Return, RunOutOfMemory
<1>2. /\ DOMAIN app' = AppFields
      /\ app'.interactive = app.interactive /\ app'.batch = app.batch
      /\ app'.batching = app.batching /\ app'.tasks = app.tasks
      /\ app'.batchTasks = app.batchTasks
      /\ app'.cancelled = app.cancelled
      /\ app'.project = app.project /\ app'.pages = app.pages
      /\ app'.selected = app.selected /\ app'.stage = app.stage
      /\ app'.shown = app.shown /\ app'.shownTask = app.shownTask
      /\ app'.pool = [app.pool EXCEPT !.running = @ \ {t}, !.leaving = @ + 1]
  BY <1>1 DEF Leave, Inv, Consistent, Sound, Typed, AppFields
<1> DEFINE p == app.pool
           p2 == app'.pool
<1>3. PoolSound(p, events)
  BY DEF Inv, Consistent, Sound
<1>4. /\ DOMAIN p2 = {"waiting", "running", "leaving"}
      /\ p2.waiting = p.waiting /\ p2.running = p.running \ {t}
  BY <1>2, <1>3 DEF PoolSound
<1> HIDE DEF p2
<1>5. t \in PoolTasks(p) /\ t \in Nat /\ t \notin Range(events)
  BY <1>3 DEF PoolSound, PoolTasks
<1>6. /\ events' \in Seq(Nat) /\ IsInjective(events')
      /\ Range(events') \subseteq Range(events) \cup {t}
  <2>1. events \in Seq(Nat) /\ IsInjective(events)
    BY <1>3 DEF PoolSound
  <2>2. /\ Append(events, t) \in Seq(Nat) /\ IsInjective(Append(events, t))
        /\ Range(Append(events, t)) = Range(events) \cup {t}
    BY <1>5, <2>1, AppendNew
  <2> QED BY <1>1, <2>1, <2>2
<1> HIDE DEF p
<1>7. t \notin PoolTasks(p2)
  BY <1>3, <1>4, <1>5 DEF PoolSound, PoolTasks, p
<1>8. PoolSound(p2, events')
  BY <1>3, <1>4, <1>6, <1>7 DEF PoolSound, PoolTasks
<1>9. PoolTasks(p2) \cup Range(events') \subseteq PoolTasks(p) \cup Range(events)
  BY <1>4, <1>5, <1>6 DEF PoolTasks
<1>10. PoolTasks(p2) \cup Range(events') \subseteq app.cancelled \cup Taken(app)
  BY <1>9 DEF Inv, Consistent, Sound, NoOrphans, p
<1>11. Consistent(app', events') /\ Evolves(app, app')
  BY <1>2, <1>8, <1>10, PoolMoves DEF Inv, p2
<1> QED BY <1>2, <1>11 DEF Kept

\* A thread takes the next task that waits.
LEMMA NextRunnableKeeps ==
  ASSUME Inv, NextRunnable
  PROVE  Kept /\ app'.batching = app.batching /\ app'.batch = app.batch
              /\ app'.batchTasks = app.batchTasks
<1>1. app' = [app EXCEPT !.pool = AfterLeaving(@)] /\ events' = events
  BY DEF NextRunnable
<1>2. /\ DOMAIN app' = AppFields
      /\ app'.interactive = app.interactive /\ app'.batch = app.batch
      /\ app'.batching = app.batching /\ app'.tasks = app.tasks
      /\ app'.batchTasks = app.batchTasks
      /\ app'.cancelled = app.cancelled
      /\ app'.project = app.project /\ app'.pages = app.pages
      /\ app'.selected = app.selected /\ app'.stage = app.stage
      /\ app'.shown = app.shown /\ app'.shownTask = app.shownTask
      /\ app'.pool = AfterLeaving(app.pool)
  BY <1>1 DEF Inv, Consistent, Sound, Typed, AppFields
<1> DEFINE p == app.pool
           p2 == AfterLeaving(p)
<1>3. PoolSound(p, events)
  BY DEF Inv, Consistent, Sound
<1> HIDE DEF p
<1>4. PoolSound(p2, events) /\ PoolTasks(p2) = PoolTasks(p)
  <2>1. CASE p.waiting = <<>>
    <3>1. /\ DOMAIN p2 = {"waiting", "running", "leaving"}
          /\ p2.waiting = p.waiting /\ p2.running = p.running
      BY <1>3, <2>1 DEF AfterLeaving, PoolSound
    <3> HIDE DEF p2
    <3> QED BY <1>3, <3>1 DEF PoolSound, PoolTasks
  <2>2. CASE p.waiting # <<>>
    <3>1. /\ DOMAIN p2 = {"waiting", "running", "leaving"}
          /\ p2.waiting = Tail(p.waiting)
          /\ p2.running = p.running \cup {Head(p.waiting)}
      BY <2>2 DEF AfterLeaving
    <3>2. /\ Tail(p.waiting) \in Seq(Nat) /\ IsInjective(Tail(p.waiting))
          /\ Head(p.waiting) \in Nat /\ Head(p.waiting) \in Range(p.waiting)
          /\ Range(Tail(p.waiting)) = Range(p.waiting) \ {Head(p.waiting)}
      BY <1>3, <2>2, TailLoses DEF PoolSound
    <3> HIDE DEF p2
    <3> QED BY <1>3, <3>1, <3>2 DEF PoolSound, PoolTasks
  <2> QED BY <2>1, <2>2
<1>5. PoolTasks(app'.pool) \cup Range(events') \subseteq app.cancelled \cup Taken(app)
  BY <1>1, <1>2, <1>4 DEF Inv, Consistent, Sound, NoOrphans, p
<1>6. Consistent(app', events') /\ Evolves(app, app')
  BY <1>1, <1>2, <1>4, <1>5, PoolMoves DEF Inv, p
<1> QED BY <1>2, <1>6 DEF Kept

\* The feeding loop belongs to a batch, and leaves its queue as long as it was.
LEMMA FeedingKeeps ==
  ASSUME Inv, Feed \/ CheckCapacity
  PROVE  Kept /\ app'.batching /\ Queued(app'.batch) = Queued(app.batch)
              /\ app'.batchTasks = app.batchTasks
<1>1. app.batching /\ Consistent(app, events)
  BY DEF Inv, Feeding, Feed, CheckCapacity
<1>2. events' = events
  BY DEF Feed, CheckCapacity
<1>3. CASE HasUntaken(app.batch) /\ app' = SubmitNext(app)
  BY <1>1, <1>2, <1>3, SubmitNextSound DEF Kept
<1>4. CASE app' = EndFeeding(app)
  BY <1>1, <1>2, <1>4, EndFeedingSound DEF Kept
<1>5. CASE app' = app
  BY <1>1, <1>2, <1>5, Untouched DEF Kept
<1> QED BY <1>3, <1>4, <1>5 DEF Feed, CheckCapacity

\* Clicking on a page, whether a batch runs or not.
LEMMA SelectPageKeeps ==
  ASSUME Inv, NEW page \in Pages, NEW ready \in BOOLEAN, SelectPage(page, ready)
  PROVE  Kept /\ ~app'.batching
<1> DEFINE s == [app EXCEPT !.selected = page]
<1>1. /\ Sound(s, events) /\ Evolves(app, s) /\ NothingOpen(s)
      /\ s.batching = app.batching
  BY SelectSound DEF SelectPage, Inv, Consistent, NothingOpen
<1>2. /\ app' = IF s.batching THEN StopBatch(s, ready) ELSE UpdateMainArea(s, ready)
      /\ events' = events
  BY DEF SelectPage, UserActs
<1> HIDE DEF s
<1>3. CASE s.batching
  BY <1>1, <1>2, <1>3, StopBatchSound, EvolvesOn DEF Kept
<1>4. CASE ~s.batching
  BY <1>1, <1>2, <1>4, UpdateConsistent, EvolvesOn DEF Kept
<1> QED BY <1>3, <1>4

\* Loading the page again.
LEMMA ReloadKeeps ==
  ASSUME Inv, NEW ready \in BOOLEAN, Reload(ready)
  PROVE  /\ Kept /\ app'.batching = app.batching
         /\ app.batching => app'.batch = app.batch /\ app'.batchTasks = app.batchTasks
<1>1. /\ app' = UpdateMainArea(app, ready) /\ events' = events
      /\ Sound(app, events) /\ NothingOpen(app)
  BY DEF Reload, UserActs, Inv, Consistent
<1>2. /\ Consistent(app', events) /\ Evolves(app, app')
      /\ app'.batching = app.batching
  BY <1>1, UpdateConsistent
<1>3. app.batching => app'.batch = app.batch /\ app'.batchTasks = app.batchTasks
  BY <1>1, UpdateSound
<1> QED BY <1>1, <1>2, <1>3 DEF Kept

\* Going to another stage.
LEMMA SelectStageKeeps ==
  ASSUME Inv, NEW stage \in Stages, NEW ready \in BOOLEAN, SelectStage(stage, ready)
  PROVE  Kept /\ ~app'.batching
<1> DEFINE c == ClearInteractive(app)
           d == [c EXCEPT !.stage = stage]
<1>1. /\ app' = UpdateMainArea(d, ready) /\ events' = events /\ ~app.batching
  BY DEF SelectStage, UserActs
<1>2. /\ Sound(c, events) /\ Evolves(app, c)
      /\ Queued(c.interactive) = {} /\ ~c.batching
  BY <1>1, ClearInteractiveSound DEF Inv, Consistent
<1> HIDE DEF c
<1>3. /\ DOMAIN d = AppFields
      /\ d.interactive = c.interactive /\ d.batch = c.batch
      /\ d.batching = c.batching /\ d.tasks = c.tasks
      /\ d.cancelled = c.cancelled /\ d.pool = c.pool
      /\ d.project = c.project /\ d.pages = c.pages
      /\ d.selected = c.selected /\ d.stage = stage
  BY <1>2 DEF Sound, Typed, AppFields
<1> HIDE DEF d
<1>4. Sound(d, events)
  BY <1>2, <1>3 DEF Sound, Typed, PagesSound, QueuesSound, BatchSound, NoOrphans,
                    Held, Taken, TasksOf
<1>5. Evolves(app, d) /\ NothingOpen(d) /\ ~d.batching
  BY <1>2, <1>3, Untouched, EvolvesOn DEF NothingOpen
<1> QED BY <1>1, <1>4, <1>5, UpdateConsistent, EvolvesOn DEF Kept

\* Stopping a batch.
LEMMA StopBatchKeeps ==
  ASSUME Inv, NEW ready \in BOOLEAN, StopBatchProcessing(ready)
  PROVE  Kept /\ ~app'.batching
BY StopBatchSound DEF StopBatchProcessing, UserActs, Inv, Consistent, Kept

\* Opening a project, or closing it, also when memory has run out.
LEMMA SwitchKeeps ==
  ASSUME Inv,
         HandleOutOfMemory \/ \E ready \in BOOLEAN, page \in Pages \cup {NoPage} :
                                SwitchToNewProject(page, ready)
  PROVE  Kept /\ ~app'.batching
<1>1. /\ events' = events
      /\ \E ready \in BOOLEAN, page \in Pages \cup {NoPage} :
           app' = SwitchTo(app, page, ready)
  BY DEF HandleOutOfMemory, SwitchToNewProject, UserActs
<1> QED BY <1>1, SwitchSound DEF Inv, Consistent, Kept

\* Quitting.
LEMMA QuitKeeps ==
  ASSUME Inv, Quit
  PROVE  Kept
<1> DEFINE c == ClearInteractive(app)
           d == ClearBatch(c)
<1>1. app' = d /\ events' = events
  BY DEF Quit
<1>2. /\ Sound(c, events) /\ Evolves(app, c)
      /\ Queued(c.interactive) = {}
      /\ c.tasks = app.tasks /\ c.project = app.project
      /\ c.selected = app.selected
      /\ c.shown = app.shown /\ c.shownTask = app.shownTask
  BY ClearInteractiveSound DEF Inv, Consistent
<1> HIDE DEF c
<1>3. /\ Sound(d, events) /\ Evolves(c, d)
      /\ d.interactive = c.interactive
      /\ d.tasks = c.tasks /\ d.project = c.project
      /\ d.selected = c.selected
      /\ d.shown = c.shown /\ d.shownTask = c.shownTask
  BY <1>2, ClearBatchSound
<1> HIDE DEF d
<1>4. Current(d) /\ NothingOpen(d)
  BY <1>2, <1>3 DEF Current, NothingOpen
<1>5. Shown(d)
  BY <1>2, <1>3 DEF Inv, Consistent, Shown, TasksOf
<1> QED BY <1>1, <1>2, <1>3, <1>4, <1>5, EvolvesOn DEF Kept, Consistent

\* Starting a batch.
LEMMA StartBatchKeeps ==
  ASSUME Inv, StartBatchProcessing
  PROVE  /\ Kept /\ app'.batching
         /\ Queued(app'.batch) = app'.batchTasks
         /\ app'.batchTasks \cap TasksOf(app) = {}
BY StartBatchSound DEF StartBatchProcessing, UserActs, Inv, Kept

\* Removing a page.  If it is the selected one, its task is cancelled with it;
\* if it is the last page, nothing is left to do.
LEMMA RemoveKeeps ==
  ASSUME Inv, NEW page \in Pages, NEW ready \in BOOLEAN,
         RemoveFromProject(page, ready)
  PROVE  Kept /\ ~app'.batching
<1> DEFINE at == CHOOSE k \in DOMAIN app.pages : app.pages[k] = page
           pages == RemoveAt(app.pages, at)
           gone == CancelledByRemove(app.interactive, {page})
           q == CancelAndRemove(app.interactive, {page})
           s == [app EXCEPT !.cancelled = @ \cup gone, !.interactive = q,
                            !.pages = pages]
           next == IF s.pages = <<>> THEN NoPage
                   ELSE IF at = 1 THEN Head(s.pages) ELSE app.pages[at - 1]
           d == [s EXCEPT !.selected = next]
<1>1. /\ app' = UpdateMainArea(d, ready) /\ events' = events /\ ~app.batching
      /\ page \in Range(app.pages)
  BY DEF RemoveFromProject, UserActs
<1>2. at \in DOMAIN app.pages /\ app.pages[at] = page
  BY <1>1 DEF Range
<1>3. /\ app.pages \in Seq(Pages) /\ IsInjective(app.pages)
      /\ Len(app.pages) \in Nat /\ DOMAIN app.pages = 1..Len(app.pages)
      /\ app.selected \in Range(app.pages)
  BY <1>1, LenProperties, EmptySeq DEF Inv, Consistent, Sound, PagesSound, Range
<1> HIDE DEF at
<1>4. /\ pages \in Seq(Pages) /\ IsInjective(pages)
      /\ Range(pages) = Range(app.pages) \ {page}
  BY <1>2, <1>3, RemoveOne, RemoveOneLoses DEF RemoveAt
<1>5. /\ Queued(q) = Queued(app.interactive) \ TasksFor(app.interactive, {page})
      /\ q.taken = app.interactive.taken \ TasksFor(app.interactive, {page})
      /\ gone = app.interactive.taken \cap TasksFor(app.interactive, {page})
      /\ TasksFor(app.interactive, {page})
           = {t \in Queued(app.interactive) : app.interactive.entries[t] = page}
  BY DEF CancelAndRemove, CancelledByRemove, TasksFor, KeepOnly, Queued
<1> HIDE DEF pages, gone, q
<1>6. /\ DOMAIN s = AppFields /\ s.pages = pages
      /\ s.interactive = q /\ s.batch = app.batch
      /\ s.batching = app.batching /\ s.tasks = app.tasks
      /\ s.cancelled = app.cancelled \cup gone /\ s.pool = app.pool
      /\ s.project = app.project /\ s.stage = app.stage
  BY DEF Inv, Consistent, Sound, Typed, AppFields
<1> HIDE DEF s
<1>7. /\ DOMAIN d = AppFields /\ d.pages = pages
      /\ d.interactive = q /\ d.batch = app.batch
      /\ d.batching = app.batching /\ d.tasks = app.tasks
      /\ d.cancelled = app.cancelled \cup gone /\ d.pool = app.pool
      /\ d.project = app.project /\ d.stage = app.stage
      /\ d.selected = next
  BY <1>6 DEF AppFields
<1>8. /\ next \in Pages \cup {NoPage}
      /\ pages # <<>> => next \in Range(pages)
  <2>1. CASE pages = <<>>
    BY <1>6, <2>1
  <2>2. CASE pages # <<>> /\ at = 1
    <3>1. Head(pages) \in Pages /\ Head(pages) \in Range(pages)
      BY <1>4, <2>2, TailLoses
    <3> QED BY <1>6, <2>2, <3>1
  <2>3. CASE pages # <<>> /\ at # 1
    <3>1. at - 1 \in DOMAIN app.pages /\ at - 1 # at
      BY <1>2, <1>3, <2>3
    <3>2. app.pages[at - 1] # page
      BY <1>2, <1>3, <3>1 DEF IsInjective
    <3>3. app.pages[at - 1] \in Range(app.pages) /\ app.pages[at - 1] \in Pages
      BY <1>3, <3>1, ElementOfSeq DEF Range
    <3> QED BY <1>4, <1>6, <2>3, <3>2, <3>3
  <2> QED BY <2>1, <2>2, <2>3
<1> HIDE DEF next, d
<1>9. Typed(d) /\ PagesSound(d) /\ BatchSound(d) /\ PoolSound(d.pool, events)
  BY <1>1, <1>4, <1>7, <1>8 DEF Inv, Consistent, Sound, Typed, PagesSound, BatchSound
<1>10. QueuesSound(d)
  BY <1>1, <1>5, <1>7 DEF Inv, Consistent, Sound, QueuesSound, Held, TasksOf
<1>11. NoOrphans(d, events)
  BY <1>5, <1>7 DEF Inv, Consistent, Sound, NoOrphans, QueuesSound, Taken
<1>12. NothingOpen(d)
  <2> SUFFICES ASSUME pages = <<>> PROVE Queued(q) = {}
    BY <1>7 DEF NothingOpen
  <2>1. Range(pages) = {}
    BY DEF Range
  <2>2. app.selected = page
    BY <1>3, <1>4, <2>1
  <2> QED BY <1>5, <2>2 DEF Inv, Consistent, Current
<1>13. Evolves(app, d)
  BY <1>1, <1>5, <1>7 DEF Inv, Consistent, Sound, QueuesSound, Evolves, Held, Taken, TasksOf
<1>14. Sound(d, events) /\ ~d.batching
  BY <1>1, <1>7, <1>9, <1>10, <1>11 DEF Sound
<1> QED BY <1>1, <1>12, <1>13, <1>14, UpdateConsistent, EvolvesOn DEF Kept

\* A result.  If its task was cancelled, it changes nothing.  Else it is that of
\* a task handed out, of the batch or of the page being edited.
LEMMA FilterResultKeeps ==
  ASSUME Inv, NEW ready \in BOOLEAN, NEW stage \in Stages, FilterResult(ready, stage)
  PROVE  LET t == Head(events)
         IN /\ Kept
            /\ \/ /\ applied' = applied
                  /\ app'.batching = app.batching /\ app'.batch = app.batch
                  /\ app'.batchTasks = app.batchTasks /\ gui' = gui
               \/ /\ applied' = applied \cup {t}
                  /\ t \in TasksOf(app) /\ t \in Taken(app) /\ t \notin app.cancelled
                  /\ app'.batching =>
                       /\ app.batching
                       /\ Queued(app'.batch) = Queued(app.batch) \ {t}
                       /\ app'.batchTasks = app.batchTasks
                  /\ gui' \in {"feeding", "checking"} => app'.batching
<1> DEFINE t == Head(events)
           f == Finished(app, t)
           s == Show(f, t, stage)
<1>1. /\ events # <<>> /\ events' = Tail(events) /\ gui = "idle"
      /\ Consistent(app, events)
  BY DEF FilterResult, Inv
<1>2. CASE t \in app.cancelled
  <2>1. app' = f /\ UNCHANGED <<gui, applied>>
    BY <1>2 DEF FilterResult, Ignored
  <2>2. /\ DOMAIN f = AppFields
        /\ f.interactive = app.interactive /\ f.batch = app.batch
        /\ f.batching = app.batching /\ f.tasks = app.tasks
        /\ f.batchTasks = app.batchTasks
        /\ f.cancelled = app.cancelled /\ f.pool = app.pool
        /\ f.project = app.project /\ f.pages = app.pages
        /\ f.selected = app.selected /\ f.stage = app.stage
        /\ f.shown = app.shown /\ f.shownTask = app.shownTask
    BY <1>1, <1>2, FinishedCancelled
  <2> HIDE DEF f
  <2>3. /\ PoolSound(app.pool, Tail(events))
        /\ PoolTasks(app.pool) \cup Range(Tail(events))
             = (PoolTasks(app.pool) \cup Range(events)) \ {t}
    BY <1>1, Delivered DEF Consistent, Sound
  <2>4. PoolTasks(f.pool) \cup Range(Tail(events)) \subseteq app.cancelled \cup Taken(app)
    BY <1>1, <2>2, <2>3 DEF Consistent, Sound, NoOrphans
  <2>5. PoolSound(f.pool, Tail(events))
    BY <2>2, <2>3
  <2>6. Consistent(f, Tail(events)) /\ Evolves(app, f)
    BY <1>1, <2>2, <2>4, <2>5, PoolMoves
  <2> QED BY <1>1, <2>1, <2>2, <2>6 DEF Kept
<1>3. CASE t \notin app.cancelled
  <2>1. /\ Consistent(f, Tail(events)) /\ Evolves(app, f)
        /\ t \in TasksOf(app) /\ t \in Taken(app)
        /\ f.batching = app.batching /\ f.batchTasks = app.batchTasks
        /\ f.pages = app.pages /\ f.tasks = app.tasks
        /\ f.project = app.project /\ f.selected = app.selected
        /\ Queued(f.interactive) = {}
        /\ app.batching => Queued(f.batch) = Queued(app.batch) \ {t}
        /\ ~app.batching => app.tasks[t].page = app.selected
                            /\ app.tasks[t].project = app.project
    BY <1>1, <1>3, FinishedLive
  <2>2. /\ applied' = applied \cup {t}
        /\ IF s.batching /\ ~AllProcessed(s.batch)
           THEN app' = s /\ gui' = "feeding"
           ELSE /\ app' = IF s.batching THEN WrapAround(StopBatch(s, ready), ready)
                          ELSE s
                /\ UNCHANGED gui
    BY <1>2, <1>3 DEF FilterResult, Ignored
  <2> HIDE DEF f, t
  <2>3. CASE app.batching
    <3>1. s = f
      BY <2>1, <2>3 DEF Show
    <3>2. CASE ~AllProcessed(f.batch)
      <4>1. app' = f /\ gui' = "feeding"
        BY <2>1, <2>2, <2>3, <3>1, <3>2
      <4> QED BY <1>1, <1>3, <2>1, <2>2, <2>3, <4>1 DEF Kept, t
    <3>3. CASE AllProcessed(f.batch)
      <4> DEFINE c == StopBatch(f, ready)
      <4>1. app' = WrapAround(c, ready) /\ gui' = "idle"
        BY <1>1, <2>1, <2>2, <2>3, <3>1, <3>3
      <4>2. /\ Consistent(c, Tail(events)) /\ Evolves(f, c)
            /\ ~c.batching /\ c.pages = f.pages
        BY <2>1, <2>3, StopBatchSound DEF Consistent
      <4>3. c.pages # <<>>
        BY <2>1, <2>3, <4>2 DEF Consistent, Sound, PagesSound
      <4> HIDE DEF c
      <4>4. Consistent(app', Tail(events)) /\ Evolves(c, app') /\ ~app'.batching
        BY <4>1, <4>2, <4>3, WrapAroundSound
      <4>5. Evolves(app, app')
        BY <2>1, <4>2, <4>4, EvolvesOn
      <4> QED BY <1>1, <1>3, <2>1, <2>2, <4>1, <4>4, <4>5 DEF Kept, t
    <3> QED BY <3>2, <3>3
  <2>4. CASE ~app.batching
    <3>1. s = [f EXCEPT !.shown = "image", !.shownTask = t, !.stage = stage]
      BY <2>1, <2>4 DEF Show
    <3>2. /\ DOMAIN s = AppFields
          /\ s.interactive = f.interactive /\ s.batch = f.batch
          /\ s.batching = f.batching /\ s.tasks = f.tasks
          /\ s.cancelled = f.cancelled /\ s.pool = f.pool
          /\ s.project = f.project /\ s.pages = f.pages
          /\ s.selected = f.selected /\ s.stage = stage
          /\ s.shown = "image" /\ s.shownTask = t
      BY <2>1, <3>1 DEF Consistent, Sound, Typed, AppFields
    <3> HIDE DEF s
    <3>3. ~s.batching
      BY <2>1, <2>4, <3>2
    <3>4. app' = s /\ gui' = "idle"
      BY <1>1, <2>2, <3>3
    <3>5. Sound(s, Tail(events))
      BY <2>1, <3>2 DEF Consistent, Sound, Typed, PagesSound, QueuesSound, BatchSound,
                        NoOrphans, Held, Taken, TasksOf
    <3>6. Current(s) /\ NothingOpen(s)
      BY <2>1, <3>2 DEF Current, NothingOpen
    <3>7. Shown(s)
      BY <2>1, <2>4, <3>2 DEF Shown, TasksOf
    <3>8. Evolves(app, s)
      BY <2>1, <3>2, Untouched, EvolvesOn
    <3> QED BY <1>1, <1>3, <2>1, <2>2, <3>3, <3>4, <3>5, <3>6, <3>7, <3>8 DEF Kept, Consistent, t
  <2> QED BY <2>3, <2>4
<1> QED BY <1>2, <1>3
-----------------------------------------------------------------------------
(* The invariant.                                                          *)

\* The first project is opened with empty queues, an empty pool and no task but
\* the one to load its first page.
LEMMA InitInv ==
  Init => Inv /\ \A t \in TasksOf(app) : StatusOf(t) \in {"waiting", "processing"}
<1> SUFFICES ASSUME Init
             PROVE  Inv /\ \A t \in TasksOf(app) : StatusOf(t) \in {"waiting", "processing"}
  OBVIOUS
<1> DEFINE s == [interactive |-> EmptyQueue, batch |-> EmptyQueue,
                 batching |-> FALSE, batchTasks |-> {},
                 tasks |-> <<>>, cancelled |-> {}, pool |-> EmptyPool,
                 project |-> 1, pages |-> PageOrder, selected |-> Head(PageOrder),
                 stage |-> 1, shown |-> "nothing", shownTask |-> NoTask]
<1>1. app = UpdateMainArea(s, TRUE) /\ gui = "idle" /\ events = <<>> /\ applied = {}
  BY DEF Init
<1>2. /\ DOMAIN s = AppFields
      /\ s.interactive = EmptyQueue /\ s.batch = EmptyQueue
      /\ s.batching = FALSE /\ s.tasks = <<>> /\ s.cancelled = {}
      /\ s.pool = EmptyPool /\ s.project = 1 /\ s.pages = PageOrder
      /\ s.selected = Head(PageOrder) /\ s.stage = 1
  BY DEF AppFields
<1> HIDE DEF s
<1>3. Queued(EmptyQueue) = {} /\ EmptyQueue.taken = {}
  BY DEF EmptyQueue, Queued
<1>4. Head(PageOrder) \in Pages /\ Head(PageOrder) \in Range(PageOrder)
  BY TailLoses, BatchAssumption
<1>5. Typed(s) /\ PagesSound(s) /\ BatchSound(s)
  BY <1>2, <1>4, BatchAssumption, EmptySeq DEF Typed, PagesSound, BatchSound
<1>6. QueuesSound(s)
  BY <1>2, <1>3 DEF QueuesSound, Held
<1>7. /\ PoolSound(EmptyPool, <<>>)
      /\ PoolTasks(EmptyPool) \cup Range(<<>>) = {}
  BY EmptySeq DEF PoolSound, PoolTasks, EmptyPool, IsInjective, Range
<1>8. Sound(s, events) /\ NothingOpen(s) /\ ~s.batching
  BY <1>1, <1>2, <1>3, <1>5, <1>6, <1>7 DEF Sound, NoOrphans, NothingOpen
<1>9. Consistent(app, events) /\ ~app.batching
  BY <1>1, <1>8, UpdateConsistent
<1>10. Inv
  BY <1>1, <1>9 DEF Inv, Feeding, BatchConserved
<1>11. TasksOf(s) = {}
  BY <1>2, EmptySeq DEF TasksOf
<1>12. TasksOf(app) \subseteq Held(app)
  BY <1>1, <1>8, <1>11, UpdateSound
<1>13. \A t \in TasksOf(app) : StatusOf(t) \in {"waiting", "processing"}
  BY <1>1, <1>9, <1>12 DEF StatusOf, Consistent, Sound, QueuesSound, Held
<1> QED BY <1>10, <1>13

\* The tasks whose result a step applies were handed out, and not cancelled.
AppliesWanted ==
  \/ applied' = applied
  \/ \E t \in TasksOf(app) \cap Taken(app) :
       /\ t \notin app.cancelled
       /\ applied' = applied \cup {t}

\* What a step of the program does to the tasks.
LEMMA StepKeeps == Inv /\ [Next]_vars => Inv' /\ Evolves(app, app') /\ AppliesWanted
<1> SUFFICES ASSUME Inv, [Next]_vars PROVE Inv' /\ Evolves(app, app') /\ AppliesWanted
  OBVIOUS
<1> USE DEF AppliesWanted
<1>1. ASSUME Kept, applied \subseteq applied', applied' \subseteq applied \cup TasksOf(app),
             Feeding', BatchConserved', AppliesWanted
      PROVE  Inv' /\ Evolves(app, app') /\ AppliesWanted
  <2>1. applied' \subseteq TasksOf(app')
    BY <1>1 DEF Inv, Kept, Evolves
  <2> QED BY <1>1, <2>1 DEF Inv, Kept, TasksOf
<1>2. ASSUME NEW ready \in BOOLEAN, NEW page \in Pages, SelectPage(page, ready)
      PROVE  Inv' /\ Evolves(app, app') /\ AppliesWanted
  <2>1. UNCHANGED <<gui, applied>> /\ gui = "idle"
    BY <1>2 DEF SelectPage, UserActs
  <2> QED BY <1>1, <1>2, <2>1, SelectPageKeeps DEF Feeding, BatchConserved
<1>3. ASSUME NEW ready \in BOOLEAN, NEW page \in Pages, RemoveFromProject(page, ready)
      PROVE  Inv' /\ Evolves(app, app') /\ AppliesWanted
  <2>1. UNCHANGED <<gui, applied>> /\ gui = "idle"
    BY <1>3 DEF RemoveFromProject, UserActs
  <2> QED BY <1>1, <1>3, <2>1, RemoveKeeps DEF Feeding, BatchConserved
<1>4. ASSUME HandleOutOfMemory \/ \E ready \in BOOLEAN, page \in Pages \cup {NoPage} :
                                    SwitchToNewProject(page, ready)
      PROVE  Inv' /\ Evolves(app, app') /\ AppliesWanted
  <2>1. UNCHANGED applied /\ gui' \in {"idle", "closing"}
    BY <1>4 DEF HandleOutOfMemory, SwitchToNewProject, UserActs
  <2> QED BY <1>1, <1>4, <2>1, SwitchKeeps DEF Feeding, BatchConserved
<1>5. ASSUME NEW ready \in BOOLEAN, NEW stage \in Stages, SelectStage(stage, ready)
      PROVE  Inv' /\ Evolves(app, app') /\ AppliesWanted
  <2>1. UNCHANGED <<gui, applied>> /\ gui = "idle"
    BY <1>5 DEF SelectStage, UserActs
  <2> QED BY <1>1, <1>5, <2>1, SelectStageKeeps DEF Feeding, BatchConserved
<1>6. ASSUME NEW ready \in BOOLEAN, Reload(ready)
      PROVE  Inv' /\ Evolves(app, app') /\ AppliesWanted
  <2>1. UNCHANGED <<gui, applied>> /\ gui = "idle"
    BY <1>6 DEF Reload, UserActs
  <2>2. BatchConserved'
    BY <1>6, <2>1, ReloadKeeps DEF BatchConserved, Inv
  <2> QED BY <1>1, <1>6, <2>1, <2>2, ReloadKeeps DEF Feeding
<1>7. ASSUME NEW ready \in BOOLEAN, StopBatchProcessing(ready)
      PROVE  Inv' /\ Evolves(app, app') /\ AppliesWanted
  <2>1. UNCHANGED <<gui, applied>> /\ gui = "idle"
    BY <1>7 DEF StopBatchProcessing, UserActs
  <2> QED BY <1>1, <1>7, <2>1, StopBatchKeeps DEF Feeding, BatchConserved
<1>8. ASSUME StartBatchProcessing
      PROVE  Inv' /\ Evolves(app, app') /\ AppliesWanted
  <2>1. UNCHANGED applied /\ gui' = "feeding"
    BY <1>8 DEF StartBatchProcessing, UserActs
  <2>2. app'.batchTasks \cap applied = {}
    BY <1>8, StartBatchKeeps DEF Inv
  <2> QED BY <1>1, <1>8, <2>1, <2>2, StartBatchKeeps DEF Feeding, BatchConserved
<1>9. ASSUME Quit
      PROVE  Inv' /\ Evolves(app, app') /\ AppliesWanted
  <2>1. UNCHANGED applied /\ gui' = "closing"
    BY <1>9 DEF Quit
  <2> QED BY <1>1, <1>9, <2>1, QuitKeeps DEF Feeding, BatchConserved
<1>10. ASSUME NEW ready \in BOOLEAN, NEW stage \in Stages, FilterResult(ready, stage)
       PROVE  Inv' /\ Evolves(app, app') /\ AppliesWanted
  <2> DEFINE t == Head(events)
  <2>1. gui = "idle" /\ gui' # "closing"
    BY <1>10 DEF FilterResult
  <2>2. /\ Kept
        /\ \/ /\ applied' = applied
              /\ app'.batching = app.batching /\ app'.batch = app.batch
              /\ app'.batchTasks = app.batchTasks /\ gui' = gui
           \/ /\ applied' = applied \cup {t}
              /\ t \in TasksOf(app) /\ t \in Taken(app) /\ t \notin app.cancelled
              /\ app'.batching =>
                   /\ app.batching
                   /\ Queued(app'.batch) = Queued(app.batch) \ {t}
                   /\ app'.batchTasks = app.batchTasks
              /\ gui' \in {"feeding", "checking"} => app'.batching
    BY <1>10, FilterResultKeeps
  <2> HIDE DEF t
  <2>3. Feeding'
    BY <2>1, <2>2 DEF Feeding, Inv
  <2>4. BatchConserved'
    BY <2>1, <2>2 DEF BatchConserved, Inv
  <2>5. AppliesWanted /\ applied \subseteq applied' /\ applied' \subseteq applied \cup TasksOf(app)
    BY <2>2
  <2> QED BY <1>1, <2>2, <2>3, <2>4, <2>5
<1>11. ASSUME Feed \/ CheckCapacity
       PROVE  Inv' /\ Evolves(app, app') /\ AppliesWanted
  <2>1. UNCHANGED applied /\ gui # "closing"
    BY <1>11 DEF Feed, CheckCapacity
  <2>2. BatchConserved'
    BY <1>11, <2>1, FeedingKeeps DEF BatchConserved, Inv, Feeding, Feed, CheckCapacity
  <2> QED BY <1>1, <1>11, <2>1, <2>2, FeedingKeeps DEF Feeding
<1>12. ASSUME NEW t \in app.pool.running, Return(t) \/ RunOutOfMemory(t)
       PROVE  Inv' /\ Evolves(app, app') /\ AppliesWanted
  <2>1. UNCHANGED <<gui, applied>>
    BY <1>12 DEF Return, RunOutOfMemory
  <2>2. Feeding' /\ BatchConserved'
    BY <1>12, <2>1, WorkerKeeps DEF Inv, Feeding, BatchConserved
  <2> QED BY <1>1, <1>12, <2>1, <2>2, WorkerKeeps
<1>13. ASSUME NextRunnable
       PROVE  Inv' /\ Evolves(app, app') /\ AppliesWanted
  <2>1. UNCHANGED <<gui, applied>>
    BY <1>13 DEF NextRunnable
  <2>2. Feeding' /\ BatchConserved'
    BY <1>13, <2>1, NextRunnableKeeps DEF Inv, Feeding, BatchConserved
  <2> QED BY <1>1, <1>13, <2>1, <2>2, NextRunnableKeeps
<1>14. ASSUME Destroyed \/ UNCHANGED vars
       PROVE  Inv' /\ Evolves(app, app') /\ AppliesWanted
  <2>1. app' = app /\ events' = events /\ gui' = gui /\ applied' = applied
    BY <1>14 DEF Destroyed, vars
  <2>2. Evolves(app, app')
    BY <2>1, Untouched
  <2> QED BY <2>1, <2>2 DEF Inv, Consistent, Feeding, BatchConserved, TasksOf
<1> QED
  BY <1>2, <1>3, <1>4, <1>5, <1>6, <1>7, <1>8, <1>9, <1>10, <1>11, <1>12, <1>13, <1>14
  DEF Next, User, GuiThread

\* The invariant of the main window, its pool and the posted events: on it rest
\* all the theorems below.
THEOREM AlwaysConsistent == Spec => []Inv
BY InitInv, StepKeeps, PTL DEF Spec

\* The invariant is about the queues as a whole; of a task in flight it says:
LEMMA LiveIsCurrent == Inv => OnlyCurrentWork
<1> SUFFICES ASSUME Inv, NEW t \in Live
             PROVE  LET task == app.tasks[t]
                    IN /\ task.project = app.project
                       /\ task.inBatch = app.batching
                       /\ IF app.batching THEN t \in app.batch.taken
                          ELSE /\ t \in app.interactive.taken
                               /\ task.page = app.selected
                               /\ task.stage = app.stage
  BY DEF OnlyCurrentWork
<1>1. t \in Taken(app)
  BY DEF Live, InFlight, InPool, PoolTasks, Inv, Consistent, Sound, NoOrphans
<1>2. app.batching \in BOOLEAN
  BY DEF Inv, Consistent, Sound, Typed
<1>3. CASE app.batching
  <2>1. t \in app.batch.taken /\ t \in Queued(app.batch)
    BY <1>1, <1>3 DEF Inv, Consistent, Sound, QueuesSound, Taken
  <2>2. t \in TasksOf(app) /\ app.tasks[t] \in Task
    BY <2>1, ElementOfSeq, LenProperties
    DEF Inv, Consistent, Sound, Typed, QueuesSound, Held, TasksOf
  <2>3. app.tasks[t].inBatch \in BOOLEAN
    BY <2>2 DEF Task
  <2> QED BY <1>2, <1>3, <2>1, <2>3 DEF Inv, Consistent, Sound, BatchSound
<1>4. CASE ~app.batching
  <2>1. t \in app.interactive.taken /\ t \in Queued(app.interactive)
    BY <1>1, <1>4 DEF Inv, Consistent, Sound, QueuesSound, Taken
  <2>2. app.tasks[t] = [page |-> app.selected, project |-> app.project,
                        stage |-> app.stage, inBatch |-> FALSE]
    BY <2>1 DEF Inv, Consistent, Current
  <2>3. /\ app.tasks[t].project = app.project /\ app.tasks[t].page = app.selected
        /\ app.tasks[t].stage = app.stage /\ app.tasks[t].inBatch = FALSE
    BY <2>2
  <2>4. app.batching = FALSE
    BY <1>2, <1>4
  <2> QED BY <1>4, <2>1, <2>3, <2>4
<1> QED BY <1>3, <1>4

\* Whatever a worker may still bring back without being cancelled is wanted
\* (MainWindow::filterResult() does not ask): a page of the batch in progress,
\* or the one page being edited, at the current stage, of the open project.
THEOREM OnlyCurrentWorkComesBack == Spec => []OnlyCurrentWork
BY AlwaysConsistent, LiveIsCurrent, PTL

\* The image in the main area is that of the selected page of the open project,
\* in whatever order results come and pages are selected or removed.
THEOREM ShownPageIsSelected == Spec => []ShownIsSelected
<1>1. Inv => ShownIsSelected
  BY DEF Inv, Consistent, Shown, ShownIsSelected
<1> QED BY <1>1, AlwaysConsistent, PTL

\* A batch loses no page, and applies no result twice.
THEOREM BatchIsConserved == Spec => []BatchConserved
<1>1. Inv => BatchConserved
  BY DEF Inv
<1> QED BY <1>1, AlwaysConsistent, PTL
-----------------------------------------------------------------------------
(* The life cycle of tasks.                                                *)

\* A task that evolves, and whose result is not applied, goes the way of the
\* life cycle: it waits, is processed, or is abandoned for good.
LEMMA StatusEvolves ==
  ASSUME Inv, Evolves(app, app'),
         NEW t \in TasksOf(app), t \in applied' <=> t \in applied
  PROVE  StatusOf(t)' \in Lifecycle!Allowed[StatusOf(t)]
<1>1. /\ app.cancelled \subseteq app'.cancelled
      /\ t \in Held(app') => t \in Held(app)
      /\ t \in Held(app') /\ t \in Taken(app) => t \in Taken(app')
  BY DEF Evolves
<1>2. StatusOf(t) = IF t \in applied THEN "done"
                    ELSE IF t \in app.cancelled \/ t \notin Held(app) THEN "abandoned"
                    ELSE IF t \in Taken(app) THEN "processing" ELSE "waiting"
  BY DEF StatusOf, Held, Taken
<1>3. StatusOf(t)' = IF t \in applied' THEN "done"
                     ELSE IF t \in app'.cancelled \/ t \notin Held(app') THEN "abandoned"
                     ELSE IF t \in Taken(app') THEN "processing" ELSE "waiting"
  BY DEF StatusOf, Held, Taken
<1> QED BY <1>1, <1>2, <1>3 DEF Lifecycle!Allowed, Lifecycle!Pending

\* The only task whose result a step applies was being processed.
LEMMA WantedIsProcessing ==
  ASSUME Inv, NEW t \in TasksOf(app) \cap Taken(app), t \notin app.cancelled
  PROVE  StatusOf(t) \in {"processing", "done"}
<1>1. t \in Held(app)
  BY DEF Inv, Consistent, Sound, QueuesSound, Held, Taken
<1> QED BY <1>1 DEF StatusOf, Held, Taken

\* Every step moves the tasks on as the life cycle allows, and applies the
\* result of one of them at most.
LEMMA StepAdvances ==
  ASSUME Inv, Evolves(app, app'), AppliesWanted
  PROVE  Lifecycle!Advance
<1> DEFINE done(t) == t \in applied
<1>1. /\ TasksOf(app) \subseteq TasksOf(app')
      /\ applied \subseteq TasksOf(app) /\ applied' \subseteq TasksOf(app)
  BY DEF Evolves, AppliesWanted, Inv
<1>2. \A t \in applied : StatusOf(t) = "done"
  BY DEF StatusOf
<1>3. \A t \in applied' : StatusOf(t)' = "done"
  BY DEF StatusOf
<1>4. \A t : t \notin applied' => StatusOf(t)' # "done"
  BY DEF StatusOf
<1>5. ASSUME NEW t \in TasksOf(app)
      PROVE  StatusOf(t)' \in Lifecycle!Allowed[StatusOf(t)]
  <2>1. CASE t \in applied' <=> t \in applied
    BY <2>1, StatusEvolves
  <2>2. CASE ~(t \in applied' <=> t \in applied)
    <3>1. t \in Taken(app) /\ t \notin app.cancelled /\ t \in applied'
      BY <2>2 DEF AppliesWanted
    <3>2. StatusOf(t) \in {"processing", "done"} /\ StatusOf(t)' = "done"
      BY <1>3, <3>1, WantedIsProcessing
    <3> QED BY <3>2 DEF Lifecycle!Allowed
  <2> QED BY <2>1, <2>2
<1>6. ASSUME NEW t \in TasksOf(app') \ TasksOf(app) PROVE StatusOf(t)' # "done"
  BY <1>1, <1>4
<1>7. ASSUME NEW t \in TasksOf(app), StatusOf(t) # "done", StatusOf(t)' = "done",
             NEW u \in TasksOf(app), StatusOf(u) # "done", StatusOf(u)' = "done"
      PROVE  t = u
  <2>1. t \in applied' \ applied /\ u \in applied' \ applied
    BY <1>2, <1>4, <1>7
  <2> QED BY <2>1 DEF AppliesWanted
<1> QED BY <1>1, <1>5, <1>6, <1>7
        DEF Lifecycle!Advance, Lifecycle!Completed, TasksOf

\* The main window, its two queues, the pool and the posted results together
\* implement the life cycle of tasks: what was abandoned is never applied, however
\* late its result comes, and nothing is applied twice, or before it was handed out.
THEOREM BatchImplementsLifecycle == Spec => ImplementsLifecycle
<1>1. Init => Lifecycle!Init
  BY InitInv DEF Lifecycle!Init, Lifecycle!Pending, TasksOf
<1>2. Inv /\ [Next]_vars =>
        Inv' /\ [Lifecycle!Advance]_([t \in DOMAIN app.tasks |-> StatusOf(t)])
  BY StepKeeps, StepAdvances
<1> QED BY <1>1, <1>2, InitInv, PTL DEF Spec, ImplementsLifecycle, Lifecycle!Spec
=============================================================================
