--------------------- MODULE ProcessingTaskQueueProofs ---------------------
(***************************************************************************)
(* Proofs about the task queue, for any set of pages and any number of     *)
(* tasks.                                                                  *)
(***************************************************************************)
EXTENDS ProcessingTaskQueue, Functions, SequenceTheorems, FiniteSetTheorems,
        WellFoundedInduction, TLAPS

-----------------------------------------------------------------------------
(* Sequences, sets and numbers.                                            *)

\* A non-empty set of natural numbers has a least element.
LEMMA LeastNatural ==
  ASSUME NEW S \in SUBSET Nat, S # {}
  PROVE  \E t \in S : \A u \in S : t <= u
<1> DEFINE R == {ss \in Nat \X Nat : ss[1] < ss[2]}
<1>1. IsWellFoundedOn(R, Nat)
  BY NatLessThanWellFounded DEF OpToRel
<1>2. \E t \in S : \A u \in S : ~ (<<u, t>> \in R)
  <2> HIDE DEF R
  <2> QED BY <1>1, WFMin
<1>3. PICK t \in S : \A u \in S : ~ (<<u, t>> \in R)
  BY <1>2
<1>4. ASSUME NEW u \in S PROVE t <= u
  <2>1. u \in Nat /\ t \in Nat
    OBVIOUS
  <2>2. <<u, t>> \in Nat \X Nat /\ <<u, t>>[1] = u /\ <<u, t>>[2] = t
    BY <2>1
  <2>3. ~ (u < t)
    BY <1>3, <2>2
  <2> QED BY <2>1, <2>3
<1> QED
  BY <1>4
-----------------------------------------------------------------------------

\* The front of a non-empty queue exists: First() picks the least number.
LEMMA FirstIsLeast ==
  ASSUME NEW S \in SUBSET Nat, S # {}
  PROVE  First(S) \in S /\ \A u \in S : First(S) <= u
BY LeastNatural DEF First

-----------------------------------------------------------------------------
(* Type correctness.                                                       *)

\* A queue value is of the right type as soon as its fields are.
LEMMA QueueFields ==
  ASSUME NEW q \in QueueType
  PROVE  /\ Queued(q) \subseteq 1..MaxTasks
         /\ q.entries \in [Queued(q) -> Pages]
         /\ q.taken \subseteq 1..MaxTasks
         /\ q.selectedPage \in Pages \cup {NoPage}
         /\ q.pageToSelectWhenDone \in Pages \cup {NoPage}
  BY DEF QueueType, Queued

\* A record made of well-typed fields is a queue, and has those fields.
LEMMA MakeQueue ==
  ASSUME NEW S \in SUBSET (1..MaxTasks), NEW e \in [S -> Pages],
         NEW tk \in SUBSET (1..MaxTasks),
         NEW sel \in Pages \cup {NoPage}, NEW done \in Pages \cup {NoPage}
  PROVE  [entries |-> e, taken |-> tk, selectedPage |-> sel,
          pageToSelectWhenDone |-> done] \in QueueType
  BY DEF QueueType

\* The effect of each operation on the fields of a queue.
LEMMA AddFields ==
  ASSUME NEW q \in QueueType, NEW page \in Pages, NEW t \in 1..MaxTasks
  PROVE  LET r == AddProcessingTask(q, page, t)
         IN /\ r \in QueueType
            /\ Queued(r) = Queued(q) \cup {t}
            /\ r.entries[t] = page
            /\ \A u \in Queued(q) : u # t => r.entries[u] = q.entries[u]
            /\ r.taken = q.taken
            /\ r.selectedPage = q.selectedPage
            /\ r.pageToSelectWhenDone = NoPage
<1> DEFINE e == [u \in Queued(q) \cup {t} |-> IF u = t THEN page ELSE q.entries[u]]
<1>1. /\ Queued(q) \cup {t} \in SUBSET (1..MaxTasks)
      /\ e \in [Queued(q) \cup {t} -> Pages]
  BY QueueFields
<1>2. AddProcessingTask(q, page, t) =
        [entries |-> e, taken |-> q.taken, selectedPage |-> q.selectedPage,
         pageToSelectWhenDone |-> NoPage]
  BY DEF AddProcessingTask
<1>3. AddProcessingTask(q, page, t) \in QueueType
  <2> HIDE DEF e
  <2> QED BY <1>1, <1>2, QueueFields, MakeQueue
<1> QED
  BY <1>2, <1>3 DEF Queued

\* takeForProcessing() marks the first entry that is not taken.
LEMMA TakeFields ==
  ASSUME NEW q \in QueueType, HasUntaken(q)
  PROVE  LET r == TakeForProcessing(q)
             t == Next2Take(q)
         IN /\ t \in Untaken(q)
            /\ \A u \in Untaken(q) : t <= u
            /\ r \in QueueType
            /\ r.entries = q.entries
            /\ r.taken = q.taken \cup {t}
            /\ r.selectedPage = IF q.selectedPage = NoPage THEN q.entries[t]
                                ELSE q.selectedPage
            /\ r.pageToSelectWhenDone = q.pageToSelectWhenDone
<1> DEFINE t == Next2Take(q)
<1>1. Untaken(q) \in SUBSET Nat /\ Untaken(q) # {}
  BY QueueFields DEF Untaken, HasUntaken
<1>2. t \in Untaken(q) /\ \A u \in Untaken(q) : t <= u
  BY <1>1, FirstIsLeast DEF Next2Take
<1>3. t \in Queued(q) /\ t \in 1..MaxTasks /\ q.entries[t] \in Pages
  BY <1>2, QueueFields DEF Untaken
<1> HIDE DEF t
<1> DEFINE sel == IF q.selectedPage = NoPage THEN q.entries[t] ELSE q.selectedPage
<1>4. TakeForProcessing(q) =
        [entries |-> q.entries, taken |-> q.taken \cup {t}, selectedPage |-> sel,
         pageToSelectWhenDone |-> q.pageToSelectWhenDone]
  BY DEF TakeForProcessing, t
<1>5. TakeForProcessing(q) \in QueueType
  BY <1>3, <1>4, QueueFields, MakeQueue
<1> QED
  BY <1>2, <1>4, <1>5 DEF t

\* processingFinished() erases the entry it finds, and only that one.
LEMMA FinishFields ==
  ASSUME NEW q \in QueueType, NEW t \in Queued(q), Found(q, t)
  PROVE  LET r == ProcessingFinished(q, t)
         IN /\ r \in QueueType
            /\ Queued(r) = Queued(q) \ {t}
            /\ \A u \in Queued(r) : r.entries[u] = q.entries[u]
            /\ r.taken = q.taken \ {t}
            /\ r.selectedPage = SelectedAfter(q, t)
            /\ r.pageToSelectWhenDone = WhenDoneAfter(q, t)
            /\ Queued(r) # {} => First(Queued(r)) \in Queued(r)
<1> DEFINE rest == Queued(q) \ {t}
           e == KeepOnly(q, rest)
<1>1. rest \in SUBSET (1..MaxTasks) /\ rest \in SUBSET Nat
  BY QueueFields
<1>2. rest # {} => First(rest) \in rest
  BY <1>1, FirstIsLeast
<1>3. e \in [rest -> Pages] /\ \A u \in rest : e[u] = q.entries[u]
  BY QueueFields DEF KeepOnly
<1>4. q.entries[t] \in Pages
  BY QueueFields
<1>5. WhenDoneAfter(q, t) \in Pages \cup {NoPage}
  BY <1>4, QueueFields DEF WhenDoneAfter
<1>6. SelectedAfter(q, t) \in Pages \cup {NoPage}
  BY <1>2, <1>5, QueueFields DEF SelectedAfter
<1>7. ProcessingFinished(q, t) =
        [entries |-> e, taken |-> q.taken \ {t},
         selectedPage |-> SelectedAfter(q, t),
         pageToSelectWhenDone |-> WhenDoneAfter(q, t)]
  BY DEF ProcessingFinished
<1>8. ProcessingFinished(q, t) \in QueueType
  <2>1. /\ q.taken \ {t} \in SUBSET (1..MaxTasks)
        /\ rest \in SUBSET (1..MaxTasks)
        /\ e \in [rest -> Pages]
    BY <1>1, <1>3, QueueFields
  <2> HIDE DEF e, rest
  <2> QED BY <1>5, <1>6, <1>7, <2>1, MakeQueue
<1>9. Queued(ProcessingFinished(q, t)) = rest
  BY <1>7 DEF Queued, KeepOnly
<1> QED
  BY <1>2, <1>3, <1>7, <1>8, <1>9

\* cancelAndRemove() erases the entries of the given pages.
LEMMA RemoveFields ==
  ASSUME NEW q \in QueueType, NEW pages \in SUBSET Pages
  PROVE  LET r == CancelAndRemove(q, pages)
             gone == TasksFor(q, pages)
         IN /\ r \in QueueType
            /\ gone \subseteq Queued(q)
            /\ Queued(r) = Queued(q) \ gone
            /\ \A u \in Queued(r) : r.entries[u] = q.entries[u]
            /\ r.taken = q.taken \ gone
            /\ r.selectedPage = IF \E u \in gone : q.selectedPage = q.entries[u]
                                THEN NoPage ELSE q.selectedPage
            /\ r.pageToSelectWhenDone = q.pageToSelectWhenDone
<1> DEFINE gone == TasksFor(q, pages)
           rest == Queued(q) \ gone
           e    == KeepOnly(q, rest)
           sel  == IF \E u \in gone : q.selectedPage = q.entries[u]
                   THEN NoPage ELSE q.selectedPage
<1>1. gone \subseteq Queued(q)
  BY DEF TasksFor
<1>2. rest \in SUBSET (1..MaxTasks)
  BY QueueFields
<1>3. e \in [rest -> Pages] /\ \A u \in rest : e[u] = q.entries[u]
  BY QueueFields DEF KeepOnly
<1>4. sel \in Pages \cup {NoPage}
  BY QueueFields
<1>5. CancelAndRemove(q, pages) =
        [entries |-> e, taken |-> q.taken \ gone, selectedPage |-> sel,
         pageToSelectWhenDone |-> q.pageToSelectWhenDone]
  BY DEF CancelAndRemove
<1>6. CancelAndRemove(q, pages) \in QueueType
  <2>1. /\ q.taken \ gone \in SUBSET (1..MaxTasks)
        /\ q.pageToSelectWhenDone \in Pages \cup {NoPage}
        /\ e \in [rest -> Pages]
    BY <1>3, QueueFields
  <2> HIDE DEF e, rest, sel, gone
  <2> QED BY <1>2, <1>4, <1>5, <2>1, MakeQueue
<1>7. Queued(CancelAndRemove(q, pages)) = rest
  BY <1>5 DEF Queued, KeepOnly
<1>8. /\ \A u \in rest : CancelAndRemove(q, pages).entries[u] = q.entries[u]
      /\ CancelAndRemove(q, pages).taken = q.taken \ gone
      /\ CancelAndRemove(q, pages).selectedPage = sel
      /\ CancelAndRemove(q, pages).pageToSelectWhenDone = q.pageToSelectWhenDone
  <2> HIDE DEF e, rest, sel, gone
  <2> QED BY <1>3, <1>5
<1> QED
  BY <1>1, <1>6, <1>7, <1>8

\* cancelAndClear() leaves no entry.
LEMMA ClearFields ==
  ASSUME NEW q \in QueueType
  PROVE  LET r == CancelAndClear(q)
         IN /\ r \in QueueType
            /\ Queued(r) = {}
            /\ r.taken = {}
            /\ r.selectedPage = q.pageToSelectWhenDone
            /\ r.pageToSelectWhenDone = q.pageToSelectWhenDone
<1> DEFINE e == KeepOnly(q, {})
<1>1. {} \in SUBSET (1..MaxTasks) /\ e \in [{} -> Pages]
  BY DEF KeepOnly
<1>2. CancelAndClear(q) =
        [entries |-> e, taken |-> {}, selectedPage |-> q.pageToSelectWhenDone,
         pageToSelectWhenDone |-> q.pageToSelectWhenDone]
  BY DEF CancelAndClear
<1>3. CancelAndClear(q) \in QueueType
  <2> HIDE DEF e
  <2> DEFINE done == q.pageToSelectWhenDone
  <2>1. done \in Pages \cup {NoPage}
    BY QueueFields
  <2> HIDE DEF done
  <2>2. [entries |-> e, taken |-> {}, selectedPage |-> done,
         pageToSelectWhenDone |-> done] \in QueueType
    BY <1>1, <2>1 DEF QueueType
  <2> QED BY <1>2, <2>2 DEF done
<1> QED
  BY <1>1, <1>2, <1>3 DEF Queued

-----------------------------------------------------------------------------
(* The invariant of every use of a queue.  The three parts need each other: *)
(* a taken task is running and not cancelled, so that finishing it finds    *)
(* it, which needs the taken entries to come first.                         *)

Inv == TypeOK /\ TakenFirst /\ NoOrphans

\* The empty queue satisfies the invariant.
LEMMA InitInv == Init => Inv
<1> SUFFICES ASSUME Init PROVE Inv
  OBVIOUS
<1>1. Queued(queue) = {} /\ queue.taken = {}
  BY DEF Init, EmptyQueue, Queued
<1>2. queue \in QueueType
  <2>1. [t \in {} |-> NoPage] \in [{} -> Pages] /\ {} \in SUBSET (1..MaxTasks)
    OBVIOUS
  <2>2. [t \in {} |-> NoPage] \in UNION {[S -> Pages] : S \in SUBSET (1..MaxTasks)}
    BY <2>1
  <2> QED BY <2>2 DEF Init, EmptyQueue, QueueType
<1>3. TypeOK
  BY <1>1, <1>2, TasksAssumption DEF TypeOK, Init
<1> QED BY <1>1, <1>3 DEF Inv, TakenFirst, NoOrphans, Init

\* Handing out a task keeps the taken entries in front.
LEMMA TakeInv == Inv /\ Take => Inv'
<1> SUFFICES ASSUME Inv, Take PROVE Inv'
  OBVIOUS
<1> DEFINE t == Next2Take(queue)
<1>1. /\ t \in Untaken(queue)
      /\ \A u \in Untaken(queue) : t <= u
      /\ queue' \in QueueType
      /\ queue'.entries = queue.entries
      /\ queue'.taken = queue.taken \cup {t}
      /\ running' = running \cup {t}
  BY TakeFields DEF Inv, TypeOK, Take
<1>2. Queued(queue') = Queued(queue)
  BY <1>1 DEF Queued
<1> HIDE DEF t
<1>3. TypeOK'
  BY <1>1, <1>2 DEF Inv, TypeOK, Take, Untaken
<1>4. TakenFirst'
  <2>1. queue'.taken \subseteq Queued(queue')
    BY <1>1, <1>2 DEF Inv, TakenFirst, Untaken
  <2>2. ASSUME NEW v \in queue'.taken, NEW u \in Queued(queue'), u < v
        PROVE  u \in queue'.taken
    <3>1. CASE v \in queue.taken
      BY <3>1, <2>2, <1>1, <1>2 DEF Inv, TakenFirst
    <3>2. CASE v = t
      <4>1. u \in Nat /\ t \in Nat
        BY <1>1, <1>2 DEF Inv, TypeOK, Untaken
      <4> QED BY <4>1, <3>2, <2>2, <1>1, <1>2 DEF Untaken
    <3> QED BY <3>1, <3>2, <1>1
  <2> QED BY <2>1, <2>2 DEF TakenFirst
<1>5. NoOrphans'
  BY <1>1, <1>2 DEF Inv, NoOrphans, Take
<1> QED BY <1>3, <1>4, <1>5 DEF Inv

\* So does the end of a task, in whatever order tasks end.
LEMMA FinishInv == ASSUME NEW t \in running PROVE Inv /\ Finish(t) => Inv'
<1> SUFFICES ASSUME Inv, Finish(t) PROVE Inv'
  OBVIOUS
<1>1. CASE ~Found(queue, t)
  \* A running task that is not found has been cancelled.
  <2>1. queue' = queue
    BY <1>1 DEF Finish, ProcessingFinished
  <2>2. t \notin queue.taken
    BY <1>1 DEF Inv, TakenFirst, Found
  <2> QED
    BY <1>1, <2>1, <2>2 DEF Inv, TypeOK, TakenFirst, NoOrphans, Finish
<1>2. CASE Found(queue, t)
  <2>1. t \in Queued(queue)
    BY <1>2 DEF Inv, TakenFirst, Found
  <2>2. /\ queue' \in QueueType
        /\ Queued(queue') = Queued(queue) \ {t}
        /\ queue'.taken = queue.taken \ {t}
    BY <1>2, <2>1, FinishFields DEF Inv, TypeOK, Finish
  <2>3. TypeOK'
    BY <2>1, <2>2 DEF Inv, TypeOK, Finish
  <2>4. TakenFirst'
    BY <2>2 DEF Inv, TakenFirst
  <2>5. NoOrphans'
    BY <2>2 DEF Inv, NoOrphans, Finish
  <2> QED BY <2>3, <2>4, <2>5 DEF Inv
<1> QED BY <1>1, <1>2

\* Removing pages from the middle cancels the tasks it takes away.
LEMMA RemoveInv ==
  ASSUME NEW pages \in SUBSET Pages PROVE Inv /\ Remove(pages) => Inv'
<1> SUFFICES ASSUME Inv, Remove(pages) PROVE Inv'
  OBVIOUS
<1> DEFINE gone == TasksFor(queue, pages)
<1>1. /\ queue' \in QueueType
      /\ gone \subseteq Queued(queue)
      /\ Queued(queue') = Queued(queue) \ gone
      /\ queue'.taken = queue.taken \ gone
  BY RemoveFields DEF Inv, TypeOK, Remove
<1>2. cancelled' = cancelled \cup (queue.taken \cap gone)
  BY DEF Remove, CancelledByRemove
<1> HIDE DEF gone
<1>3. TypeOK'
  BY <1>1, <1>2 DEF Inv, TypeOK, Remove
<1>4. TakenFirst'
  BY <1>1 DEF Inv, TakenFirst
<1>5. NoOrphans'
  BY <1>1, <1>2 DEF Inv, NoOrphans, Remove
<1> QED BY <1>3, <1>4, <1>5 DEF Inv

\* Clearing cancels every task that was handed out.
LEMMA ClearInv == Inv /\ Clear => Inv'
<1> SUFFICES ASSUME Inv, Clear PROVE Inv'
  OBVIOUS
<1>1. queue' \in QueueType /\ Queued(queue') = {} /\ queue'.taken = {}
  BY ClearFields DEF Inv, TypeOK, Clear
<1>2. cancelled' = cancelled \cup queue.taken
  BY DEF Clear, CancelledByClear
<1>3. TypeOK'
  BY <1>1, <1>2 DEF Inv, TypeOK, TakenFirst, Clear
<1>4. TakenFirst' /\ NoOrphans'
  BY <1>1, <1>2 DEF Inv, TakenFirst, NoOrphans, Clear
<1> QED BY <1>3, <1>4 DEF Inv

\* A new entry goes behind all the others.
LEMMA AddInv == ASSUME NEW page \in Pages PROVE Inv /\ Add(page) => Inv'
<1> SUFFICES ASSUME Inv, Add(page) PROVE Inv'
  OBVIOUS
<1> DEFINE n == Len(submitted)
<1>1. /\ n \in Nat /\ n < MaxTasks /\ n + 1 \in 1..MaxTasks
      /\ submitted' \in Seq(Pages) /\ Len(submitted') = n + 1
  BY TasksAssumption, LenProperties, AppendProperties DEF Inv, TypeOK, Add
<1>2. /\ queue' \in QueueType
      /\ Queued(queue') = Queued(queue) \cup {n + 1}
      /\ queue'.taken = queue.taken
  BY <1>1, AddFields DEF Inv, TypeOK, Add
<1>3. UNCHANGED <<running, cancelled, finished>>
  BY DEF Add
<1>4. /\ Queued(queue) \subseteq 1..n /\ running \subseteq 1..n
      /\ cancelled \subseteq 1..n /\ finished \subseteq 1..n
      /\ queue.taken \subseteq Queued(queue)
  BY DEF Inv, TypeOK, TakenFirst
<1> HIDE DEF n
<1>5. TypeOK'
  BY <1>1, <1>2, <1>3, <1>4 DEF TypeOK
<1>6. TakenFirst'
  BY <1>1, <1>2, <1>4 DEF Inv, TakenFirst
<1>7. NoOrphans'
  BY <1>1, <1>2, <1>3, <1>4 DEF Inv, NoOrphans
<1> QED BY <1>5, <1>6, <1>7 DEF Inv

\* Every step of the queue and its clients keeps the invariant.
LEMMA NextInv == Inv /\ [Next]_vars => Inv'
<1> SUFFICES ASSUME Inv, [Next]_vars PROVE Inv'
  OBVIOUS
<1>1. CASE Take
  BY <1>1, TakeInv
<1>2. ASSUME NEW t \in running, Finish(t) PROVE Inv'
  BY <1>2, FinishInv
<1>3. ASSUME NEW pages \in SUBSET Pages, Remove(pages) PROVE Inv'
  BY <1>3, RemoveInv
<1>4. CASE Clear
  BY <1>4, ClearInv
<1>5. ASSUME NEW page \in Pages, Add(page) PROVE Inv'
  BY <1>5, AddInv
<1>6. CASE UNCHANGED vars
  BY <1>6 DEF vars, Inv, TypeOK, TakenFirst, NoOrphans
<1> QED BY <1>1, <1>2, <1>3, <1>4, <1>5, <1>6 DEF Next, Others

\* The queue (core/ProcessingTaskQueue.cpp) keeps its types, its taken
\* entries in front, and its tasks either queued or cancelled.
THEOREM Invariance == Spec => []Inv
<1> QED BY InitInv, NextInv, PTL DEF Spec

\* The queue is always well formed (core/ProcessingTaskQueue.cpp).
THEOREM TypeCorrect == Spec => []TypeOK
<1>1. Inv => TypeOK
  BY DEF Inv
<1> QED BY <1>1, Invariance, PTL

\* The early return of processingFinished() never hides a taken task.
THEOREM TakenEntriesComeFirst == Spec => []TakenFirst
<1>1. Inv => TakenFirst
  BY DEF Inv
<1> QED BY <1>1, Invariance, PTL

\* No worker is ever left with a task that is neither queued nor cancelled.
THEOREM NoTaskIsOrphaned == Spec => []NoOrphans
<1>1. Inv => NoOrphans
  BY DEF Inv
<1> QED BY <1>1, Invariance, PTL

-----------------------------------------------------------------------------
(* A batch: what the selection invariants rest on.                         *)

NumTasks == Len(submitted)

\* Entries carry the page their task was submitted for, and what is finished
\* is not queued any more.
Bookkeeping ==
  /\ \A t \in Queued(queue) : queue.entries[t] = submitted[t]
  /\ finished \cap Queued(queue) = {}

\* The page to select when done is set by the last task and by no other.
WhenDoneIsLast ==
  /\ NumTasks \in Queued(queue) => queue.pageToSelectWhenDone = NoPage
  /\ NumTasks \in finished => queue.pageToSelectWhenDone = submitted[NumTasks]
  /\ finished = {} => queue.pageToSelectWhenDone = NoPage

\* Nothing is selected before the first task is taken; afterwards something
\* is, unless an entry has been removed.
SelectionWhileComplete ==
  /\ NothingTakenYet => queue.selectedPage = NoPage
  /\ /\ queue.taken \cup finished # {}
     /\ Queued(queue) \cup finished = 1..NumTasks
     => queue.selectedPage # NoPage

BatchInv == /\ Inv
            /\ Bookkeeping
            /\ WhenDoneIsLast
            /\ SelectionWhileComplete
            /\ SelectionFollows

\* The empty queue satisfies the invariant of a batch.
LEMMA BatchInitInv == Init => BatchInv
<1> SUFFICES ASSUME Init PROVE BatchInv
  OBVIOUS
<1>1. /\ Queued(queue) = {} /\ queue.taken = {} /\ finished = {}
      /\ queue.selectedPage = NoPage /\ queue.pageToSelectWhenDone = NoPage
      /\ NumTasks = 0
  BY DEF Init, EmptyQueue, Queued, NumTasks
<1> QED
  BY <1>1, InitInv DEF BatchInv, Bookkeeping, WhenDoneIsLast,
     SelectionWhileComplete, SelectionFollows

\* What the invariant says about types, for the steps below.
LEMMA BatchTypes ==
  BatchInv => /\ queue \in QueueType
              /\ NumTasks \in Nat
              /\ submitted \in Seq(Pages)
              /\ Queued(queue) \subseteq 1..NumTasks
              /\ finished \subseteq 1..NumTasks
              /\ queue.taken \subseteq Queued(queue)
              /\ queue.entries \in [Queued(queue) -> Pages]
              /\ \A k \in 1..NumTasks : submitted[k] \in Pages
  BY QueueFields, LenProperties, ElementOfSeq
     DEF BatchInv, Inv, TypeOK, TakenFirst, NumTasks

\* Handing out a task leaves a selection that is in the queue.
LEMMA BatchTakeInv == BatchInv /\ Take => BatchInv'
<1> SUFFICES ASSUME BatchInv, Take PROVE BatchInv'
  OBVIOUS
<1> DEFINE t == Next2Take(queue)
<1>1. /\ t \in Untaken(queue)
      /\ queue'.entries = queue.entries
      /\ queue'.taken = queue.taken \cup {t}
      /\ queue'.selectedPage = IF queue.selectedPage = NoPage THEN queue.entries[t]
                               ELSE queue.selectedPage
      /\ queue'.pageToSelectWhenDone = queue.pageToSelectWhenDone
      /\ running' = running \cup {t}
      /\ UNCHANGED <<submitted, cancelled, finished>>
  BY TakeFields, BatchTypes DEF Take
<1>2. Queued(queue') = Queued(queue) /\ NumTasks' = NumTasks
  BY <1>1 DEF Queued, NumTasks
<1>3. Inv'
  BY TakeInv DEF BatchInv
<1> HIDE DEF t
<1>4. t \in Queued(queue) /\ queue.entries[t] \in Pages
  BY <1>1, BatchTypes DEF Untaken
<1>5. queue'.selectedPage # NoPage
  BY <1>1, <1>4, PageAssumption
<1>6. Bookkeeping' /\ WhenDoneIsLast'
  BY <1>1, <1>2 DEF BatchInv, Bookkeeping, WhenDoneIsLast
<1>7. SelectionWhileComplete'
  BY <1>1, <1>5 DEF SelectionWhileComplete, NothingTakenYet
<1>8. SelectionFollows'
  <2>1. PagesIn(queue') = PagesIn(queue)
    BY <1>1, <1>2 DEF PagesIn
  <2>2. queue'.selectedPage \in PagesIn(queue)
    BY <1>1, <1>4 DEF BatchInv, SelectionFollows, AllProcessed, PagesIn
  <2> QED BY <1>2, <1>4, <2>1, <2>2 DEF SelectionFollows, AllProcessed
<1> QED BY <1>3, <1>6, <1>7, <1>8 DEF BatchInv

\* When the selected page is finished, the selection moves to a page that
\* is still queued, or to the one kept for the end.
LEMMA BatchFinishInv ==
  ASSUME NEW t \in running PROVE BatchInv /\ Finish(t) => BatchInv'
<1> SUFFICES ASSUME BatchInv, Finish(t) PROVE BatchInv'
  OBVIOUS
<1>1. Inv'
  BY FinishInv DEF BatchInv
<1>2. CASE ~Found(queue, t)
  <2>1. /\ queue' = queue /\ finished' = finished
        /\ UNCHANGED <<submitted, cancelled>> /\ NumTasks' = NumTasks
    BY <1>2 DEF Finish, ProcessingFinished, NumTasks
  \* Such a task has been cancelled, so the batch has been interfered with.
  <2>2. t \in cancelled
    BY <1>2 DEF BatchInv, Inv, NoOrphans, TakenFirst, Found
  <2>3. SelectionWhileComplete'
    BY <2>1, <2>2 DEF BatchInv, SelectionWhileComplete, NothingTakenYet
  <2> QED
    BY <1>1, <2>1, <2>3
       DEF BatchInv, Bookkeeping, WhenDoneIsLast, SelectionFollows
<1>3. CASE Found(queue, t)
  <2>1. t \in Queued(queue) /\ t \in queue.taken
    BY <1>3, BatchTypes DEF Found
  <2>2. /\ Queued(queue') = Queued(queue) \ {t}
        /\ \A u \in Queued(queue') : queue'.entries[u] = queue.entries[u]
        /\ queue'.taken = queue.taken \ {t}
        /\ queue'.selectedPage = SelectedAfter(queue, t)
        /\ queue'.pageToSelectWhenDone = WhenDoneAfter(queue, t)
        /\ Queued(queue') # {} => First(Queued(queue')) \in Queued(queue')
    BY <1>3, <2>1, FinishFields, BatchTypes DEF Finish
  <2>3. /\ finished' = finished \cup {t}
        /\ UNCHANGED <<submitted, cancelled>> /\ NumTasks' = NumTasks
    BY <1>3 DEF Finish, NumTasks
  <2>4. queue.entries[t] \in Pages /\ queue.entries[t] # NoPage
    BY <2>1, BatchTypes, PageAssumption
  <2>5. t \in 1..NumTasks /\ NumTasks \in Nat
    BY <2>1, BatchTypes
  <2>6. Bookkeeping'
    BY <2>1, <2>2, <2>3 DEF BatchInv, Bookkeeping
  <2>7. WhenDoneIsLast'
    <3>1. CASE t = NumTasks
      <4>1. IsLast(queue, t)
        BY <3>1, <2>5, BatchTypes DEF IsLast
      <4>2. queue.pageToSelectWhenDone = NoPage
        BY <3>1, <2>1 DEF BatchInv, WhenDoneIsLast
      <4>3. queue'.pageToSelectWhenDone = submitted[NumTasks]
        BY <3>1, <4>1, <4>2, <2>1, <2>2 DEF WhenDoneAfter, BatchInv, Bookkeeping
      <4> QED BY <4>3, <3>1, <2>2, <2>3 DEF WhenDoneIsLast
    <3>2. CASE t # NumTasks /\ NumTasks \in Queued(queue)
      <4>1. ~IsLast(queue, t)
        BY <3>2, <2>5 DEF IsLast
      <4>2. queue'.pageToSelectWhenDone = NoPage /\ NumTasks \notin finished
        BY <3>2, <4>1, <2>2 DEF WhenDoneAfter, BatchInv, WhenDoneIsLast, Bookkeeping
      <4> QED BY <4>2, <3>2, <2>3 DEF WhenDoneIsLast
    <3>3. CASE t # NumTasks /\ NumTasks \notin Queued(queue)
      <4>1. NumTasks \in finished =>
              queue.pageToSelectWhenDone = submitted[NumTasks]
        BY DEF BatchInv, WhenDoneIsLast
      <4>2. NumTasks \in finished => submitted[NumTasks] # NoPage
        BY BatchTypes, PageAssumption
      <4>3. NumTasks \in finished =>
              queue'.pageToSelectWhenDone = submitted[NumTasks]
        BY <4>1, <4>2, <2>2 DEF WhenDoneAfter
      <4> QED BY <4>3, <3>3, <2>2, <2>3 DEF WhenDoneIsLast
    <3> QED BY <3>1, <3>2, <3>3
  \* If the selected page has just been finished, another one is selected.
  <2>8. queue.selectedPage = queue.entries[t] =>
          /\ Queued(queue') # {} =>
               queue'.selectedPage = queue.entries[First(Queued(queue'))]
          /\ Queued(queue') = {} =>
               queue'.selectedPage = queue'.pageToSelectWhenDone
    BY <2>2 DEF SelectedAfter
  <2>9. queue.selectedPage # queue.entries[t] =>
          queue'.selectedPage = queue.selectedPage
    BY <2>2 DEF SelectedAfter
  <2>10. Queued(queue') = {} => queue'.pageToSelectWhenDone # NoPage
    <3>1. Queued(queue') = {} => IsLast(queue, t)
      BY <2>2, <2>5 DEF IsLast
    <3> QED BY <3>1, <2>2, <2>4 DEF WhenDoneAfter
  <2>11. Queued(queue') # {} =>
           /\ queue.entries[First(Queued(queue'))] \in PagesIn(queue')
           /\ queue.entries[First(Queued(queue'))] # NoPage
    BY <2>2, BatchTypes, PageAssumption DEF PagesIn
  <2>12. SelectionWhileComplete'
    <3>1. ~NothingTakenYet'
      BY <2>3 DEF NothingTakenYet
    <3>2. ASSUME Queued(queue') \cup finished' = 1..NumTasks
          PROVE  queue'.selectedPage # NoPage
      <4>1. Queued(queue) \cup finished = 1..NumTasks
        BY <3>2, <2>1, <2>2, <2>3
      <4>2. queue.selectedPage # NoPage
        BY <4>1, <2>1 DEF BatchInv, SelectionWhileComplete
      <4> QED BY <4>2, <2>8, <2>9, <2>10, <2>11
    <3> QED BY <3>1, <3>2, <2>3 DEF SelectionWhileComplete
  <2>13. SelectionFollows'
    <3>1. CASE queue.selectedPage = queue.entries[t]
      BY <3>1, <2>8, <2>11 DEF SelectionFollows, AllProcessed
    <3>2. CASE queue.selectedPage # queue.entries[t] /\ queue.selectedPage # NoPage
      <4>1. queue.selectedPage \in PagesIn(queue)
        BY <3>2, <2>1 DEF BatchInv, SelectionFollows, AllProcessed
      <4>2. PICK u \in Queued(queue) : queue.selectedPage = queue.entries[u]
        BY <4>1 DEF PagesIn
      <4>3. u \in Queued(queue') /\ queue'.entries[u] = queue.selectedPage
        BY <3>2, <4>2, <2>2
      <4>4. queue.selectedPage \in PagesIn(queue')
        BY <4>3 DEF PagesIn
      <4> QED BY <4>3, <4>4, <2>9, <3>2 DEF SelectionFollows, AllProcessed
    <3>3. CASE queue.selectedPage # queue.entries[t] /\ queue.selectedPage = NoPage
      BY <3>3, <2>9 DEF SelectionFollows
    <3> QED BY <3>1, <3>2, <3>3
  <2> QED BY <1>1, <2>6, <2>7, <2>12, <2>13 DEF BatchInv
<1> QED BY <1>2, <1>3

\* Removing the selected page leaves nothing selected.
LEMMA BatchRemoveInv ==
  ASSUME NEW pages \in SUBSET Pages PROVE BatchInv /\ Remove(pages) => BatchInv'
<1> SUFFICES ASSUME BatchInv, Remove(pages) PROVE BatchInv'
  OBVIOUS
<1> DEFINE gone == TasksFor(queue, pages)
<1>1. /\ gone \subseteq Queued(queue)
      /\ Queued(queue') = Queued(queue) \ gone
      /\ \A u \in Queued(queue') : queue'.entries[u] = queue.entries[u]
      /\ queue'.taken = queue.taken \ gone
      /\ queue'.selectedPage = IF \E u \in gone : queue.selectedPage = queue.entries[u]
                               THEN NoPage ELSE queue.selectedPage
      /\ queue'.pageToSelectWhenDone = queue.pageToSelectWhenDone
  BY RemoveFields, BatchTypes DEF Remove
<1>2. /\ UNCHANGED <<submitted, running, finished>> /\ NumTasks' = NumTasks
      /\ cancelled \subseteq cancelled'
  BY DEF Remove, NumTasks
<1>3. Inv'
  BY RemoveInv DEF BatchInv
<1> HIDE DEF gone
<1>4. Bookkeeping' /\ WhenDoneIsLast'
  BY <1>1, <1>2 DEF BatchInv, Bookkeeping, WhenDoneIsLast
<1>5. SelectionWhileComplete'
  <2>1. NothingTakenYet' => NothingTakenYet
    BY <1>2 DEF NothingTakenYet
  <2>2. CASE gone = {}
    BY <2>1, <2>2, <1>1, <1>2 DEF BatchInv, SelectionWhileComplete
  <2>3. CASE gone # {}
    \* What has been removed is neither queued nor finished.
    <3>1. Queued(queue') \cup finished' # 1..NumTasks
      BY <2>3, <1>1, <1>2, BatchTypes DEF BatchInv, Bookkeeping
    <3> QED BY <3>1, <2>1, <1>1, <1>2 DEF BatchInv, SelectionWhileComplete
  <2> QED BY <2>2, <2>3
<1>6. SelectionFollows'
  <2> SUFFICES ASSUME queue'.selectedPage # NoPage PROVE SelectionFollows'
    BY DEF SelectionFollows
  <2>1. /\ queue'.selectedPage = queue.selectedPage
        /\ \A u \in gone : queue.selectedPage # queue.entries[u]
    BY <1>1
  <2>2. CASE AllProcessed(queue)
    BY <2>1, <2>2, <1>1 DEF BatchInv, SelectionFollows, AllProcessed
  <2>3. CASE ~AllProcessed(queue)
    <3>1. PICK u \in Queued(queue) : queue.selectedPage = queue.entries[u]
      BY <2>1, <2>3 DEF BatchInv, SelectionFollows, PagesIn
    <3>2. u \in Queued(queue') /\ queue'.entries[u] = queue'.selectedPage
      BY <3>1, <2>1, <1>1
    <3> QED BY <3>2 DEF SelectionFollows, AllProcessed, PagesIn
  <2> QED BY <2>2, <2>3
<1> QED BY <1>3, <1>4, <1>5, <1>6 DEF BatchInv

\* Clearing selects the page kept for the end, if there is one.
LEMMA BatchClearInv == BatchInv /\ Clear => BatchInv'
<1> SUFFICES ASSUME BatchInv, Clear PROVE BatchInv'
  OBVIOUS
<1>1. /\ Queued(queue') = {} /\ queue'.taken = {}
      /\ queue'.selectedPage = queue.pageToSelectWhenDone
      /\ queue'.pageToSelectWhenDone = queue.pageToSelectWhenDone
  BY ClearFields, BatchTypes DEF Clear
<1>2. /\ UNCHANGED <<submitted, running, finished>> /\ NumTasks' = NumTasks
      /\ cancelled \subseteq cancelled'
  BY DEF Clear, NumTasks
<1>3. Inv'
  BY ClearInv DEF BatchInv
<1>4. Bookkeeping' /\ WhenDoneIsLast'
  BY <1>1, <1>2 DEF BatchInv, Bookkeeping, WhenDoneIsLast
<1>5. SelectionWhileComplete'
  <2>1. NothingTakenYet' => queue'.selectedPage = NoPage
    BY <1>1, <1>2 DEF BatchInv, WhenDoneIsLast, NothingTakenYet
  <2>2. ASSUME finished # {}, finished = 1..NumTasks
        PROVE  queue.pageToSelectWhenDone # NoPage
    <3>1. NumTasks \in finished
      BY <2>2, BatchTypes
    <3> QED BY <3>1, BatchTypes, PageAssumption DEF BatchInv, WhenDoneIsLast
  <2> QED BY <2>1, <2>2, <1>1, <1>2 DEF SelectionWhileComplete
<1>6. SelectionFollows'
  BY <1>1 DEF SelectionFollows, AllProcessed
<1> QED BY <1>3, <1>4, <1>5, <1>6 DEF BatchInv

\* Adding happens before anything is selected.
LEMMA BatchAddInv ==
  ASSUME NEW page \in Pages PROVE BatchInv /\ BatchAdd(page) => BatchInv'
<1> SUFFICES ASSUME BatchInv, BatchAdd(page) PROVE BatchInv'
  OBVIOUS
<1> DEFINE n == NumTasks
<1>1. /\ n \in Nat /\ n + 1 \in 1..MaxTasks
      /\ submitted' = Append(submitted, page) /\ NumTasks' = n + 1
      /\ submitted'[n + 1] = page
      /\ \A k \in 1..n : submitted'[k] = submitted[k]
  BY BatchTypes, TasksAssumption, AppendProperties DEF BatchAdd, Add, NumTasks
<1>2. /\ Queued(queue') = Queued(queue) \cup {n + 1}
      /\ queue'.entries[n + 1] = page
      /\ \A u \in Queued(queue) : u # n + 1 => queue'.entries[u] = queue.entries[u]
      /\ queue'.taken = queue.taken
      /\ queue'.selectedPage = queue.selectedPage
      /\ queue'.pageToSelectWhenDone = NoPage
  BY <1>1, AddFields, BatchTypes DEF BatchAdd, Add, NumTasks
<1>3. NothingTakenYet /\ UNCHANGED <<running, cancelled, finished>>
  BY DEF BatchAdd, Add
<1>4. Inv'
  BY AddInv DEF BatchInv, BatchAdd
<1>5. queue.selectedPage = NoPage /\ finished = {} /\ queue.taken = {}
  BY <1>3 DEF BatchInv, SelectionWhileComplete, NothingTakenYet, Inv, NoOrphans
<1>6. Queued(queue) \subseteq 1..n
  BY BatchTypes
<1> HIDE DEF n
<1>7. Bookkeeping'
  <2>1. \A u \in Queued(queue) : u # n + 1
    BY <1>1, <1>6
  <2> QED BY <2>1, <1>1, <1>2, <1>3, <1>5, <1>6 DEF BatchInv, Bookkeeping
<1>8. WhenDoneIsLast'
  BY <1>2, <1>3, <1>5 DEF WhenDoneIsLast
<1>9. SelectionWhileComplete' /\ SelectionFollows'
  BY <1>2, <1>3, <1>5 DEF SelectionWhileComplete, SelectionFollows
<1> QED BY <1>4, <1>7, <1>8, <1>9 DEF BatchInv

\* Every step of a batch keeps its invariant.
LEMMA BatchNextInv == BatchInv /\ [BatchNext]_vars => BatchInv'
<1> SUFFICES ASSUME BatchInv, [BatchNext]_vars PROVE BatchInv'
  OBVIOUS
<1>1. CASE Take
  BY <1>1, BatchTakeInv
<1>2. ASSUME NEW t \in running, Finish(t) PROVE BatchInv'
  BY <1>2, BatchFinishInv
<1>3. ASSUME NEW pages \in SUBSET Pages, Remove(pages) PROVE BatchInv'
  BY <1>3, BatchRemoveInv
<1>4. CASE Clear
  BY <1>4, BatchClearInv
<1>5. ASSUME NEW page \in Pages, BatchAdd(page) PROVE BatchInv'
  BY <1>5, BatchAddInv
<1>6. CASE UNCHANGED vars
  BY <1>6 DEF vars, BatchInv, Inv, TypeOK, TakenFirst, NoOrphans, Bookkeeping,
     WhenDoneIsLast, SelectionWhileComplete, NothingTakenYet, SelectionFollows,
     NumTasks
<1> QED BY <1>1, <1>2, <1>3, <1>4, <1>5, <1>6 DEF BatchNext, Others

\* A batch (MainWindow::startBatchProcessing() and filterResult()) keeps
\* the selection of its queue consistent with the pages left in it.
THEOREM BatchInvariance == BatchSpec => []BatchInv
<1> QED BY BatchInitInv, BatchNextInv, PTL DEF BatchSpec

\* A batch selects a page it is still working on, or the one to end at.
THEOREM BatchSelectionFollows == BatchSpec => []SelectionFollows
<1>1. BatchInv => SelectionFollows
  BY DEF BatchInv
<1> QED BY <1>1, BatchInvariance, PTL

\* A batch that ran to its end has its last page selected, whatever the order
\* in which the workers finished.
THEOREM BatchEndsAtLastPage == BatchSpec => []EndsAtLastPage
<1>1. BatchInv => EndsAtLastPage
  <2> SUFFICES ASSUME BatchInv, submitted # <<>>, finished = DOMAIN submitted
               PROVE  queue.selectedPage = submitted[Len(submitted)]
    BY DEF EndsAtLastPage
  <2>1. finished = 1..NumTasks /\ NumTasks \in finished
    BY BatchTypes, LenProperties, EmptySeq DEF NumTasks
  <2>2. Queued(queue) = {}
    BY <2>1, BatchTypes DEF BatchInv, Bookkeeping
  <2>3. queue.selectedPage # NoPage
    BY <2>1, <2>2 DEF BatchInv, SelectionWhileComplete
  <2>4. queue.selectedPage = queue.pageToSelectWhenDone
    BY <2>2, <2>3 DEF BatchInv, SelectionFollows, AllProcessed
  <2> QED BY <2>1, <2>4 DEF BatchInv, WhenDoneIsLast, NumTasks
<1> QED BY <1>1, BatchInvariance, PTL
-----------------------------------------------------------------------------
(* A task queue implements the life cycle of tasks, for any set of pages,  *)
(* any number of tasks, and any order of finishing, removing and clearing. *)

Tasks == DOMAIN submitted

\* A finished task is not queued: it cannot be handed out or finished again.
FinishedIsGone == finished \cap Queued(queue) = {}
LifeInv == Inv /\ FinishedIsGone

\* What tasks there are, and where they can be.
LEMMA LifeTypes ==
  ASSUME LifeInv
  PROVE  /\ Tasks = 1..Len(submitted) /\ Len(submitted) \in Nat
         /\ queue \in QueueType
         /\ queue.taken \subseteq Queued(queue)
         /\ Queued(queue) \subseteq Tasks /\ finished \subseteq Tasks
         /\ cancelled \cap Queued(queue) = {}
BY LenProperties DEF LifeInv, Inv, TypeOK, TakenFirst, NoOrphans, Tasks

\* A step of the abstract specification, task by task.
LEMMA Advances ==
  ASSUME Tasks \subseteq Tasks',
         \A t \in Tasks : StatusOf(t)' \in Lifecycle!Allowed[StatusOf(t)],
         \A t \in Tasks' \ Tasks : StatusOf(t)' # "done",
         \A t, u \in Tasks :
           /\ StatusOf(t) # "done" /\ StatusOf(t)' = "done"
           /\ StatusOf(u) # "done" /\ StatusOf(u)' = "done"
           => t = u
  PROVE  Lifecycle!Advance
BY DEF Lifecycle!Advance, Lifecycle!Completed, Tasks

\* Most steps apply no result, and submit nothing.
LEMMA AdvancesWithoutResult ==
  ASSUME UNCHANGED submitted, UNCHANGED finished,
         \A t \in Tasks : StatusOf(t)' \in Lifecycle!Allowed[StatusOf(t)]
  PROVE  Lifecycle!Advance
<1>1. Tasks' = Tasks
  BY DEF Tasks
<1>2. ASSUME NEW t \in Tasks PROVE StatusOf(t) # "done" => StatusOf(t)' # "done"
  BY DEF StatusOf
<1> QED BY <1>1, <1>2, Advances

\* Handing out a task moves it from waiting to processing.
LEMMA TakeAdvances == LifeInv /\ Take => Lifecycle!Advance /\ FinishedIsGone'
<1> SUFFICES ASSUME LifeInv, Take PROVE Lifecycle!Advance /\ FinishedIsGone'
  OBVIOUS
<1>1. /\ Next2Take(queue) \in Untaken(queue)
      /\ queue'.entries = queue.entries
      /\ queue'.taken = queue.taken \cup {Next2Take(queue)}
      /\ UNCHANGED <<submitted, cancelled, finished>>
  BY TakeFields DEF LifeInv, Inv, TypeOK, Take
<1>2. Queued(queue') = Queued(queue)
  BY <1>1 DEF Queued
<1>3. ASSUME NEW t \in Tasks PROVE StatusOf(t)' \in Lifecycle!Allowed[StatusOf(t)]
  BY <1>1, <1>2 DEF StatusOf, Lifecycle!Allowed, Lifecycle!Pending
<1> QED BY <1>1, <1>2, <1>3, AdvancesWithoutResult DEF LifeInv, FinishedIsGone

\* The result of a task that is found is applied: the task was being processed,
\* and is the only one that ends. Any other result changes nothing.
LEMMA FinishAdvances ==
  ASSUME NEW t \in running
  PROVE  LifeInv /\ Finish(t) => Lifecycle!Advance /\ FinishedIsGone'
<1> SUFFICES ASSUME LifeInv, Finish(t) PROVE Lifecycle!Advance /\ FinishedIsGone'
  OBVIOUS
<1>1. UNCHANGED <<submitted, cancelled>> /\ Tasks' = Tasks
  BY DEF Finish, Tasks
<1>2. CASE ~Found(queue, t)
  <2>1. queue' = queue /\ finished' = finished
    BY <1>2 DEF Finish, ProcessingFinished
  <2>2. ASSUME NEW u \in Tasks PROVE StatusOf(u)' \in Lifecycle!Allowed[StatusOf(u)]
    BY <1>1, <2>1 DEF StatusOf, Lifecycle!Allowed, Lifecycle!Pending
  <2> QED BY <1>1, <2>1, <2>2, AdvancesWithoutResult DEF LifeInv, FinishedIsGone
<1>3. CASE Found(queue, t)
  <2>1. t \in Queued(queue) /\ t \in queue.taken /\ t \in Tasks
    BY <1>3, LifeTypes DEF Found
  <2>2. /\ Queued(queue') = Queued(queue) \ {t}
        /\ queue'.taken = queue.taken \ {t}
        /\ finished' = finished \cup {t}
    BY <1>3, <2>1, FinishFields DEF LifeInv, Inv, TypeOK, Finish
  <2>3. StatusOf(t) = "processing" /\ StatusOf(t)' = "done"
    BY <2>1, <2>2, LifeTypes DEF StatusOf, LifeInv, FinishedIsGone
  <2>4. ASSUME NEW u \in Tasks, u # t PROVE StatusOf(u)' = StatusOf(u)
    BY <1>1, <2>2, <2>4 DEF StatusOf
  <2>5. ASSUME NEW u \in Tasks PROVE StatusOf(u)' \in Lifecycle!Allowed[StatusOf(u)]
    <3>1. StatusOf(u) \in Lifecycle!Allowed[StatusOf(u)]
      BY DEF StatusOf, Lifecycle!Allowed, Lifecycle!Pending
    <3>2. "done" \in Lifecycle!Allowed["processing"]
      BY DEF Lifecycle!Allowed
    <3> QED BY <2>3, <2>4, <3>1, <3>2
  <2>6. Lifecycle!Advance
    BY <1>1, <2>4, <2>5, Advances
  <2> QED BY <2>2, <2>6 DEF LifeInv, FinishedIsGone
<1> QED BY <1>2, <1>3

\* Tasks whose page is removed are abandoned, waiting or not.
LEMMA RemoveAdvances ==
  ASSUME NEW pages \in SUBSET Pages
  PROVE  LifeInv /\ Remove(pages) => Lifecycle!Advance /\ FinishedIsGone'
<1> SUFFICES ASSUME LifeInv, Remove(pages) PROVE Lifecycle!Advance /\ FinishedIsGone'
  OBVIOUS
<1> DEFINE gone == TasksFor(queue, pages)
<1>1. /\ Queued(queue') = Queued(queue) \ gone
      /\ queue'.taken = queue.taken \ gone
      /\ cancelled' = cancelled \cup (queue.taken \cap gone)
      /\ UNCHANGED <<submitted, finished>>
  BY RemoveFields DEF LifeInv, Inv, TypeOK, Remove, CancelledByRemove
<1> HIDE DEF gone
<1>2. ASSUME NEW t \in Tasks PROVE StatusOf(t)' \in Lifecycle!Allowed[StatusOf(t)]
  BY <1>1 DEF StatusOf, Lifecycle!Allowed, Lifecycle!Pending
<1> QED BY <1>1, <1>2, AdvancesWithoutResult DEF LifeInv, FinishedIsGone

\* Clearing abandons all that were queued.
LEMMA ClearAdvances == LifeInv /\ Clear => Lifecycle!Advance /\ FinishedIsGone'
<1> SUFFICES ASSUME LifeInv, Clear PROVE Lifecycle!Advance /\ FinishedIsGone'
  OBVIOUS
<1>1. /\ Queued(queue') = {} /\ queue'.taken = {}
      /\ cancelled' = cancelled \cup queue.taken
      /\ UNCHANGED <<submitted, finished>>
  BY ClearFields DEF LifeInv, Inv, TypeOK, Clear, CancelledByClear
<1>2. ASSUME NEW t \in Tasks PROVE StatusOf(t)' \in Lifecycle!Allowed[StatusOf(t)]
  BY <1>1 DEF StatusOf, Lifecycle!Allowed, Lifecycle!Pending
<1> QED BY <1>1, <1>2, AdvancesWithoutResult DEF FinishedIsGone

\* A new task has a number of its own, and has not finished.
LEMMA AddAdvances ==
  ASSUME NEW page \in Pages
  PROVE  LifeInv /\ Add(page) => Lifecycle!Advance /\ FinishedIsGone'
<1> SUFFICES ASSUME LifeInv, Add(page) PROVE Lifecycle!Advance /\ FinishedIsGone'
  OBVIOUS
<1> DEFINE n == Len(submitted)
<1>1. /\ n \in Nat /\ n + 1 \in 1..MaxTasks
      /\ Tasks = 1..n /\ Tasks' = 1..(n + 1)
  BY LifeTypes, TasksAssumption, LenProperties, AppendProperties DEF LifeInv, Inv, TypeOK, Add, Tasks
<1>2. /\ Queued(queue') = Queued(queue) \cup {n + 1}
      /\ queue'.taken = queue.taken
  BY <1>1, AddFields DEF LifeInv, Inv, TypeOK, Add
<1>3. UNCHANGED <<cancelled, finished>>
  BY DEF Add
<1> HIDE DEF n
<1>4. n + 1 \notin Tasks /\ n + 1 \notin finished
  BY <1>1, LifeTypes
<1>5. ASSUME NEW t \in Tasks PROVE StatusOf(t)' = StatusOf(t)
  BY <1>2, <1>3, <1>4 DEF StatusOf
<1>6. ASSUME NEW t \in Tasks PROVE StatusOf(t)' \in Lifecycle!Allowed[StatusOf(t)]
  BY <1>5 DEF StatusOf, Lifecycle!Allowed, Lifecycle!Pending
<1>7. ASSUME NEW t \in Tasks' \ Tasks PROVE StatusOf(t)' # "done"
  BY <1>1, <1>3, <1>4 DEF StatusOf
<1>8. Lifecycle!Advance
  BY <1>1, <1>5, <1>6, <1>7, Advances
<1> QED BY <1>2, <1>3, <1>4, <1>8 DEF LifeInv, FinishedIsGone

\* Every step of the queue is one of the abstract specification, or a stutter.
LEMMA StepAdvances ==
  LifeInv /\ [Next]_vars => LifeInv' /\ [Lifecycle!Advance]_([t \in DOMAIN submitted |-> StatusOf(t)])
<1> SUFFICES ASSUME LifeInv, [Next]_vars
             PROVE  LifeInv' /\ [Lifecycle!Advance]_([t \in DOMAIN submitted |-> StatusOf(t)])
  OBVIOUS
<1>1. Inv'
  BY NextInv DEF LifeInv
<1>2. CASE Next
  <2>1. ASSUME NEW t \in running, Finish(t) PROVE Lifecycle!Advance /\ FinishedIsGone'
    BY <2>1, FinishAdvances
  <2>2. ASSUME NEW pages \in SUBSET Pages, Remove(pages)
        PROVE  Lifecycle!Advance /\ FinishedIsGone'
    BY <2>2, RemoveAdvances
  <2>3. ASSUME NEW page \in Pages, Add(page) PROVE Lifecycle!Advance /\ FinishedIsGone'
    BY <2>3, AddAdvances
  <2>4. Lifecycle!Advance /\ FinishedIsGone'
    BY <1>2, <2>1, <2>2, <2>3, TakeAdvances, ClearAdvances DEF Next, Others
  <2> QED BY <1>1, <2>4 DEF LifeInv
<1>3. CASE UNCHANGED vars
  <2>1. UNCHANGED [t \in DOMAIN submitted |-> StatusOf(t)]
    BY <1>3 DEF vars, StatusOf
  <2> QED BY <1>1, <1>3, <2>1 DEF vars, LifeInv, FinishedIsGone
<1> QED BY <1>2, <1>3

\* Whatever is added, handed out, finished late or twice, removed and cleared,
\* every task of a queue (core/ProcessingTaskQueue.cpp) waits, is processed, and
\* ends for good: applied once and after it was handed out, or abandoned.
THEOREM QueueImplementsLifecycle == Spec => ImplementsLifecycle
<1>1. Init => LifeInv
  BY InitInv DEF LifeInv, FinishedIsGone, Init
<1>2. Init => Lifecycle!Init
  BY DEF Init, Lifecycle!Init
<1> QED BY <1>1, <1>2, StepAdvances, PTL DEF Spec, ImplementsLifecycle, Lifecycle!Spec
=============================================================================
