----------------------------- MODULE TaskQueues -----------------------------
(***************************************************************************)
(* core/ProcessingTaskQueue.cpp as a data type: a queue is a value, an     *)
(* operation a function from queues to queues.  The main window keeps two  *)
(* of them, one for the page being edited and one for a batch.             *)
(*                                                                         *)
(* Tasks are numbered in the order they are created, which is the order    *)
(* they are added in: the std::list m_queue is the set of its tasks in     *)
(* increasing order.                                                       *)
(***************************************************************************)
EXTENDS Integers, Sequences, FiniteSets

CONSTANTS Pages,    \* the pages of the project
          NoPage    \* the null PageInfo

ASSUME PageAssumption == NoPage \notin Pages

EmptyQueue == [entries              |-> [t \in {} |-> NoPage],
               taken                |-> {},
               selectedPage         |-> NoPage,
               pageToSelectWhenDone |-> NoPage]

Queued(q)   == DOMAIN q.entries
Untaken(q)  == Queued(q) \ q.taken
PagesIn(q)  == {q.entries[t] : t \in Queued(q)}
First(S)    == CHOOSE t \in S : \A u \in S : t <= u
IsLast(q, t) == \A u \in Queued(q) : u <= t
KeepOnly(q, S) == [t \in S |-> q.entries[t]]

AddProcessingTask(q, page, t) ==
  [entries              |-> [u \in Queued(q) \cup {t} |->
                              IF u = t THEN page ELSE q.entries[u]],
   taken                |-> q.taken,
   selectedPage         |-> q.selectedPage,
   pageToSelectWhenDone |-> NoPage]

\* takeForProcessing() returns Next2Take(q), if there is one.
HasUntaken(q) == Untaken(q) # {}
LastUntaken(q) == CHOOSE t \in Untaken(q) : \A u \in Untaken(q) : u <= t  \* mutant of Next2Take
Next2Take(q)  == First(Untaken(q))
TakeForProcessing(q) ==
  LET t == Next2Take(q)
  IN [entries              |-> q.entries,
      taken                |-> q.taken \cup {t},
      selectedPage         |-> IF q.selectedPage = NoPage THEN q.entries[t]
                               ELSE q.selectedPage,
      pageToSelectWhenDone |-> q.pageToSelectWhenDone]

\* The search of processingFinished() ends at the first entry not taken.
Found(q, t) == /\ t \in q.taken
               /\ \A u \in Queued(q) : u < t => u \in q.taken

\* The page to select when the queue runs empty: the last in the queue, even
\* if it is not the last to be finished.
OfLatestFinished(q, t) == q.entries[t]   \* mutant of WhenDoneAfter
WhenDoneAfter(q, t) ==
  IF IsLast(q, t) /\ q.pageToSelectWhenDone = NoPage THEN q.entries[t]
  ELSE q.pageToSelectWhenDone

SelectionUnmoved(q, t) == q.selectedPage   \* mutant of SelectedAfter
SelectedAfter(q, t) ==
  LET rest == Queued(q) \ {t}
  IN CASE q.selectedPage # q.entries[t]                 -> q.selectedPage
       [] q.selectedPage = q.entries[t] /\ rest # {}    -> q.entries[First(rest)]
       [] q.selectedPage = q.entries[t] /\ rest = {}    -> WhenDoneAfter(q, t)

ProcessingFinished(q, t) ==
  IF ~Found(q, t) THEN q
  ELSE [entries              |-> KeepOnly(q, Queued(q) \ {t}),
        taken                |-> q.taken \ {t},
        selectedPage         |-> SelectedAfter(q, t),
        pageToSelectWhenDone |-> WhenDoneAfter(q, t)]

\* cancelAndRemove() and cancelAndClear(), and the tasks they cancel: those
\* that a worker may already be processing.
TasksFor(q, pages) == {t \in Queued(q) : q.entries[t] \in pages}
OnlyCancelled(q, pages) == q   \* mutant of CancelAndRemove
CancelAndRemove(q, pages) ==
  LET gone == TasksFor(q, pages)
  IN [entries              |-> KeepOnly(q, Queued(q) \ gone),
      taken                |-> q.taken \ gone,
      selectedPage         |-> IF \E u \in gone : q.selectedPage = q.entries[u]
                               THEN NoPage ELSE q.selectedPage,
      pageToSelectWhenDone |-> q.pageToSelectWhenDone]

NothingRemoved(q, pages) == {}   \* mutant of CancelledByRemove
CancelledByRemove(q, pages) == q.taken \cap TasksFor(q, pages)

CancelAndClear(q) ==
  [entries              |-> KeepOnly(q, {}),
   taken                |-> {},
   selectedPage         |-> q.pageToSelectWhenDone,
   pageToSelectWhenDone |-> q.pageToSelectWhenDone]
CancelledByClear(q) == q.taken

AllProcessed(q) == Queued(q) = {}
=============================================================================
