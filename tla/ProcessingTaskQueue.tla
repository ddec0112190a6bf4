------------------------ MODULE ProcessingTaskQueue ------------------------
(***************************************************************************)
(* One ProcessingTaskQueue and its clients: the GUI thread adds tasks,     *)
(* hands them out to worker threads, removes and clears; results come back *)
(* in any order, also those of tasks that are no longer queued.            *)
(***************************************************************************)
EXTENDS TaskQueues

CONSTANT MaxTasks   \* bound: tasks ever submitted
ASSUME TasksAssumption == MaxTasks \in Nat

VARIABLES
  queue,      \* the ProcessingTaskQueue
  submitted,  \* the page of each task ever added; task k is submitted[k]
  running,    \* tasks handed out, whose result has not been seen yet
  cancelled,  \* tasks whose m_cancelFlag is set
  finished    \* tasks that processingFinished() found in the queue

vars == <<queue, submitted, running, cancelled, finished>>

Init ==
  /\ queue = EmptyQueue
  /\ submitted = <<>>
  /\ running = {}
  /\ cancelled = {}
  /\ finished = {}

\* No page is queued twice: a batch visits every page once, and the queue of
\* the page being edited is cleared before it gets its only entry.
Add(page) ==
  /\ Len(submitted) < MaxTasks
  /\ page \notin PagesIn(queue)
  /\ submitted' = Append(submitted, page)
  /\ queue' = AddProcessingTask(queue, page, Len(submitted) + 1)
  /\ UNCHANGED <<running, cancelled, finished>>

Take ==
  /\ HasUntaken(queue)
  /\ queue' = TakeForProcessing(queue)
  /\ running' = running \cup {Next2Take(queue)}
  /\ UNCHANGED <<submitted, cancelled, finished>>

\* MainWindow::filterResult() reports the task whether cancelled or not.
Finish(t) ==
  /\ t \in running
  /\ running' = running \ {t}
  /\ queue' = ProcessingFinished(queue, t)
  /\ finished' = IF Found(queue, t) THEN finished \cup {t} ELSE finished
  /\ UNCHANGED <<submitted, cancelled>>

Remove(pages) ==
  /\ queue' = CancelAndRemove(queue, pages)
  /\ cancelled' = cancelled \cup CancelledByRemove(queue, pages)
  /\ UNCHANGED <<submitted, running, finished>>

Clear ==
  /\ queue' = CancelAndClear(queue)
  /\ cancelled' = cancelled \cup CancelledByClear(queue)
  /\ UNCHANGED <<submitted, running, finished>>

Others == \/ Take
          \/ \E t \in running : Finish(t)
          \/ \E pages \in SUBSET Pages : Remove(pages)
          \/ Clear

Next == Others \/ \E page \in Pages : Add(page)

Spec == Init /\ [][Next]_vars

\* A batch: everything is added before anything is taken, and each page once.
NothingTakenYet == running = {} /\ finished = {} /\ cancelled = {}
BatchAdd(page) ==
  /\ NothingTakenYet
  /\ \A k \in DOMAIN submitted : submitted[k] # page
  /\ Add(page)
BatchNext == Others \/ \E page \in Pages : BatchAdd(page)
BatchSpec == Init /\ [][BatchNext]_vars
-----------------------------------------------------------------------------
QueueType ==
  [entries : UNION {[S -> Pages] : S \in SUBSET (1..MaxTasks)},
   taken   : SUBSET (1..MaxTasks),
   selectedPage : Pages \cup {NoPage},
   pageToSelectWhenDone : Pages \cup {NoPage}]

TypeOK ==
  /\ queue \in QueueType
  /\ Queued(queue) \subseteq 1..Len(submitted)
  /\ submitted \in Seq(Pages)
  /\ Len(submitted) <= MaxTasks
  /\ running \subseteq 1..Len(submitted)
  /\ cancelled \subseteq 1..Len(submitted)
  /\ finished \subseteq 1..Len(submitted)

\* "There is no point in looking further" at the first entry that has not
\* been taken: no taken entry is ever behind one that is not, whatever was
\* finished out of order or removed from the middle.
TakenFirst ==
  /\ queue.taken \subseteq Queued(queue)
  /\ \A t \in queue.taken : \A u \in Queued(queue) : u < t => u \in queue.taken

\* A task that a worker may still be processing is either queued, or it has
\* been cancelled, so that its result will not reach the user interface.
NoOrphans ==
  /\ running \subseteq queue.taken \cup cancelled
  /\ queue.taken \subseteq running
  /\ cancelled \cap Queued(queue) = {}

\* The page shown as being processed is one that is still in the queue, and
\* when the queue has run empty, it is the one to be selected then.
SelectionFollows ==
  queue.selectedPage # NoPage =>
    IF AllProcessed(queue) THEN queue.selectedPage = queue.pageToSelectWhenDone
    ELSE queue.selectedPage \in PagesIn(queue)

\* A batch in which nothing was removed ends with its last page selected,
\* in whatever order the workers finished.
EndsAtLastPage ==
  submitted # <<>> /\ finished = DOMAIN submitted =>
    queue.selectedPage = submitted[Len(submitted)]

\* Each task goes through the life cycle that TaskLifecycle promises: a task
\* that was cancelled or removed never counts as finished afterwards, and none
\* finishes before it was handed out, or twice.
StatusOf(t) ==
  IF t \in finished THEN "done"
  ELSE IF t \in cancelled \/ t \notin Queued(queue) THEN "abandoned"
  ELSE IF t \in queue.taken THEN "processing" ELSE "waiting"
Lifecycle ==
  INSTANCE TaskLifecycle WITH status <- [t \in DOMAIN submitted |-> StatusOf(t)]
ImplementsLifecycle == Lifecycle!Spec
=============================================================================
