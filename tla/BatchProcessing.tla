--------------------------- MODULE BatchProcessing ---------------------------
(***************************************************************************)
(* How pages get processed: the main window (app/MainWindow.cpp) with its  *)
(* queue for the page being edited and its queue for a batch, the pool of  *)
(* worker threads (core/WorkerThreadPool.cpp, on top of QThreadPool), and  *)
(* the results the workers post back.                                      *)
(*                                                                         *)
(* A handler of the main window is one step, except for the loop that      *)
(* feeds the pool, which looks at the threads as they come and go.  Cancel *)
(* is a flag that a worker may see or miss, and a result that is already   *)
(* posted is delivered whatever the user has done since.                   *)
(***************************************************************************)
EXTENDS TaskQueues, SequencesExt

CONSTANTS
  PageOrder,        \* the pages of a project, in the order of the thumbnails
  Stages,           \* numbers of the processing stages
  MaxThreads,       \* m_pool->maxThreadCount()
  MaxUserActions,   \* bound: user actions in a behaviour
  MaxProjects       \* bound: projects opened in a behaviour

ASSUME BatchAssumption ==
  /\ PageOrder \in Seq(Pages)
  /\ IsInjective(PageOrder)
  /\ PageOrder # <<>>
  /\ Pages = Range(PageOrder)
  /\ Stages \subseteq Nat
  /\ 1 \in Stages
  /\ MaxThreads \in Nat \ {0}
  /\ MaxUserActions \in Nat
  /\ MaxProjects \in Nat \ {0}

VARIABLES
  app,          \* what the handlers of the main window work on
  gui,          \* where the GUI thread is: idle in its event loop, in the
                \* feeding loop ("feeding", "checking"), or waiting for the
                \* workers in the destructor ("closing")
  events,       \* the TaskResultEvents posted, in order
  hadOOM,       \* a task ran out of memory
  applied,      \* history: tasks whose updateUI() has been called
  userActions   \* user actions so far (bounded)

vars == <<app, gui, events, hadOOM, applied, userActions>>

NoTask == 0

-----------------------------------------------------------------------------
(* The thread pool.  A thread counts as active until, after its task, it   *)
(* has found no other to run.                                              *)

EmptyPool == [waiting |-> <<>>, running |-> {}, leaving |-> 0]
ActiveThreads(p) == Cardinality(p.running) + p.leaving

HasSpareCapacity(p) == ActiveThreads(p) < MaxThreads

Start(p, t) == IF HasSpareCapacity(p) THEN [p EXCEPT !.running = @ \cup {t}]
               ELSE [p EXCEPT !.waiting = Append(@, t)]

DroppedWhenFull(s, t) ==   \* mutant of SubmitTask
  IF HasSpareCapacity(s.pool) THEN [s EXCEPT !.pool = Start(@, t)] ELSE s
SubmitTask(s, t) == [s EXCEPT !.pool = Start(@, t)]
-----------------------------------------------------------------------------
(* What the handlers are made of, as functions of app.                     *)

ClearInteractive(s) ==
  [s EXCEPT !.cancelled   = @ \cup CancelledByClear(s.interactive),
            !.interactive = CancelAndClear(@)]
ClearBatch(s) ==
  [s EXCEPT !.cancelled = @ \cup CancelledByClear(s.batch),
            !.batch     = CancelAndClear(@)]

NewTask(s, page, inBatch) ==
  [page |-> page, project |-> s.project, stage |-> s.stage, inBatch |-> inBatch]

\* loadPageInteractive().  The output stage is not ready before the size of
\* every page is known.
LoadPageInteractive(s, ready) ==
  LET c == ClearInteractive(s)
      t == Len(s.tasks) + 1
  IN IF ~ready THEN [c EXCEPT !.shown = "error", !.shownTask = NoTask]
     ELSE SubmitTask(
            [c EXCEPT !.tasks = Append(@, NewTask(s, s.selected, FALSE)),
                      !.interactive =
                         TakeForProcessing(AddProcessingTask(@, s.selected, t)),
                      !.shown     = "processing",
                      !.shownTask = NoTask], t)

UpdateMainArea(s, ready) ==
  IF s.pages = <<>> \/ (~s.batching /\ s.selected = NoPage)
  THEN [s EXCEPT !.shown = "nothing", !.shownTask = NoTask]
  ELSE IF s.batching THEN [s EXCEPT !.shown = "batch", !.shownTask = NoTask]
  ELSE LoadPageInteractive(s, ready)

SetSelection(s, page) == IF page = NoPage THEN s ELSE [s EXCEPT !.selected = page]

NotCancelled(s) == [s EXCEPT !.batch = CancelAndClear(@)]   \* mutant of AbandonBatch
AbandonBatch(s) == ClearBatch(s)

\* stopBatchProcessing(), up to what it does to the main area.
EndBatch(s) ==
  IF ~s.batching THEN s
  ELSE [AbandonBatch(SetSelection(s, s.batch.selectedPage)) EXCEPT
          !.batching = FALSE]
StopBatch(s, ready) ==
  IF ~s.batching THEN s ELSE UpdateMainArea(EndBatch(s), ready)

\* goFirstPage(), if the last page is selected.
WrapAround(s, ready) ==
  IF s.selected = Last(s.pages)
  THEN UpdateMainArea([s EXCEPT !.selected = Head(s.pages)], ready)
  ELSE s

\* switchToNewProject(); closing a project is switching to one without pages.
SwitchTo(s, page, ready) ==
  LET c     == ClearInteractive(EndBatch(s))
      pages == IF page = NoPage THEN <<>> ELSE PageOrder
  IN UpdateMainArea([c EXCEPT !.project = @ + 1, !.pages = pages,
                              !.selected = page, !.stage = 1], ready)

\* startBatchProcessing(), up to the feeding loop: a task for every page, added
\* in the order of the pages.
QueueOf(pages, n) ==
  [EmptyQueue EXCEPT !.entries = [t \in n + 1 .. n + Len(pages) |-> pages[t - n]]]
StartBatch(s) ==
  LET c == ClearInteractive(s)
      n == Len(s.tasks)
  IN [c EXCEPT !.batching   = TRUE,
               !.batch      = QueueOf(s.pages, n),
               !.batchTasks = n + 1 .. n + Len(s.pages),
               !.tasks      = @ \o [k \in DOMAIN s.pages |->
                                      NewTask(s, s.pages[k], TRUE)]]

SubmitNext(s) ==
  SubmitTask([s EXCEPT !.batch = TakeForProcessing(@)], Next2Take(s.batch))
EndFeeding(s) ==
  UpdateMainArea(SetSelection(s, s.batch.selectedPage), TRUE)
-----------------------------------------------------------------------------
(* The user.                                                               *)

UserActs ==
  /\ gui = "idle"
  /\ userActions < MaxUserActions
  /\ userActions' = userActions + 1
  /\ UNCHANGED <<events, hadOOM, applied>>

\* Another page is clicked on: that also stops a batch.
SelectPage(page, ready) ==
  /\ UserActs
  /\ page \in Range(app.pages) \ {app.selected}
  /\ LET s == [app EXCEPT !.selected = page]
     IN app' = IF s.batching THEN StopBatch(s, ready) ELSE UpdateMainArea(s, ready)
  /\ UNCHANGED gui

\* A setting of the page was changed; or the same page is gone to again.
Reload(ready) ==
  /\ UserActs
  /\ app' = UpdateMainArea(app, ready)
  /\ UNCHANGED gui

\* The list of stages is disabled during a batch.
SelectStage(stage, ready) ==
  /\ UserActs
  /\ ~app.batching
  /\ stage # app.stage
  /\ app' = UpdateMainArea([ClearInteractive(app) EXCEPT !.stage = stage], ready)
  /\ UNCHANGED gui

StartBatchProcessing ==
  /\ UserActs
  /\ ~app.batching
  /\ app.pages # <<>>
  /\ app' = StartBatch(app)
  /\ gui' = "feeding"

StopBatchProcessing(ready) ==
  /\ UserActs
  /\ app.batching
  /\ app' = StopBatch(app, ready)
  /\ UNCHANGED gui

\* There is no context menu to remove a page with during a batch.
RemoveFromProject(page, ready) ==
  LET at == CHOOSE k \in DOMAIN app.pages : app.pages[k] = page
      s  == [app EXCEPT
              !.cancelled   = @ \cup CancelledByRemove(app.interactive, {page}),
              !.interactive = CancelAndRemove(@, {page}),
              !.pages       = RemoveAt(@, at)]
      next == IF s.pages = <<>> THEN NoPage
              ELSE IF at = 1 THEN Head(s.pages)
              ELSE app.pages[at - 1]
  IN /\ UserActs
     /\ ~app.batching
     /\ page \in Range(app.pages)
     /\ app' = UpdateMainArea([s EXCEPT !.selected = next], ready)
     /\ UNCHANGED gui

SwitchToNewProject(page, ready) ==
  /\ UserActs
  /\ app.project < MaxProjects
  /\ app' = SwitchTo(app, page, ready)
  /\ UNCHANGED gui

\* ~MainWindow(): everything is cancelled, then the workers are waited for.
Quit ==
  /\ gui = "idle"
  /\ app' = ClearBatch(ClearInteractive(app))
  /\ gui' = "closing"
  /\ UNCHANGED <<events, hadOOM, applied, userActions>>
-----------------------------------------------------------------------------
(* The event loop and the feeding loop.                                    *)

\* "Cancelled or not, we must mark it as finished."
Finished(s, t) ==
  [s EXCEPT !.interactive = ProcessingFinished(@, t),
            !.batch       = IF s.batching THEN ProcessingFinished(@, t) ELSE @]

NothingIsIgnored(t) == FALSE   \* mutant of Ignored
Ignored(t) == t \in app.cancelled

\* updateUI(): the page is shown if it is the one being edited, otherwise
\* its thumbnail is.  An error may come from a stage before the current one.
Show(s, t, stage) ==
  IF s.batching THEN s
  ELSE [s EXCEPT !.shown = "image", !.shownTask = t, !.stage = stage]

FilterResult(ready, stage) ==
  LET t == Head(events)
      s == Show(Finished(app, t), t, stage)
  IN /\ gui = "idle"
     /\ events # <<>>
     /\ stage <= app.tasks[t].stage
     /\ events' = Tail(events)
     /\ \/ /\ Ignored(t)
           /\ app' = Finished(app, t)
           /\ UNCHANGED <<gui, applied>>
        \/ /\ ~Ignored(t)
           /\ applied' = applied \cup {t}
           /\ IF s.batching /\ ~AllProcessed(s.batch)
              THEN app' = s /\ gui' = "feeding"
              ELSE /\ app' = IF s.batching THEN WrapAround(StopBatch(s, ready), ready)
                             ELSE s
                   /\ UNCHANGED gui
     /\ UNCHANGED <<hadOOM, userActions>>

FeedIfSpare ==   \* mutant of Feed: no task is submitted to a busy pool
  /\ gui = "feeding"
  /\ \/ /\ HasUntaken(app.batch) /\ HasSpareCapacity(app.pool)
        /\ app' = SubmitNext(app)
        /\ gui' = "checking"
     \/ /\ ~(HasUntaken(app.batch) /\ HasSpareCapacity(app.pool))
        /\ app' = EndFeeding(app)
        /\ gui' = "idle"
  /\ UNCHANGED <<events, hadOOM, applied, userActions>>

\* takeForProcessing() and submitTask() ...
Feed ==
  /\ gui = "feeding"
  /\ \/ /\ HasUntaken(app.batch)
        /\ app' = SubmitNext(app)
        /\ gui' = "checking"
     \/ /\ ~HasUntaken(app.batch)
        /\ app' = EndFeeding(app)
        /\ gui' = "idle"
  /\ UNCHANGED <<events, hadOOM, applied, userActions>>

\* ... for as long as a thread is free by then.
CheckCapacity ==
  /\ gui = "checking"
  /\ \/ /\ HasSpareCapacity(app.pool)
        /\ gui' = "feeding"
        /\ UNCHANGED app
     \/ /\ ~HasSpareCapacity(app.pool)
        /\ gui' = "idle"
        /\ app' = EndFeeding(app)
  /\ UNCHANGED <<events, hadOOM, applied, userActions>>

\* handleOutOfMemorySituation(): the project is closed, and the main window.
HandleOutOfMemory ==
  /\ gui = "idle"
  /\ hadOOM
  /\ app' = SwitchTo(app, NoPage, TRUE)
  /\ gui' = "closing"
  /\ UNCHANGED <<events, hadOOM, applied, userActions>>
-----------------------------------------------------------------------------
(* The worker threads.                                                     *)

Leave(t) == [app EXCEPT !.pool.running = @ \ {t}, !.pool.leaving = @ + 1]

\* A cancelled task may end without a result, at its start or at any of the
\* places where it looks at the flag.
Return(t) ==
  /\ t \in app.pool.running
  /\ app' = Leave(t)
  /\ \/ events' = Append(events, t)
     \/ t \in app.cancelled /\ UNCHANGED events
  /\ UNCHANGED <<gui, hadOOM, applied, userActions>>

RunOutOfMemory(t) ==
  /\ t \in app.pool.running
  /\ app' = Leave(t)
  /\ hadOOM' = TRUE
  /\ UNCHANGED <<gui, events, applied, userActions>>

\* A thread that is done with its task takes the next one, or retires.
AfterLeaving(p) ==
  IF p.waiting = <<>> THEN [p EXCEPT !.leaving = @ - 1]
  ELSE [waiting |-> Tail(p.waiting),
        running |-> p.running \cup {Head(p.waiting)},
        leaving |-> p.leaving - 1]

NextRunnable ==
  /\ app.pool.leaving > 0
  /\ app' = [app EXCEPT !.pool = AfterLeaving(@)]
  /\ UNCHANGED <<gui, events, hadOOM, applied, userActions>>

Destroyed ==
  /\ gui = "closing"
  /\ app.pool = EmptyPool
  /\ UNCHANGED vars
-----------------------------------------------------------------------------
\* A project has just been opened, its first page is about to be loaded.
Init ==
  /\ app = UpdateMainArea(
             [interactive |-> EmptyQueue, batch |-> EmptyQueue,
              batching |-> FALSE, batchTasks |-> {},
              tasks |-> <<>>, cancelled |-> {}, pool |-> EmptyPool,
              project |-> 1, pages |-> PageOrder, selected |-> Head(PageOrder),
              stage |-> 1, shown |-> "nothing", shownTask |-> NoTask], TRUE)
  /\ gui = "idle"
  /\ events = <<>>
  /\ hadOOM = FALSE
  /\ applied = {}
  /\ userActions = 0

User ==
  \/ \E ready \in BOOLEAN :
       \/ \E page \in Pages : \/ SelectPage(page, ready)
                              \/ RemoveFromProject(page, ready)
       \/ \E page \in Pages \cup {NoPage} : SwitchToNewProject(page, ready)
       \/ \E stage \in Stages : SelectStage(stage, ready)
       \/ Reload(ready)
       \/ StopBatchProcessing(ready)
  \/ StartBatchProcessing
  \/ Quit

GuiThread ==
  \/ \E ready \in BOOLEAN, stage \in Stages : FilterResult(ready, stage)
  \/ Feed
  \/ CheckCapacity
  \/ HandleOutOfMemory

Next ==
  \/ User
  \/ GuiThread
  \/ \E t \in app.pool.running : Return(t) \/ RunOutOfMemory(t)
  \/ NextRunnable
  \/ Destroyed

Spec == Init /\ [][Next]_vars

\* The GUI thread handles its events, and a thread of the pool its task.
Fairness ==
  /\ WF_vars(GuiThread)
  /\ WF_vars(\E t \in app.pool.running : Return(t) \/ RunOutOfMemory(t))
  /\ WF_vars(NextRunnable)

FairSpec == Spec /\ Fairness
-----------------------------------------------------------------------------
(* Properties.                                                             *)

InPool   == Range(app.pool.waiting) \cup app.pool.running
InFlight == InPool \cup Range(events)
Live     == InFlight \ app.cancelled

\* Whatever a worker may still bring back without being cancelled is wanted:
\* a page of the batch in progress, or else the one page being edited, at
\* the stage the user is at; and always of the project that is open.
OnlyCurrentWork ==
  \A t \in Live :
    LET task == app.tasks[t]
    IN /\ task.project = app.project
       /\ task.inBatch = app.batching
       /\ IF app.batching THEN t \in app.batch.taken
          ELSE /\ t \in app.interactive.taken
               /\ task.page = app.selected
               /\ task.stage = app.stage

\* The page shown in the main area is the one that is selected, of the
\* project that is open.
ShownIsSelected ==
  app.shown = "image" =>
    /\ app.tasks[app.shownTask].page = app.selected
    /\ app.tasks[app.shownTask].project = app.project

\* No page of a batch is lost, and none is done twice: each is either still
\* queued or its result has been applied.
BatchConserved ==
  app.batching /\ gui # "closing" =>
    Queued(app.batch) = app.batchTasks \ applied

\* Every batch comes to an end.
BatchEnds == app.batching ~> ~app.batching \/ gui = "closing"

\* The page that is being waited for is shown at last.
PageShown == app.shown = "processing" ~> app.shown # "processing" \/ gui = "closing"

\* The two queues, the pool, the cancel flags and the posted events together
\* give every task the life cycle of TaskLifecycle: what the user abandoned is
\* never applied, however late its result is, and nothing is applied twice.
StatusOf(t) ==
  IF t \in applied THEN "done"
  ELSE IF t \in app.cancelled \/ t \notin Queued(app.interactive) \cup Queued(app.batch)
  THEN "abandoned"
  ELSE IF t \in app.interactive.taken \cup app.batch.taken THEN "processing"
  ELSE "waiting"
Lifecycle ==
  INSTANCE TaskLifecycle WITH status <- [t \in DOMAIN app.tasks |-> StatusOf(t)]
ImplementsLifecycle == Lifecycle!Spec
=============================================================================
