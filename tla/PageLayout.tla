------------------------------ MODULE PageLayout ------------------------------
(***************************************************************************)
(* Margins, and the size that pages share.  page_layout::Settings keeps an *)
(* item for each page: its margins, the size of its content, whether it is *)
(* to match the size of others.  The aggregate size, that of the largest   *)
(* such page, is what all of them are extended to; their thumbnails show   *)
(* it and have to be drawn again when it changes.                          *)
(*                                                                         *)
(* The content boxes come from the stage before, either by a task that     *)
(* goes through both stages or by ContentBoxPropagator when the user comes *)
(* back from there.  Tasks run in worker threads while the GUI thread      *)
(* draws thumbnails, which reads the settings and writes them back.        *)
(*                                                                         *)
(* Sizes have one dimension here: width and height are treated alike.      *)
(***************************************************************************)
EXTENDS Integers, FiniteSets

CONSTANTS
  Pages, NoPage,
  Boxes,            \* sizes of content boxes; 0 is a page without content
  FoundBox,         \* the one found for each page
  PageWidth,        \* the page box of each page, around its content box
  Margins,          \* what the user may set; the first are the default ones
  DefaultMargins,
  MaxEvents,        \* bound: user actions in a behaviour
  MaxTasks          \* bound: tasks there are before a user action

Invalid == -1   \* the size of content that is not known
NoBox   == -2   \* no content box, or none for the page as it is now

ASSUME LayoutAssumption ==
  /\ NoPage \notin Pages /\ IsFiniteSet(Pages)
  /\ Boxes \subseteq Nat /\ Margins \subseteq Nat /\ DefaultMargins \in Margins
  /\ FoundBox \in [Pages -> Boxes]
  /\ PageWidth \in [Pages -> Nat] /\ \A p \in Pages, b \in Boxes : b <= PageWidth[p]
  /\ MaxEvents \in Nat /\ MaxTasks \in Nat

VARIABLES
  items,      \* Settings::Impl::m_items, by page
  exists,     \* pages of the project
  box,        \* select_content::Settings: the content box of each page
  stage,      \* the stage selected: "content" or "layout"
  current,    \* the page selected; NoPage when there is none
  batch,      \* batch processing is in progress
  tasks,      \* by number
  view,       \* ImageView and OptionsWidget, when shown: m_alignment and
              \* m_committedAggregateHardSizeMM
  thumbs,     \* the aggregate size that the thumbnail of each page shows
  drawing,    \* thumbnails to be drawn again, and the page to be loaded then
  crowded,    \* history: pages that a cancelled task may still have worked on
              \* since a task had them to itself, their thumbnail not being drawn
              \* either, or the boxes were propagated
  unnoticed,  \* history: the aggregate size was changed by a step after which
              \* nobody is told, and not all thumbnails were drawn since
  loads, events

vars == <<items, exists, box, stage, current, batch, tasks, view, thumbs, drawing,
          crowded, unnoticed, loads, events>>
-----------------------------------------------------------------------------
(* Settings.                                                               *)

DefaultItem == [margins |-> DefaultMargins, size |-> Invalid, aligned |-> TRUE, auto |-> FALSE]
ItemOf(its, p) == IF p \in DOMAIN its THEN its[p] ELSE DefaultItem
Put(its, p, item) == [q \in DOMAIN its \cup {p} |-> IF q = p THEN item ELSE its[q]]

SetSize(its, p, size)       == Put(its, p, [ItemOf(its, p) EXCEPT !.size = size])
SetMargins(its, p, margins) == Put(its, p, [ItemOf(its, p) EXCEPT !.margins = margins])
SetAuto(its, p, auto)       == Put(its, p, [ItemOf(its, p) EXCEPT !.auto = auto])
SetAligned(its, p, aligned) == Put(its, p, [ItemOf(its, p) EXCEPT !.aligned = aligned])
\* Nothing is invalidated of a page there is no item for.
WithItem(its, p)            == Put(its, p, ItemOf(its, p))

\* ORDER BY alignedWithOthers DESC, hardWidthMM DESC
HardWidth(item)  == item.size + item.margins
BySizeOnly(i, j) == HardWidth(i) >= HardWidth(j)   \* mutant of Precedes
Precedes(i, j) ==
  \/ i.aligned /\ ~j.aligned
  \/ i.aligned = j.aligned /\ HardWidth(i) >= HardWidth(j)
Aggregate(its) ==
  IF DOMAIN its = {} THEN 0
  ELSE LET first == CHOOSE p \in DOMAIN its : \A q \in DOMAIN its : Precedes(its[p], its[q])
       IN IF its[first].aligned THEN HardWidth(its[first]) ELSE 0

Defined(p) == p \in DOMAIN items /\ items[p].size # Invalid
-----------------------------------------------------------------------------
(* The GUI thread draws thumbnails and starts tasks.                       *)

NoView == [page |-> NoPage, aligned |-> TRUE, committed |-> 0]
Drawn  == [left |-> {}, reading |-> NoPage, size |-> Invalid, then |-> NoPage]
Redraw(pages, then) == [left |-> pages, reading |-> NoPage, size |-> Invalid, then |-> then]
Idle   == drawing = Drawn

PageOf(t)   == t[2]
FewTasks    == Cardinality(DOMAIN tasks) <= MaxTasks
UserActs ==
  /\ Idle /\ FewTasks
  /\ events < MaxEvents /\ events' = events + 1

\* A task for each of the pages, in place of those there are.  What a cancelled
\* one has changed nobody will be told, nor of default settings a page is given.
NewTask(layout, alone) ==
  [layout |-> layout, pc |-> "start", cancelled |-> FALSE, box |-> NoBox, changed |-> FALSE,
   alone |-> alone]
Cancelled == [t \in DOMAIN tasks |-> [tasks[t] EXCEPT !.cancelled = TRUE]]
CancelAll ==
  /\ crowded' = crowded \cup {PageOf(t) : t \in DOMAIN tasks}
  /\ unnoticed' = (\/ unnoticed \/ Aggregate(items') # Aggregate(items)
                   \/ \E t \in DOMAIN tasks : ~tasks[t].cancelled /\ tasks[t].changed)
StartTasks(pages) ==
  LET started == {loads + 1} \X pages
  IN /\ loads' = loads + 1
     /\ tasks' = [t \in DOMAIN tasks \cup started |->
                    IF t \notin started THEN Cancelled[t]
                    ELSE NewTask(stage = "layout", \A u \in DOMAIN tasks : PageOf(u) # PageOf(t))]

\* loadPageInteractive(), with the default settings of a page without any.
Load(p) ==
  /\ StartTasks({p})
  /\ items' = WithItem(items, p)
  /\ view' = NoView

SelectPage(p) ==
  /\ UserActs /\ ~batch /\ p \in exists
  /\ current' = p
  /\ Load(p) /\ CancelAll
  /\ UNCHANGED <<exists, box, stage, batch, thumbs, drawing>>

StartBatch ==
  /\ UserActs /\ ~batch /\ exists # {}
  /\ batch' = TRUE /\ view' = NoView
  /\ items' = [p \in DOMAIN items \cup exists |-> ItemOf(items, p)]
  /\ StartTasks(exists) /\ CancelAll
  /\ UNCHANGED <<exists, box, stage, current, thumbs, drawing>>

StopBatch ==
  /\ UserActs /\ batch
  /\ batch' = FALSE
  /\ Load(current) /\ CancelAll
  /\ UNCHANGED <<exists, box, stage, current, thumbs, drawing>>

\* CacheDrivenTask: what is known of a page is read, and when that is enough
\* written back, together with the content box.
Incomplete == -3
ReadForThumb(p) ==
  LET size == ItemOf(items, p).size IN
  /\ p \in drawing.left /\ drawing.reading = NoPage
  /\ IF box[p] = NoBox \/ p \notin DOMAIN items \/ (size <= 0 /\ box[p] > 0)
     THEN /\ thumbs' = [thumbs EXCEPT ![p] = Incomplete]
          /\ drawing' = [drawing EXCEPT !.left = @ \ {p}]
     ELSE /\ drawing' = [drawing EXCEPT !.left = @ \ {p}, !.reading = p, !.size = size]
          /\ UNCHANGED thumbs
  /\ UNCHANGED <<items, exists, box, stage, current, batch, tasks, view, crowded, unnoticed,
                 loads, events>>

DrawThumb ==
  LET p   == drawing.reading
      its == SetSize(items, p, drawing.size)
  IN /\ p # NoPage
     /\ items' = its
     /\ thumbs' = [thumbs EXCEPT ![p] = Aggregate(its)]
     /\ drawing' = [drawing EXCEPT !.reading = NoPage, !.size = Invalid]
     /\ unnoticed' = (unnoticed \/ Aggregate(its) # Aggregate(items))
     /\ UNCHANGED <<exists, box, stage, current, batch, tasks, view, crowded, loads, events>>

\* Then the page selected is loaded, when the list was reset or a batch ended.
LoadAfterDrawing ==
  /\ drawing.left = {} /\ drawing.reading = NoPage /\ drawing.then # NoPage
  /\ drawing' = Drawn
  /\ Load(drawing.then)
  /\ unnoticed' = (unnoticed \/ Aggregate(items') # Aggregate(items))
  /\ UNCHANGED <<exists, box, stage, current, batch, thumbs, crowded, events>>
-----------------------------------------------------------------------------
(* The user.                                                               *)

\* In the stage before: a content box is drawn, or does not fit the page any more.
ChangeBox(p, b) ==
  /\ UserActs /\ ~batch /\ stage = "content"
  /\ p \in exists /\ b # box[p] /\ (b # NoBox => view.page = p)
  /\ box' = [box EXCEPT ![p] = b]
  /\ UNCHANGED <<items, exists, stage, current, batch, tasks, view, thumbs, drawing,
                 crowded, unnoticed, loads>>

\* The stage is selected: items of pages that are gone are removed, and the boxes
\* propagated to the others.
OfExisting(its) == [p \in DOMAIN its \cap exists |-> its[p]]
OnlyKnown(its) ==   \* mutant of Propagated
  [p \in DOMAIN its \cup {q \in exists : box[q] # NoBox} |->
     IF p \in exists /\ box[p] # NoBox THEN [ItemOf(its, p) EXCEPT !.size = box[p]] ELSE its[p]]
Propagated(its) ==
  [p \in DOMAIN its \cup {q \in exists : box[q] # NoBox} |->
     [ItemOf(its, p) EXCEPT !.size = IF p \notin exists THEN @
                                     ELSE IF box[p] = NoBox THEN Invalid ELSE box[p]]]
SelectStage(s) ==
  /\ UserActs /\ ~batch /\ s # stage
  /\ stage' = s
  /\ items' = IF s = "layout" THEN Propagated(OfExisting(items)) ELSE items
  /\ thumbs' = [p \in Pages |-> Incomplete]
  /\ drawing' = Redraw(IF s = "layout" THEN exists ELSE {}, current)
  /\ tasks' = Cancelled /\ view' = NoView
  /\ crowded' = {PageOf(t) : t \in DOMAIN tasks} \cup {p \in crowded : s # "layout"}
  /\ unnoticed' = FALSE
  /\ UNCHANGED <<exists, box, current, batch, loads>>

\* The items of the pages are kept until the stage is selected again.
RemovePage(p) ==
  /\ UserActs /\ ~batch /\ p \in exists
  /\ exists' = exists \ {p}
  /\ IF exists' = {}
     THEN /\ current' = NoPage /\ view' = NoView /\ tasks' = Cancelled
          /\ UNCHANGED <<items, loads>>
     ELSE \E q \in exists' : current' = q /\ Load(q)
  /\ CancelAll
  /\ UNCHANGED <<box, stage, batch, thumbs, drawing>>

\* What the user does to the page shown.  Of the others all thumbnails are drawn
\* again when the aggregate size is seen to be another.
Edits(its, changed, nobody) ==
  /\ UserActs
  /\ items' = its
  /\ drawing' = Redraw(IF changed THEN exists ELSE {view.page}, NoPage)
  /\ unnoticed' = ((unnoticed /\ ~changed) \/ nobody)
  /\ UNCHANGED <<exists, box, stage, current, batch, thumbs, crowded>>
KeepsTasks == UNCHANGED <<tasks, loads>>

\* commitHardMargins() compares with the size it knew; setting margins by hand
\* ends automatic ones.
Commit(its) ==
  /\ Edits(its, Aggregate(its) # view.committed,
           Aggregate(its) = view.committed /\ Aggregate(its) # Aggregate(items))
  /\ view' = [view EXCEPT !.committed = Aggregate(its)]
SetHardMargins(m) ==
  /\ m # items[view.page].margins
  /\ Commit(SetMargins(SetAuto(items, view.page, FALSE), view.page, m))
  /\ KeepsTasks

\* setPageAlignment() compares the sizes before and after; what the view knew
\* stays as it was.
AlignmentChanged(aligned) ==
  LET its == SetAligned(items, view.page, aligned)
  IN /\ Edits(its, Aggregate(its) # Aggregate(items), FALSE)
     /\ view' = [view EXCEPT !.aligned = aligned]
     /\ KeepsTasks

AutoMarginsToggled(auto) ==
  LET p == view.page IN
  /\ UserActs
  /\ auto # items[p].auto
  /\ items' = SetAuto(items, p, auto)
  /\ StartTasks({p}) /\ CancelAll /\ view' = NoView
  /\ UNCHANGED <<exists, box, stage, current, batch, thumbs, drawing>>

\* Margins or alignment of the page shown are applied to the others.
Others == exists \ {view.page}
MarginsApplied(item) ==
  [p \in DOMAIN items \cup Others |->
     IF p \notin Others THEN items[p]
     ELSE [ItemOf(items, p) EXCEPT
             !.auto = item.auto,
             !.size = IF item.auto THEN Invalid ELSE @,
             !.margins = IF item.auto THEN @ ELSE item.margins]]
ApplyMargins ==
  LET its == MarginsApplied(items[view.page])
  IN /\ Edits(its, TRUE, FALSE)
     /\ view' = [view EXCEPT !.committed = Aggregate(its)]
     /\ KeepsTasks

AlignmentApplied(aligned) ==
  [p \in DOMAIN items \cup Others |->
     IF p \in Others THEN [ItemOf(items, p) EXCEPT !.aligned = aligned] ELSE items[p]]
ApplyAlignment ==
  /\ Edits(AlignmentApplied(view.aligned), TRUE, FALSE)
  /\ UNCHANGED view /\ KeepsTasks
MatchSizeToAllPages ==
  LET its == AlignmentApplied(TRUE)
  IN /\ Edits(its, TRUE, FALSE)
     /\ view' = [view EXCEPT !.aligned = TRUE, !.committed = Aggregate(its)]
     /\ KeepsTasks
-----------------------------------------------------------------------------
(* Tasks.                                                                  *)

Moved(t, task) == tasks' = [tasks EXCEPT ![t] = task]
Ended(ts)      == tasks' = [t \in DOMAIN tasks \ ts |-> tasks[t]]
Gui            == <<exists, stage, current, batch, view, thumbs, drawing, loads, events>>

\* select_content::Task reads what is stored of the page ...
Start(t) ==
  /\ tasks[t].pc = "start" /\ ~tasks[t].cancelled
  /\ Moved(t, [tasks[t] EXCEPT !.box = box[PageOf(t)], !.pc = "content"])
  /\ UNCHANGED <<items, box, crowded, unnoticed, Gui>>

\* ... finds a content box, unless there is one, and stores it all.
StoreContentBox(t) ==
  /\ tasks[t].pc = "content"
  /\ LET b == IF tasks[t].box = NoBox THEN FoundBox[PageOf(t)] ELSE tasks[t].box
     IN /\ box' = [box EXCEPT ![PageOf(t)] = b]
        /\ Moved(t, [tasks[t] EXCEPT !.box = b, !.pc = IF tasks[t].layout THEN "auto" ELSE "done"])
  /\ UNCHANGED <<items, crowded, unnoticed, Gui>>

\* page_layout::Task enters the critical section of Settings three times.
IsAuto(t) ==
  /\ tasks[t].pc = "auto" /\ ~tasks[t].cancelled
  /\ Moved(t, [tasks[t] EXCEPT !.pc = IF ItemOf(items, PageOf(t)).auto THEN "margins" ELSE "size"])
  /\ UNCHANGED <<items, box, crowded, unnoticed, Gui>>
SetAutoMargins(t) ==
  LET p   == PageOf(t)
      its == SetMargins(items, p, PageWidth[p] - tasks[t].box)
  IN /\ tasks[t].pc = "margins"
     /\ items' = its
     /\ unnoticed' = (unnoticed \/ Aggregate(its) # Aggregate(items))
     /\ Moved(t, [tasks[t] EXCEPT !.pc = "size"])
     /\ UNCHANGED <<box, crowded, Gui>>
NeverChanged(before, after) == FALSE   \* mutant of SizeChanged
SizeChanged(before, after)  == before # after
UpdateContentSize(t) ==
  LET p       == PageOf(t)
      its     == SetSize(items, p, tasks[t].box)
      changed == SizeChanged(Aggregate(items), Aggregate(its))
  IN /\ tasks[t].pc = "size"
     /\ items' = its
     /\ crowded' = IF tasks[t].cancelled \/ ~tasks[t].alone \/ drawing.reading = p
                   THEN crowded ELSE crowded \ {p}
     /\ unnoticed' = (unnoticed \/ (tasks[t].cancelled /\ Aggregate(its) # Aggregate(items)))
     /\ Moved(t, [tasks[t] EXCEPT !.changed = changed, !.pc = "done"])
     /\ UNCHANGED <<box, Gui>>

Drop(t) ==
  /\ tasks[t].cancelled
  /\ Ended({t})
  /\ UNCHANGED <<items, box, crowded, unnoticed, Gui>>

\* Task::UiUpdater in the GUI thread.  The last result ends a batch.
Deliver(t) ==
  LET p    == PageOf(t)
      last == batch /\ \A u \in DOMAIN tasks \ {t} : tasks[u].cancelled
  IN /\ Idle /\ tasks[t].pc = "done" /\ ~tasks[t].cancelled
     /\ Ended({t})
     /\ drawing' = Redraw(IF stage # "layout" THEN {} ELSE IF tasks[t].changed THEN exists ELSE {p},
                          IF last THEN current ELSE NoPage)
     /\ batch' = (batch /\ ~last)
     /\ view' = IF batch THEN NoView
                ELSE [page |-> p, aligned |-> ItemOf(items, p).aligned, committed |-> Aggregate(items)]
     /\ unnoticed' = (unnoticed /\ ~(stage = "layout" /\ tasks[t].changed))
     /\ UNCHANGED <<items, exists, box, stage, current, thumbs, crowded, loads, events>>
-----------------------------------------------------------------------------
\* A project is opened in the stage before: content boxes are known, or not, and
\* the page selected is about to be loaded.
Init ==
  /\ items = [p \in {} |-> DefaultItem]
  /\ exists = Pages
  /\ box \in [Pages -> Boxes \cup {NoBox}]
  /\ stage = "content" /\ batch = FALSE
  /\ current \in Pages
  /\ tasks = [t \in {} |-> NewTask(FALSE, TRUE)]
  /\ view = NoView
  /\ thumbs = [p \in Pages |-> Incomplete]
  /\ drawing = Redraw({}, current)
  /\ crowded = {} /\ unnoticed = FALSE
  /\ loads = 0 /\ events = 0

User ==
  \/ \E p \in Pages : SelectPage(p) \/ RemovePage(p)
  \/ StartBatch \/ StopBatch
  \/ \E p \in Pages, b \in Boxes \cup {NoBox} : ChangeBox(p, b)
  \/ \E s \in {"content", "layout"} : SelectStage(s)
  \/ /\ stage = "layout" /\ view.page # NoPage
     /\ \/ \E m \in Margins : SetHardMargins(m)
        \/ \E aligned \in BOOLEAN : AlignmentChanged(aligned)
        \/ \E auto \in BOOLEAN : AutoMarginsToggled(auto)
        \/ ApplyMargins \/ ApplyAlignment \/ MatchSizeToAllPages

GuiThread ==
  \/ \E p \in Pages : ReadForThumb(p)
  \/ DrawThumb \/ LoadAfterDrawing
  \/ \E t \in DOMAIN tasks : Deliver(t)

Worker(t) ==
  \/ Start(t) \/ StoreContentBox(t)
  \/ IsAuto(t) \/ SetAutoMargins(t) \/ UpdateContentSize(t)
  \/ Drop(t)

Next == User \/ GuiThread \/ \E t \in DOMAIN tasks : Worker(t)

Spec == Init /\ [][Next]_vars
-----------------------------------------------------------------------------
(* Properties.                                                             *)

\* The aggregate size is that of the largest page to match others, or none.
AggregateIsLargest ==
  LET matching == {p \in DOMAIN items : items[p].aligned}
      size     == Aggregate(items)
  IN /\ \A p \in matching : HardWidth(items[p]) <= size
     /\ IF matching = {} THEN size = 0 ELSE \E p \in matching : size = HardWidth(items[p])

\* When all thumbnails are drawn and no task is to tell of a change, they show
\* pages extended to the size that they would be extended to now.
ThumbsShowAggregate ==
  /\ stage = "layout" /\ Idle /\ ~unnoticed
  /\ ~\E t \in DOMAIN tasks : ~tasks[t].cancelled /\ tasks[t].changed
  => \A p \in exists \cap DOMAIN items :
       items[p].aligned /\ thumbs[p] # Incomplete => thumbs[p] = Aggregate(items)

\* The output is made with sizes of pages that are those of their content boxes,
\* as far as they are defined, unless cancelled tasks were still about.
DefinedIsCurrent ==
  stage = "layout" => \A p \in exists \ crowded : Defined(p) => items[p].size = box[p]
=============================================================================
