---------------------------- MODULE PageSplitting ----------------------------
(***************************************************************************)
(* How images become pages.  Three stores say how many pages an image has: *)
(* the settings of the page split stage (filters/page_split/Settings.cpp), *)
(* a record per image with the layout type asked for and the layout found; *)
(* the number of logical pages of each image and the halves the user       *)
(* removed (ProjectPages.cpp); and the list of thumbnails.  Worker threads *)
(* (page_split/Task.cpp) and the user (page_split/OptionsWidget.cpp, the   *)
(* stage list and the context menu of app/MainWindow.cpp) change them, and *)
(* the thumbnails, when created, copy the first store to the second        *)
(* (page_split/CacheDrivenTask.cpp).                                       *)
(*                                                                         *)
(* A handler of the GUI thread is one step.  A task is cut where it takes  *)
(* and gives back the mutex of a store.  Images are of the same size.      *)
(***************************************************************************)
EXTENDS Integers, FiniteSets

CONSTANTS
  Images, NoImage,
  Rotations,        \* the turns of an image by 90 degrees, 0 among them
  Detected,         \* the type of layout that is found in each image and turn
  Advised,          \* pages suggested by the proportions in each turn: 1 or 2
  LastStage,        \* stages: 1 orientation, 2 split pages, 3 and 4 of pages
  MaxUserActions,   \* bound: user actions in a behaviour
  MaxTasks          \* bound: tasks there are before a user action

Types       == {"uncut", "cut", "two"}     \* PageLayout::Type
LayoutTypes == Types \cup {"auto"}

ASSUME SplitAssumption ==
  /\ NoImage \notin Images
  /\ 0 \in Rotations /\ -1 \notin Rotations
  /\ Detected \in [Images \X Rotations -> Types]
  /\ Advised \in [Rotations -> {1, 2}]
  /\ LastStage \in 2..4
  /\ MaxUserActions \in Nat /\ MaxTasks \in Nat

VARIABLES
  records,      \* page_split::Settings: a record per image
  pages,        \* ProjectPages: pages of an image (0: not in the project),
                \* and which of its halves were removed
  rotation,     \* fix_orientation::Settings
  gui,          \* the stage, the selected image, the list of thumbnails, and
                \* the options panel of the stage with what it was last given
  tasks,        \* the tasks of the page being edited, by number of the user
                \* action that started them; all but the last are cancelled
  overtaken,    \* history: images whose settings were changed since their load
                \* by a cancelled task, by the dialog, or by the user while the
                \* task was still running
  userActions   \* user actions so far (bounded)

vars == <<records, pages, rotation, gui, tasks, overtaken, userActions>>
-----------------------------------------------------------------------------
(* Layouts and records.                                                    *)

\* What Params holds of a layout: its type, whether the cutters lie on the
\* border or cross (such a layout is really uncut), how the split line was
\* set, and the turn and layout type it was made for.
NoParams == [type |-> "none", edge |-> FALSE, mode |-> "auto", rot |-> 0, lt |-> "auto"]
NullUi   == [type |-> "uncut", edge |-> FALSE, mode |-> "auto", rot |-> -1, lt |-> "auto"]
NoRecord == [lt |-> "unset", params |-> NoParams]

HasParams(r)    == r.params # NoParams
CombinedType(r) == IF r.lt = "unset" THEN "auto" ELSE r.lt
Conflict(r)     == HasParams(r) /\ CombinedType(r) \notin {"auto", r.params.type}

CorrectedType(p) == IF p.edge THEN "uncut" ELSE p.type
PageCount(type)  == IF type = "two" THEN 2 ELSE 1

Compatible(rot, lt, p) ==
  /\ rot = p.rot
  /\ \/ lt = p.lt
     \/ lt = "uncut"
     \/ lt = "two" /\ p.mode = "manual"

\* updatePage(): a layout that conflicts with the type asked for is dropped.
KeepsParams(r) == r   \* mutant of Settled
Settled(r) == IF Conflict(r) THEN [r EXCEPT !.params = NoParams] ELSE r
WithType(r, lt)        == Settled([r EXCEPT !.lt = lt])
WithParams(r, p)       == Settled([r EXCEPT !.params = p])
WithBoth(r, lt, p)     == Settled([lt |-> lt, params |-> p])

\* conditionalUpdate() refuses what updatePage() would drop.
ConditionalUpdate(r, lt, p) ==
  LET new == [lt |-> lt, params |-> p] IN IF Conflict(new) THEN r ELSE new

\* estimatePageLayout().  The cutters of a single page are its borders.
IgnoresType(i, rot, lt) ==   \* mutant of Estimate
  [type |-> Detected[i, rot], edge |-> Detected[i, rot] = "uncut", mode |-> "auto",
   rot |-> rot, lt |-> lt]
Estimate(i, rot, lt) ==
  LET type == IF lt = "auto" THEN Detected[i, rot] ELSE lt
  IN [type |-> type, edge |-> type = "uncut", mode |-> "auto", rot |-> rot, lt |-> lt]
-----------------------------------------------------------------------------
(* ProjectPages.                                                           *)

Complete(n) == [n |-> n, left |-> FALSE, right |-> FALSE]
Gone == Complete(0)

Unadjusted(p, n) == n   \* mutant of Adjusted
Adjusted(p, n) == IF n = 2 /\ p.left # p.right THEN 1 ELSE n
SetPages(p, n) == IF p = Gone THEN p ELSE [p EXCEPT !.n = Adjusted(p, n)]

AnyLeft(n)  == n > 0
RemovePages(p, halves) ==
  LET left  == "left" \in halves
      right == "right" \in halves
      n     == IF "single" \in halves THEN 0
               ELSE p.n - Cardinality(halves \cap {"left", "right"})
  IN IF ~AnyLeft(n) THEN Gone
     ELSE [n |-> n, left |-> p.left \/ left, right |-> p.right \/ right]

CanUnremove(p, half) ==
  p.n = 1 /\ ((half = "left" /\ p.left) \/ (half = "right" /\ p.right))
Unremoved(p, half) ==
  IF half = "left" THEN [p EXCEPT !.n = 2, !.left = FALSE]
  ELSE [p EXCEPT !.n = 2, !.right = FALSE]

\* toPageSequence(): whole images up to the stage that splits them.
PageView(stage) == stage > 2
Halves(p) ==
  IF p.n = 2 THEN {"left", "right"}
  ELSE IF p.left # p.right THEN {IF p.left THEN "right" ELSE "left"}
  ELSE {"single"}
SubPages(p, stage) == IF p.n = 0 THEN {}
                      ELSE IF PageView(stage) THEN Halves(p) ELSE {"single"}
PageSequence(pgs, stage) ==
  UNION {{i} \X SubPages(pgs[i], stage) : i \in Images}

\* A thumbnail that is created tells ProjectPages about the layout on record.
SyncedPages(p, r, rot) ==
  IF HasParams(r) /\ Compatible(rot, CombinedType(r), r.params)
  THEN SetPages(p, PageCount(CorrectedType(r.params))) ELSE p
Listed(list) == {entry[1] : entry \in list}
SyncAll(pgs, recs, is) ==
  [i \in Images |-> IF i \in is THEN SyncedPages(pgs[i], recs[i], rotation[i])
                    ELSE pgs[i]]

\* pageOrientationUpdate(), unless the type was set by hand, or the layout on
\* record was made for this orientation.
Reoriented(p, i) ==
  LET r == records[i] IN
  IF r.lt \notin {"unset", "auto"} \/ (HasParams(r) /\ r.params.rot = rotation[i])
  THEN p ELSE SetPages(p, Advised[rotation[i]])
-----------------------------------------------------------------------------
(* The page being edited.                                                  *)

NewTask(i, stage) == [image |-> i, stage |-> stage, pc |-> "start", rot |-> 0,
                      record |-> NoRecord, data |-> NoParams, cancelled |-> FALSE]
CancelAll == [t \in DOMAIN tasks |-> [tasks[t] EXCEPT !.cancelled = TRUE]]

\* preUpdateUI(): the panel belongs to the image from now on, but keeps the
\* m_uiData of the image before.
StillEnabled(panel, i, rec) ==   \* mutant of PanelFor
  [panel EXCEPT !.rot = rotation[i],
                !.checked = IF CombinedType(rec) = "auto" THEN "none" ELSE rec.lt]
PanelFor(panel, i, rec) ==
  [panel EXCEPT !.rot = rotation[i], !.live = FALSE,
                !.checked = IF CombinedType(rec) = "auto" THEN "none" ELSE rec.lt]

\* loadPageInteractive(), with recs the records so far: default settings
\* for an image that has none, and a task in place of the one before.
Load(recs, i, g) ==
  LET loaded == IF recs[i] = NoRecord THEN WithType(NoRecord, "auto") ELSE recs[i]
  IN /\ records' = [recs EXCEPT ![i] = loaded]
     /\ gui' = [g EXCEPT !.selected = i, !.panel = PanelFor(@, i, loaded)]
     /\ tasks' = [t \in DOMAIN tasks \cup {userActions'} |->
                   IF t = userActions' THEN NewTask(i, g.stage) ELSE CancelAll[t]]
     /\ overtaken' = overtaken \ {i}
NothingToLoad(g) ==
  /\ gui' = [g EXCEPT !.selected = NoImage, !.panel.live = FALSE]
  /\ tasks' = CancelAll
  /\ UNCHANGED <<records, overtaken>>

UserActs ==
  /\ userActions < MaxUserActions
  /\ Cardinality(DOMAIN tasks) <= MaxTasks
  /\ userActions' = userActions + 1

\* Another page is selected, or the same one reloaded.
SelectPage(i) ==
  /\ UserActs
  /\ i \in Listed(gui.list)
  /\ \E j \in Images : pages[j] # Gone
  /\ Load(records, i, gui)
  /\ UNCHANGED <<pages, rotation>>

\* Fix orientation: the image is turned at once, and not reloaded.
Rotate(r) ==
  /\ UserActs
  /\ gui.stage = 1 /\ gui.selected # NoImage
  /\ r # gui.panel.rot
  /\ gui' = [gui EXCEPT !.panel.rot = r]
  /\ rotation' = [rotation EXCEPT ![gui.selected] = r]
  /\ UNCHANGED <<records, pages, tasks, overtaken>>

ApplyRotation(is) ==
  /\ UserActs
  /\ gui.stage = 1 /\ gui.selected # NoImage
  /\ rotation' = [i \in Images |-> IF i \in is THEN gui.panel.rot ELSE rotation[i]]
  /\ UNCHANGED <<records, pages, gui, tasks, overtaken>>
-----------------------------------------------------------------------------
(* The options panel of the page split stage.                              *)

AtSplit == gui.stage = 2 /\ gui.selected # NoImage
Current == gui.selected

\* setType() keeps the cutters.  Those of a whole page are on its border.
Retyped(ui, type, edge) == [ui EXCEPT !.type = type, !.edge = edge]
CanRetype(ui, type, edge) ==
  \/ edge = ui.edge
  \/ type = "two" /\ ui.type # "two" /\ ~(ui.type = "uncut" /\ ui.edge)

SetByHand(recs, i, count) ==
  SyncAll([pages EXCEPT ![i] = SetPages(@, count)], recs, {i})

ToggleLayoutType(lt, edge) ==
  LET ui     == gui.panel.ui
      new    == Retyped(ui, lt, edge)
      reload == lt = "cut" \/ (lt = "two" /\ ui.mode = "auto")
      chosen == [records EXCEPT ![Current] = WithType(@, lt)]
      drawn  == [records EXCEPT ![Current] = WithBoth(@, lt, new)]
      g      == [gui EXCEPT !.panel.checked = lt]
  IN /\ UserActs
     /\ AtSplit
     /\ lt # gui.panel.checked
     /\ UNCHANGED rotation
     /\ \/ /\ reload
           /\ edge = ui.edge
           /\ pages' = [pages EXCEPT ![Current] = SetPages(@, PageCount(lt))]
           /\ Load(chosen, Current, g)
        \/ /\ ~reload
           /\ CanRetype(ui, lt, edge)
           /\ records' = drawn
           /\ pages' = SetByHand(drawn, Current, PageCount(lt))
           /\ gui' = [g EXCEPT !.panel.ui = new]
           /\ overtaken' = IF gui.panel.live THEN overtaken
                           ELSE overtaken \cup {Current}
           /\ UNCHANGED tasks

\* The dialog applies the type of the current image, or "auto", to others as
\* well, and with "cut" its split line.  There the code keeps a pointer into
\* a record that has been destroyed: the turn it reads may be any.
ManualType == LET r == records[Current]
              IN IF CombinedType(r) = "auto" THEN r.params.type ELSE r.lt
AppliedCut(i, lt, edge, rot) ==
  LET line == records[Current].params
      type == IF edge THEN "uncut" ELSE line.type
  IN IF ~HasParams(records[i]) THEN WithBoth(records[i], lt, line)
     ELSE WithBoth(records[i], type,
                   [line EXCEPT !.type = type, !.edge = edge, !.rot = rot, !.lt = type])
Apply(is, lt, cut, edge, rot) ==
  LET applied(i) == IF cut /\ lt \notin {"uncut", "auto"} THEN AppliedCut(i, lt, edge, rot)
                    ELSE WithType(records[i], lt)
      recs == [i \in Images |-> IF i \in is THEN applied(i) ELSE records[i]]
      shown == IF Cardinality(is) > 1 THEN Listed(gui.list) ELSE is
  IN /\ UserActs
     /\ AtSplit
     /\ HasParams(records[Current])
     /\ gui.panel.live \/ gui.panel.checked # "none"
     /\ is # {} /\ is \subseteq Listed(gui.list)
     /\ lt \in {ManualType, "auto"}
     /\ pages' = SyncAll(pages, recs, shown)
     /\ IF lt = "auto" THEN Load(recs, gui.selected, gui)
        ELSE /\ records' = recs
             /\ overtaken' = IF cut THEN overtaken \cup {Current} ELSE overtaken
             /\ UNCHANGED <<gui, tasks>>
     /\ UNCHANGED rotation

SplitModeAuto ==
  /\ UserActs
  /\ AtSplit
  /\ gui.panel.live /\ gui.panel.ui.mode = "manual" /\ gui.panel.ui.type # "uncut"
  /\ Load([records EXCEPT ![Current] = WithParams(@, NoParams)], Current,
          [gui EXCEPT !.panel.ui.mode = "auto"])
  /\ UNCHANGED <<pages, rotation>>

\* The user drags the split line, or declares it to be manual.
Redrawn(ui, edge) == [ui EXCEPT !.mode = "manual", !.edge = edge]
MoveSplitLine(edge) ==
  LET new  == Redrawn(gui.panel.ui, edge)
      recs == [records EXCEPT ![Current] = WithParams(@, new)]
  IN /\ UserActs
     /\ AtSplit
     /\ gui.panel.live /\ gui.panel.ui.type # "uncut"
     /\ records' = recs
     /\ gui' = [gui EXCEPT !.panel.ui = new]
     /\ pages' = SyncAll(pages, recs, {Current})
     /\ UNCHANGED <<rotation, tasks, overtaken>>

\* The button in the view of the image that brings back a removed half.
Unremove(half) ==
  LET p == [pages EXCEPT ![Current] = Unremoved(@, half)]
  IN /\ UserActs
     /\ AtSplit
     /\ gui.panel.live
     /\ CanUnremove(pages[Current], half)
     /\ pages' = SyncAll(p, records, {Current})
     /\ UNCHANGED <<records, rotation, gui, tasks, overtaken>>
-----------------------------------------------------------------------------
(* The main window.                                                        *)

\* Pages are removed as they are listed; one of those left is selected.
RemoveFromProject(entries, i) ==
  LET halves(j) == {entry[2] : entry \in {e \in entries : e[1] = j}}
      left      == gui.list \ entries
      g         == [gui EXCEPT !.list = left]
  IN /\ UserActs
     /\ entries # {} /\ entries \subseteq gui.list
     /\ pages' = [j \in Images |-> IF halves(j) = {} THEN pages[j]
                                   ELSE RemovePages(pages[j], halves(j))]
     /\ IF left = {} \/ \A j \in Images : pages'[j] = Gone
        THEN i = NoImage /\ NothingToLoad(g)
        ELSE i \in Listed(left) /\ Load(records, i, g)
     /\ UNCHANGED rotation

InsertImage(i) ==
  /\ UserActs
  /\ pages[i] = Gone
  /\ pages' = [pages EXCEPT ![i] = Complete(Advised[0])]
  /\ gui' = [gui EXCEPT !.list = @ \cup {i} \X SubPages(pages'[i], gui.stage)]
  /\ UNCHANGED <<records, rotation, tasks, overtaken>>

\* Content boxes and orientations are propagated, the list is made anew, then
\* its thumbnails are created.
Propagated(from, to) ==
  LET boxes == IF from < 4 /\ to >= 4 THEN SyncAll(pages, records, Images) ELSE pages
  IN IF from = 1 /\ to > 1 THEN [i \in Images |-> Reoriented(boxes[i], i)] ELSE boxes
SwitchStage(stage) ==
  LET pgs  == Propagated(gui.stage, stage)
      list == PageSequence(pgs, stage)
      g    == [gui EXCEPT !.stage = stage, !.list = list]
  IN /\ UserActs
     /\ stage # gui.stage
     /\ pages' = IF stage = 1 THEN pgs ELSE SyncAll(pgs, records, Listed(list))
     /\ IF gui.selected \in Listed(list) THEN Load(records, gui.selected, g)
        ELSE NothingToLoad(g)
     /\ UNCHANGED rotation

\* The project is saved, closed and opened.  A record without a layout is not
\* written, so that the type asked for is forgotten with it.
Saved(r)      == IF HasParams(r) THEN r ELSE NoRecord
Normalised(p) == IF p.n = 2 \/ (p.left /\ p.right)
                 THEN [p EXCEPT !.left = FALSE, !.right = FALSE] ELSE p
SaveAndReopen(i) ==
  LET recs == [j \in Images |-> IF pages[j] = Gone THEN NoRecord ELSE Saved(records[j])]
      pgs  == [j \in Images |-> Normalised(pages[j])]
      list == PageSequence(pgs, 1)
      g    == [stage |-> 1, selected |-> i, list |-> list,
               panel |-> [gui.panel EXCEPT !.live = FALSE]]
  IN /\ UserActs
     /\ gui.selected # NoImage
     /\ i \in Listed(list)
     /\ pages' = pgs
     /\ Load(recs, i, g)
     /\ UNCHANGED rotation
-----------------------------------------------------------------------------
(* A task, in a worker thread.                                             *)

Moved(t, change) == tasks' = [tasks EXCEPT ![t] = change]
Unused == <<rotation, gui, userActions>>

\* fix_orientation::Task: the image is turned as the settings say then.
ReadRotation(t) ==
  /\ tasks[t].pc = "start"
  /\ Moved(t, [tasks[t] EXCEPT !.rot = rotation[tasks[t].image],
                               !.pc = IF tasks[t].stage = 1 THEN "posted" ELSE "turned"])
  /\ UNCHANGED <<records, pages, overtaken, Unused>>

ReadRecord(t) ==
  /\ tasks[t].pc = "turned"
  /\ Moved(t, [tasks[t] EXCEPT !.record = records[tasks[t].image], !.pc = "decide",
                               !.data.lt = CombinedType(records[tasks[t].image])])
  /\ UNCHANGED <<records, pages, overtaken, Unused>>

\* What a task makes of the record it has read.  A layout that was made for
\* another turn is adapted, unless it was detected: then it is estimated anew,
\* as is one that is missing.  Of any other, only a degenerate type is wrong.
IsCurrent(task) ==
  HasParams(task.record) /\ Compatible(task.rot, task.data.lt, task.record.params)
IsRight(task) ==
  IsCurrent(task) /\ CorrectedType(task.record.params) = task.record.params.type
IsEstimated(task) ==
  \/ ~HasParams(task.record)
  \/ ~IsCurrent(task) /\ CombinedType(task.record) = "auto"

Whole(task)   == [task.record.params EXCEPT !.type = "uncut", !.rot = task.rot, !.lt = "uncut"]
Adapted(task, edge) ==
  LET p    == task.record.params
      type == IF p.rot # task.rot /\ edge THEN "uncut" ELSE p.type
  IN [p EXCEPT !.type = type, !.edge = IF p.rot = task.rot THEN @ ELSE edge,
               !.rot = task.rot, !.lt = type]
NewParams(task, edge) ==
  IF IsEstimated(task)
  THEN Estimate(task.image, task.rot, CombinedType(task.record))
  ELSE IF IsCurrent(task) THEN Whole(task) ELSE Adapted(task, edge)

\* uiData, from the record that was settled on.
UiData(task, lt, r) == [r.params EXCEPT !.rot = task.rot, !.lt = lt]
Overtakes(task) == IF task.cancelled THEN overtaken \cup {task.image} ELSE overtaken

Decide(t, edge) ==
  LET task == tasks[t]
      i    == task.image
      new  == NewParams(task, edge)
      r    == ConditionalUpdate(records[i], new.lt, new)
  IN /\ task.pc = "decide"
     /\ \/ /\ IsRight(task)
           /\ Moved(t, [task EXCEPT !.pc = "split",
                                    !.data = UiData(task, @.lt, task.record)])
           /\ UNCHANGED <<records, overtaken>>
        \/ /\ ~IsRight(task)
           /\ records' = [records EXCEPT ![i] = r]
           /\ overtaken' = Overtakes(task)
           /\ Moved(t, [task EXCEPT !.record = r, !.data = UiData(task, new.lt, r),
                                    !.pc = IF HasParams(r) THEN "split" ELSE "decide"])
     /\ UNCHANGED <<pages, Unused>>

SplitImage(t) ==
  LET task == tasks[t] IN
  /\ task.pc = "split"
  /\ pages' = [pages EXCEPT ![task.image] = SetPages(@, PageCount(task.data.type))]
  /\ overtaken' = Overtakes(task)
  /\ Moved(t, [task EXCEPT !.pc = "posted"])
  /\ UNCHANGED <<records, Unused>>

\* A cancelled task ends where it looks at the flag, or its result is ignored.
Drop(t) ==
  /\ tasks[t].cancelled
  /\ \/ tasks[t].pc \in {"start", "turned", "posted"}
     \/ tasks[t].pc = "decide" /\ IsEstimated(tasks[t])
  /\ tasks' = [u \in DOMAIN tasks \ {t} |-> tasks[u]]
  /\ UNCHANGED <<records, pages, overtaken, Unused>>

\* updateUI(), in the GUI thread.
Deliver(t) ==
  LET task == tasks[t]
      i    == task.image
  IN /\ task.pc = "posted" /\ ~task.cancelled
     /\ tasks' = [u \in DOMAIN tasks \ {t} |-> tasks[u]]
     /\ \/ /\ task.stage = 1
           /\ rotation' = [rotation EXCEPT ![i] = task.rot]
           /\ gui' = [gui EXCEPT !.panel.rot = task.rot]
           /\ UNCHANGED pages
        \/ /\ task.stage = 2
           /\ gui' = [gui EXCEPT !.panel.ui = task.data, !.panel.live = TRUE,
                                 !.panel.checked = task.data.type]
           /\ pages' = SyncAll(pages, records, {i} \cap Listed(gui.list))
           /\ UNCHANGED rotation
        \/ /\ task.stage > 2
           /\ pages' = SyncAll(pages, records, {i} \cap Listed(gui.list))
           /\ UNCHANGED <<rotation, gui>>
     /\ UNCHANGED <<records, overtaken, userActions>>
-----------------------------------------------------------------------------
\* A project is opened and one of its images is about to be loaded.  It is a
\* new one, or that image was a spread of which one half was removed.
Fresh(i)   == [lt |-> "auto", params |-> NoParams]
Spread(i)  == [lt |-> "auto", params |-> Estimate(i, 0, "auto")]
Init ==
  \E i \in Images :
    /\ \/ /\ records = [j \in Images |-> IF j = i THEN Fresh(i) ELSE NoRecord]
          /\ pages = [j \in Images |-> Complete(Advised[0])]
       \/ /\ Detected[i, 0] = "two"
          /\ records = [j \in Images |-> IF j = i THEN Spread(i) ELSE NoRecord]
          /\ pages = [j \in Images |-> IF j = i THEN [n |-> 1, left |-> TRUE, right |-> FALSE]
                                       ELSE Complete(Advised[0])]
    /\ rotation = [j \in Images |-> 0]
    /\ gui = [stage |-> 1, selected |-> i, list |-> Images \X {"single"},
              panel |-> [rot |-> 0, checked |-> "none", ui |-> NullUi, live |-> FALSE]]
    /\ tasks = [t \in {0} |-> NewTask(i, 1)]
    /\ overtaken = {}
    /\ userActions = 0

Options ==
  \/ \E r \in Rotations : Rotate(r)
  \/ \E is \in SUBSET Images : ApplyRotation(is)
  \/ \E lt \in Types, edge \in BOOLEAN : ToggleLayoutType(lt, edge)
  \/ \E is \in SUBSET Images, lt \in LayoutTypes, cut, edge \in BOOLEAN, rot \in Rotations :
       Apply(is, lt, cut, edge, rot)
  \/ SplitModeAuto
  \/ \E edge \in BOOLEAN : MoveSplitLine(edge)
  \/ \E half \in {"left", "right"} : Unremove(half)

Window ==
  \/ \E i \in Images : SelectPage(i) \/ InsertImage(i) \/ SaveAndReopen(i)
  \/ \E entries \in SUBSET gui.list, i \in Images \cup {NoImage} :
       RemoveFromProject(entries, i)
  \/ \E stage \in 1..LastStage : SwitchStage(stage)

Works(t) ==
  \/ ReadRotation(t)
  \/ ReadRecord(t)
  \/ \E edge \in BOOLEAN : Decide(t, edge)
  \/ SplitImage(t)
  \/ Drop(t)

Next ==
  \/ Options
  \/ Window
  \/ \E t \in DOMAIN tasks : Works(t) \/ Deliver(t)

Spec == Init /\ [][Next]_vars

\* Threads run, and the GUI thread handles its events.
Fairness == \A t \in 0..MaxUserActions :
              WF_vars(t \in DOMAIN tasks /\ (Works(t) \/ Deliver(t)))
FairSpec == Spec /\ Fairness
-----------------------------------------------------------------------------
(* Properties.                                                             *)

\* Whatever the user, the tasks and the dialog write, and in whatever order,
\* no layout is on record that contradicts the layout type asked for.
NoConflictStored == \A i \in Images : ~Conflict(records[i])

\* "Both can't be true, and if one is true, then numLogicalPages is 1": of the
\* two halves of an image at most one is removed, and what is left is a page.
HalvesSound ==
  \A i \in Images :
    /\ ~(pages[i].left /\ pages[i].right)
    /\ pages[i].left \/ pages[i].right => pages[i].n = 1

\* What the page split panel shows of an image is what is on record, and the
\* image has that many pages, unless the record was overtaken.
ShownIsStored ==
  AtSplit /\ gui.panel.live /\ Current \notin overtaken =>
    LET r  == records[Current]
        ui == gui.panel.ui
    IN /\ HasParams(r)
       /\ <<r.params.type, r.params.edge, r.params.mode>> = <<ui.type, ui.edge, ui.mode>>
       /\ pages[Current] = SyncedPages(pages[Current], r, rotation[Current])

\* "If it didn't, it's a bug which will in fact cause a dead loop": a task does
\* not retry for ever.
NoDeadLoop == \A t \in 0..MaxUserActions : t \in DOMAIN tasks ~> t \notin DOMAIN tasks

\* "The record was updated by another thread somewhere between getPageRecord()
\* and conditionalUpdate() ... we need to process this page again for the new
\* layout type": a layout type that the user chose in between is kept.
Chosen(t) == tasks[t].pc = "decide" /\ records[tasks[t].image].lt # tasks[t].record.lt
ReprocessedForNewLayout ==
  [][ \A t \in DOMAIN tasks :
        Chosen(t) /\ userActions' = userActions /\ ~(t \in DOMAIN tasks' /\ tasks'[t] = tasks[t])
          => records'[tasks[t].image].lt = records[tasks[t].image].lt ]_vars
=============================================================================
