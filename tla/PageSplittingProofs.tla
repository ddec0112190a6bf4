------------------------- MODULE PageSplittingProofs -------------------------
(***************************************************************************)
(* Proofs about page splitting, for any set of images, whatever is found   *)
(* in them, and any number of user actions and tasks.                      *)
(*                                                                         *)
(* No property is inductive.  A record is written from records and the     *)
(* number of pages from rotations that tasks and the panel carry about, so *)
(* the invariant Inv also says where these come from.  For what is shown,  *)
(* Agreed follows the one task that is not cancelled.                      *)
(***************************************************************************)
EXTENDS PageSplitting, FiniteSetTheorems, TLAPS

Clean(r) == DOMAIN r = {"lt", "params"} /\ ~Conflict(r)
RecordsClean(recs) == DOMAIN recs = Images /\ \A i \in Images : Clean(recs[i])

PageType == [n : 0..2, left : BOOLEAN, right : BOOLEAN]
Sound(p) ==
  /\ p \in PageType
  /\ ~(p.left /\ p.right)
  /\ p.left \/ p.right => p.n = 1
PagesSound(pgs) == pgs \in [Images -> PageType] /\ \A i \in Images : Sound(pgs[i])

\* The panel shows a turn there is, and what is listed or selected exists.
GuiSound(g) ==
  /\ DOMAIN g = {"stage", "selected", "list", "panel"}
  /\ DOMAIN g.panel = {"rot", "checked", "ui", "live"}
  /\ g.panel.rot \in Rotations
  /\ g.selected \in Images \cup {NoImage}
  /\ g.list \subseteq Images \X {"single", "left", "right"}

TaskSound(task) ==
  /\ {"image", "rot"} \subseteq DOMAIN task
  /\ task.image \in Images /\ task.rot \in Rotations
TasksSound(ts)  == \A t \in DOMAIN ts : TaskSound(ts[t])

Inv ==
  /\ RecordsClean(records)
  /\ PagesSound(pages)
  /\ rotation \in [Images -> Rotations]
  /\ GuiSound(gui)
  /\ TasksSound(tasks)
-----------------------------------------------------------------------------
(* What is written into records.                                           *)

\* updatePage() leaves no conflict, whatever it is given.
LEMMA SettledIsClean ==
  ASSUME NEW r, DOMAIN r = {"lt", "params"}
  PROVE  Clean(Settled(r))
<1>1. CASE Conflict(r)
  <2>1. Settled(r) = [r EXCEPT !.params = NoParams]
    BY <1>1 DEF Settled
  <2>2. DOMAIN Settled(r) = {"lt", "params"} /\ Settled(r).params = NoParams
    BY <2>1
  <2> QED BY <2>2 DEF Clean, Conflict, HasParams
<1>2. CASE ~Conflict(r)
  BY <1>2 DEF Settled, Clean
<1> QED BY <1>1, <1>2

\* Whichever way the settings are updated, the record written is clean.
LEMMA UpdatesAreClean ==
  ASSUME NEW r, Clean(r), NEW lt, NEW p
  PROVE  /\ Clean(WithType(r, lt))
         /\ Clean(WithParams(r, p))
         /\ Clean(WithBoth(r, lt, p))
         /\ Clean(ConditionalUpdate(r, lt, p))
<1>1. DOMAIN r = {"lt", "params"}
  BY DEF Clean
<1>2. DOMAIN [r EXCEPT !.lt = lt] = {"lt", "params"}
  BY <1>1
<1>3. DOMAIN [r EXCEPT !.params = p] = {"lt", "params"}
  BY <1>1
<1>4. DOMAIN [lt |-> lt, params |-> p] = {"lt", "params"}
  OBVIOUS
<1>5. Clean(WithType(r, lt))
  BY <1>2, SettledIsClean DEF WithType
<1>6. Clean(WithParams(r, p))
  BY <1>3, SettledIsClean DEF WithParams
<1>7. Clean(WithBoth(r, lt, p))
  BY <1>4, SettledIsClean DEF WithBoth
<1>8. Clean(ConditionalUpdate(r, lt, p))
  BY <1>4 DEF ConditionalUpdate, Clean
<1> QED BY <1>5, <1>6, <1>7, <1>8

\* So is what the dialog applies to an image, with the cut of another.
LEMMA AppliedCutIsClean ==
  ASSUME Inv, NEW i \in Images, NEW lt, NEW edge, NEW rot
  PROVE  Clean(AppliedCut(i, lt, edge, rot))
<1>1. Clean(records[i])
  BY DEF Inv, RecordsClean
<1> QED BY <1>1, UpdatesAreClean DEF AppliedCut

\* A project that is opened has no conflicting records.
LEMMA InitialRecordsAreClean ==
  /\ Clean(NoRecord)
  /\ \A i \in Images : Clean(Fresh(i)) /\ Clean(Spread(i))
<1>1. Clean(NoRecord)
  BY DEF Clean, NoRecord, Conflict, HasParams
<1>2. ASSUME NEW i \in Images PROVE Clean(Fresh(i))
  BY DEF Clean, Fresh, Conflict, HasParams
<1>3. ASSUME NEW i \in Images PROVE Clean(Spread(i))
  BY DEF Clean, Spread, Conflict, CombinedType
<1> QED BY <1>1, <1>2, <1>3

\* One record is replaced; that of an image there is not changes nothing.
LEMMA OneRecordReplaced ==
  ASSUME NEW recs, RecordsClean(recs), NEW i, NEW r, i \in Images => Clean(r)
  PROVE  RecordsClean([recs EXCEPT ![i] = r])
BY DEF RecordsClean
-----------------------------------------------------------------------------
(* What is written into pages.                                             *)

\* A layout makes one page of an image, or two.
LEMMA CountIsOneOrTwo == \A type : PageCount(type) \in {1, 2}
BY DEF PageCount

\* The number of pages follows the layout, unless a half was removed.
LEMMA SetPagesSound ==
  ASSUME NEW p, Sound(p), NEW n \in {1, 2}
  PROVE  Sound(SetPages(p, n))
<1>1. CASE p = Gone
  BY <1>1 DEF SetPages
<1>2. CASE p # Gone
  <2>1. SetPages(p, n) = [p EXCEPT !.n = Adjusted(p, n)]
    BY <1>2 DEF SetPages
  <2>2. Adjusted(p, n) \in 1..2
    BY DEF Adjusted
  <2>3. p.left # p.right => Adjusted(p, n) = 1
    BY DEF Adjusted
  <2> QED BY <2>1, <2>2, <2>3 DEF Sound, PageType
<1> QED BY <1>1, <1>2


\* No half of the image was removed.
LEMMA CompleteIsSound ==
  ASSUME NEW n \in 0..2
  PROVE  Sound(Complete(n))
BY DEF Sound, PageType, Complete

\* A page made of sound parts is sound.
LEMMA MadePageIsSound ==
  ASSUME NEW n \in 0..2, NEW l \in BOOLEAN, NEW r \in BOOLEAN,
         ~(l /\ r), l \/ r => n = 1
  PROVE  Sound([n |-> n, left |-> l, right |-> r])
BY DEF Sound, PageType

\* Whichever halves are taken away, what is left is sound, or nothing is left.
LEMMA RemovePagesSound ==
  ASSUME NEW p, Sound(p), NEW halves
  PROVE  Sound(RemovePages(p, halves))
<1> DEFINE both == halves \cap {"left", "right"}
           n == IF "single" \in halves THEN 0 ELSE p.n - Cardinality(both)
<1>1. p.n \in 0..2 /\ p.left \in BOOLEAN /\ p.right \in BOOLEAN
  BY DEF Sound, PageType
<1>2. /\ both = {} => Cardinality(both) = 0
      /\ both = {"left"} => Cardinality(both) = 1
      /\ both = {"right"} => Cardinality(both) = 1
      /\ both = {"left", "right"} => Cardinality(both) = 2
  <2>1. IsFiniteSet({"left"}) /\ Cardinality({"left"}) = 1 /\ Cardinality({"right"}) = 1
    BY FS_Singleton
  <2>2. Cardinality({"left"} \cup {"right"}) = 2
    BY <2>1, FS_AddElement
  <2>3. {"left"} \cup {"right"} = {"left", "right"}
    OBVIOUS
  <2> QED BY <2>1, <2>2, <2>3, FS_EmptySet
<1>3. \/ both = {} /\ "left" \notin halves /\ "right" \notin halves
      \/ both = {"left"} /\ "left" \in halves /\ "right" \notin halves
      \/ both = {"right"} /\ "left" \notin halves /\ "right" \in halves
      \/ both = {"left", "right"} /\ "left" \in halves /\ "right" \in halves
  OBVIOUS
<1>4. n \in Int /\ n <= p.n
  BY <1>1, <1>2, <1>3
<1>5. CASE ~AnyLeft(n)
  BY <1>5, CompleteIsSound DEF RemovePages, Gone
<1>6. CASE AnyLeft(n)
  <2>1. RemovePages(p, halves) =
          [n |-> n, left |-> p.left \/ "left" \in halves, right |-> p.right \/ "right" \in halves]
    BY <1>6 DEF RemovePages
  <2>2. n \in 1..2
    BY <1>1, <1>4, <1>6 DEF AnyLeft
  <2>3. n = p.n - Cardinality(both)
    BY <2>2
  <2>4. ~((p.left \/ "left" \in halves) /\ (p.right \/ "right" \in halves))
    BY <1>1, <1>2, <1>3, <2>2, <2>3 DEF Sound
  <2>5. (p.left \/ "left" \in halves) \/ (p.right \/ "right" \in halves) => n = 1
    BY <1>1, <1>2, <1>3, <2>2, <2>3 DEF Sound
  <2>6. (p.left \/ "left" \in halves) \in BOOLEAN /\ (p.right \/ "right" \in halves) \in BOOLEAN
    OBVIOUS
  <2>7. n \in 0..2
    BY <2>2
  <2> HIDE DEF n
  <2> QED BY <2>1, <2>4, <2>5, <2>6, <2>7, MadePageIsSound
<1> QED BY <1>5, <1>6

\* A half that is brought back completes the image.
LEMMA UnremovedSound ==
  ASSUME NEW p, Sound(p), NEW half \in {"left", "right"}, CanUnremove(p, half)
  PROVE  Sound(Unremoved(p, half))
<1>1. p.left \in BOOLEAN /\ p.right \in BOOLEAN /\ p = [n |-> p.n, left |-> p.left, right |-> p.right]
  BY DEF Sound, PageType
<1>2. CASE half = "left"
  <2>1. p.right = FALSE
    BY <1>1, <1>2 DEF Sound, CanUnremove
  <2>2. Unremoved(p, half) = [n |-> 2, left |-> FALSE, right |-> FALSE]
    BY <1>1, <1>2, <2>1 DEF Unremoved
  <2> QED BY <2>2, CompleteIsSound DEF Complete
<1>3. CASE half = "right"
  <2>1. p.left = FALSE
    BY <1>1, <1>3 DEF Sound, CanUnremove
  <2>2. Unremoved(p, half) = [n |-> 2, left |-> FALSE, right |-> FALSE]
    BY <1>1, <1>3, <2>1 DEF Unremoved
  <2> QED BY <2>2, CompleteIsSound DEF Complete
<1> QED BY <1>2, <1>3

\* Reading a project back keeps pages sound.
LEMMA NormalisedSound ==
  ASSUME NEW p, Sound(p)
  PROVE  Sound(Normalised(p))
<1>1. p.n \in 0..2 /\ p = [n |-> p.n, left |-> p.left, right |-> p.right]
  BY DEF Sound, PageType
<1>2. CASE p.n = 2 \/ (p.left /\ p.right)
  <2>1. Normalised(p) = [n |-> p.n, left |-> FALSE, right |-> FALSE]
    BY <1>1, <1>2 DEF Normalised
  <2> QED BY <1>1, <2>1, MadePageIsSound
<1>3. CASE ~(p.n = 2 \/ (p.left /\ p.right))
  BY <1>3 DEF Normalised
<1> QED BY <1>2, <1>3

\* So does a thumbnail that tells of the layout on record,
LEMMA SyncedSound ==
  ASSUME NEW p, Sound(p), NEW r, NEW rot
  PROVE  Sound(SyncedPages(p, r, rot))
BY SetPagesSound, CountIsOneOrTwo DEF SyncedPages

\* and any number of them.
LEMMA SyncAllSound ==
  ASSUME NEW pgs, PagesSound(pgs), NEW recs, NEW is
  PROVE  PagesSound(SyncAll(pgs, recs, is))
<1>1. ASSUME NEW i \in Images PROVE Sound(SyncAll(pgs, recs, is)[i])
  BY SyncedSound DEF SyncAll, PagesSound
<1>2. SyncAll(pgs, recs, is) \in [Images -> PageType]
  BY <1>1 DEF SyncAll, Sound
<1> QED BY <1>1, <1>2 DEF PagesSound

\* One image is changed; one that is not there changes nothing.
LEMMA OneImageChanged ==
  ASSUME NEW pgs, PagesSound(pgs), NEW i, NEW p, i \in Images => Sound(p)
  PROVE  PagesSound([pgs EXCEPT ![i] = p])
BY DEF PagesSound, Sound

\* What the change of stage propagates to the pages.
LEMMA PropagatedSound ==
  ASSUME Inv, NEW from, NEW to
  PROVE  PagesSound(Propagated(from, to))
<1> DEFINE boxes == IF from < 4 /\ to >= 4 THEN SyncAll(pages, records, Images) ELSE pages
<1>1. PagesSound(boxes)
  BY SyncAllSound DEF Inv
<1>2. ASSUME NEW i \in Images PROVE Sound(Reoriented(boxes[i], i))
  <2>1. Sound(boxes[i])
    BY <1>1 DEF PagesSound
  <2>2. Advised[rotation[i]] \in {1, 2}
    BY SplitAssumption DEF Inv
  <2> HIDE DEF boxes
  <2> QED BY <2>1, <2>2, SetPagesSound DEF Reoriented
<1>3. PagesSound([i \in Images |-> Reoriented(boxes[i], i)])
  <2> HIDE DEF boxes
  <2> QED BY <1>2 DEF PagesSound, Sound
<1> QED BY <1>1, <1>3 DEF Propagated
-----------------------------------------------------------------------------
(* The page being edited.                                                  *)

\* Cancelling changes nothing but the flag.
LEMMA CancelledTasksSound ==
  ASSUME Inv
  PROVE  TasksSound(CancelAll)
BY DEF Inv, TasksSound, TaskSound, CancelAll

\* A task starts with an image of the project, upright.
LEMMA NewTaskSound ==
  ASSUME NEW i \in Images, NEW stage
  PROVE  TaskSound(NewTask(i, stage))
BY SplitAssumption DEF TaskSound, NewTask

\* The panel is given the turn of the image to be loaded.
LEMMA PanelSound ==
  ASSUME Inv, NEW g, GuiSound(g), NEW i \in Images, NEW rec
  PROVE  GuiSound([g EXCEPT !.selected = i, !.panel = PanelFor(@, i, rec)])
<1> DEFINE panel == PanelFor(g.panel, i, rec)
<1>1. rotation[i] \in Rotations
  BY DEF Inv
<1>2. DOMAIN panel = {"rot", "checked", "ui", "live"} /\ panel.rot = rotation[i]
  BY DEF GuiSound, PanelFor
<1>3. [g EXCEPT !.selected = i, !.panel = PanelFor(@, i, rec)] = [g EXCEPT !.selected = i, !.panel = panel]
  BY DEF GuiSound
<1> HIDE DEF panel
<1> QED BY <1>1, <1>2, <1>3 DEF GuiSound

\* Loading an image writes a default record, updates the panel, and replaces
\* the task.
LEMMA LoadKeeps ==
  ASSUME Inv, NEW recs, RecordsClean(recs), NEW i \in Images, NEW g, GuiSound(g),
         Load(recs, i, g)
  PROVE  RecordsClean(records') /\ GuiSound(gui') /\ TasksSound(tasks')
<1> DEFINE loaded == IF recs[i] = NoRecord THEN WithType(NoRecord, "auto") ELSE recs[i]
<1>1. Clean(loaded)
  BY InitialRecordsAreClean, UpdatesAreClean DEF RecordsClean
<1>2. /\ records' = [recs EXCEPT ![i] = loaded]
      /\ gui' = [g EXCEPT !.selected = i, !.panel = PanelFor(@, i, loaded)]
      /\ tasks' = [t \in DOMAIN tasks \cup {userActions'} |->
                    IF t = userActions' THEN NewTask(i, g.stage) ELSE CancelAll[t]]
  BY DEF Load
<1> HIDE DEF loaded
<1>3. RecordsClean(records')
  BY <1>1, <1>2, OneRecordReplaced
<1>4. GuiSound(gui')
  BY <1>2, PanelSound
<1>5. TasksSound(tasks')
  BY <1>2, CancelledTasksSound, NewTaskSound DEF TasksSound, CancelAll
<1> QED BY <1>3, <1>4, <1>5

\* Selecting a page loads it.
LEMMA SelectPageKeeps ==
  ASSUME Inv, NEW i \in Images, SelectPage(i)
  PROVE  Inv'
<1>1. Load(records, i, gui) /\ UNCHANGED <<pages, rotation>>
  BY DEF SelectPage
<1> QED BY <1>1, LoadKeeps DEF Inv

\* Only turns there are can be chosen,
LEMMA RotateKeeps ==
  ASSUME Inv, NEW r \in Rotations, Rotate(r)
  PROVE  Inv'
<1>1. rotation' \in [Images -> Rotations]
  BY DEF Inv, Rotate
<1>2. GuiSound(gui')
  BY DEF Inv, Rotate, GuiSound
<1> QED BY <1>1, <1>2 DEF Inv, Rotate

\* or applied to other images.
LEMMA ApplyRotationKeeps ==
  ASSUME Inv, NEW is, ApplyRotation(is)
  PROVE  Inv'
BY DEF Inv, ApplyRotation, GuiSound
-----------------------------------------------------------------------------
(* The options panel.                                                      *)

\* The options are about an image of the project.
LEMMA CurrentImage == ASSUME Inv, AtSplit PROVE Current \in Images
BY DEF Inv, GuiSound, AtSplit, Current

\* A layout type set by hand decides how many pages there are.
LEMMA SetByHandSound ==
  ASSUME Inv, NEW recs, NEW i \in Images, NEW n \in {1, 2}
  PROVE  /\ PagesSound([pages EXCEPT ![i] = SetPages(@, n)])
         /\ PagesSound(SetByHand(recs, i, n))
<1>1. Sound(SetPages(pages[i], n))
  BY SetPagesSound DEF Inv, PagesSound
<1>2. PagesSound([pages EXCEPT ![i] = SetPages(@, n)])
  BY <1>1, OneImageChanged DEF Inv
<1> QED BY <1>2, SyncAllSound DEF SetByHand

\* Choosing a layout type either loads the image anew, or keeps its cutters and
\* writes them with that type.
LEMMA ToggleLayoutTypeKeeps ==
  ASSUME Inv, NEW lt, NEW edge, ToggleLayoutType(lt, edge)
  PROVE  Inv'
<1> DEFINE ui     == gui.panel.ui
           new    == Retyped(ui, lt, edge)
           chosen == [records EXCEPT ![Current] = WithType(@, lt)]
           drawn  == [records EXCEPT ![Current] = WithBoth(@, lt, new)]
           g      == [gui EXCEPT !.panel.checked = lt]
<1>1. Current \in Images /\ Clean(records[Current])
  BY CurrentImage DEF ToggleLayoutType, Inv, RecordsClean
<1>2. RecordsClean(chosen) /\ RecordsClean(drawn)
  <2> HIDE DEF new
  <2>1. Clean(WithType(records[Current], lt)) /\ Clean(WithBoth(records[Current], lt, new))
    BY <1>1, UpdatesAreClean
  <2> QED BY <2>1, OneRecordReplaced DEF Inv
<1>3. GuiSound(g) /\ GuiSound([g EXCEPT !.panel.ui = new])
  BY DEF Inv, GuiSound
<1>4. PageCount(lt) \in {1, 2}
  BY CountIsOneOrTwo
<1>5. \/ /\ pages' = [pages EXCEPT ![Current] = SetPages(@, PageCount(lt))]
         /\ Load(chosen, Current, g)
      \/ /\ records' = drawn
         /\ pages' = SetByHand(drawn, Current, PageCount(lt))
         /\ gui' = [g EXCEPT !.panel.ui = new]
         /\ UNCHANGED tasks
  BY DEF ToggleLayoutType
<1>6. UNCHANGED rotation
  BY DEF ToggleLayoutType
<1> HIDE DEF chosen, drawn, g, new
<1>7. PagesSound(pages')
  <2> DEFINE n == PageCount(lt)
  <2>1. n \in {1, 2}
    BY <1>4
  <2>2. \/ pages' = [pages EXCEPT ![Current] = SetPages(@, n)]
        \/ pages' = SetByHand(drawn, Current, n)
    BY <1>5
  <2> HIDE DEF n
  <2> QED BY <1>1, <2>1, <2>2, SetByHandSound
<1>8. RecordsClean(records') /\ GuiSound(gui') /\ TasksSound(tasks')
  BY <1>1, <1>2, <1>3, <1>5, LoadKeeps DEF Inv
<1> QED BY <1>6, <1>7, <1>8 DEF Inv

\* The dialog, with or without the cut, also when the turn it reads is any.
LEMMA ApplyKeeps ==
  ASSUME Inv, NEW is, NEW lt, NEW cut, NEW edge, NEW rot, Apply(is, lt, cut, edge, rot)
  PROVE  Inv'
<1> DEFINE applied(i) == IF cut /\ lt \notin {"uncut", "auto"} THEN AppliedCut(i, lt, edge, rot)
                         ELSE WithType(records[i], lt)
           recs == [i \in Images |-> IF i \in is THEN applied(i) ELSE records[i]]
<1>1. RecordsClean(recs)
  <2>1. ASSUME NEW i \in Images PROVE Clean(applied(i)) /\ Clean(records[i])
    BY AppliedCutIsClean, UpdatesAreClean DEF Inv, RecordsClean
  <2> HIDE DEF applied
  <2> QED BY <2>1 DEF RecordsClean
<1>2. gui.selected \in Images
  BY CurrentImage DEF Apply, Current
<1>3. /\ \E shown : pages' = SyncAll(pages, recs, shown)
      /\ Load(recs, gui.selected, gui) \/ (records' = recs /\ UNCHANGED <<gui, tasks>>)
      /\ UNCHANGED rotation
  BY DEF Apply
<1> HIDE DEF recs
<1>4. PagesSound(pages')
  BY <1>3, SyncAllSound DEF Inv
<1>5. RecordsClean(records') /\ GuiSound(gui') /\ TasksSound(tasks')
  BY <1>1, <1>2, <1>3, LoadKeeps DEF Inv
<1> QED BY <1>3, <1>4, <1>5 DEF Inv

\* Going back to automatic mode forgets the layout.
LEMMA SplitModeAutoKeeps ==
  ASSUME Inv, SplitModeAuto
  PROVE  Inv'
<1> DEFINE recs == [records EXCEPT ![Current] = WithParams(@, NoParams)]
           g    == [gui EXCEPT !.panel.ui.mode = "auto"]
<1>1. Current \in Images /\ Clean(records[Current])
  BY CurrentImage DEF SplitModeAuto, Inv, RecordsClean
<1>2. RecordsClean(recs)
  BY <1>1, UpdatesAreClean, OneRecordReplaced DEF Inv
<1>3. GuiSound(g)
  BY DEF Inv, GuiSound
<1>4. Load(recs, Current, g) /\ UNCHANGED <<pages, rotation>>
  BY DEF SplitModeAuto
<1> HIDE DEF recs, g
<1> QED BY <1>1, <1>2, <1>3, <1>4, LoadKeeps DEF Inv

\* Moving the split line stores what the panel shows.
LEMMA MoveSplitLineKeeps ==
  ASSUME Inv, NEW edge, MoveSplitLine(edge)
  PROVE  Inv'
<1> DEFINE new  == Redrawn(gui.panel.ui, edge)
           recs == [records EXCEPT ![Current] = WithParams(@, new)]
<1>1. Current \in Images /\ Clean(records[Current])
  BY CurrentImage DEF MoveSplitLine, Inv, RecordsClean
<1>2. RecordsClean(recs)
  <2> HIDE DEF new
  <2> QED BY <1>1, UpdatesAreClean, OneRecordReplaced DEF Inv
<1>3. GuiSound([gui EXCEPT !.panel.ui = new])
  BY DEF Inv, GuiSound
<1>4. /\ records' = recs
      /\ gui' = [gui EXCEPT !.panel.ui = new]
      /\ pages' = SyncAll(pages, recs, {Current})
      /\ UNCHANGED <<rotation, tasks, overtaken>>
  BY DEF MoveSplitLine
<1> HIDE DEF recs, new
<1> QED BY <1>2, <1>3, <1>4, SyncAllSound DEF Inv

\* Bringing back a half.
LEMMA UnremoveKeeps ==
  ASSUME Inv, NEW half \in {"left", "right"}, Unremove(half)
  PROVE  Inv'
<1> DEFINE p == [pages EXCEPT ![Current] = Unremoved(@, half)]
<1>1. Current \in Images /\ CanUnremove(pages[Current], half)
  BY CurrentImage DEF Unremove
<1>2. PagesSound(p)
  BY <1>1, UnremovedSound, OneImageChanged DEF Inv, PagesSound
<1>3. pages' = SyncAll(p, records, {Current}) /\ UNCHANGED <<records, rotation, gui, tasks>>
  BY DEF Unremove
<1> HIDE DEF p
<1> QED BY <1>2, <1>3, SyncAllSound DEF Inv
-----------------------------------------------------------------------------
(* The main window.                                                        *)

\* Without an image to load, the panel is disabled and the tasks cancelled.
LEMMA NothingToLoadKeeps ==
  ASSUME Inv, NEW g, GuiSound(g), NothingToLoad(g)
  PROVE  RecordsClean(records') /\ GuiSound(gui') /\ TasksSound(tasks')
<1>1. GuiSound([g EXCEPT !.selected = NoImage, !.panel.live = FALSE])
  BY DEF GuiSound
<1> QED BY <1>1, CancelledTasksSound DEF NothingToLoad, Inv

\* What is listed is a half, or the whole, of an image.
LEMMA ListedImages ==
  ASSUME NEW list, list \subseteq Images \X {"single", "left", "right"}
  PROVE  Listed(list) \subseteq Images
BY DEF Listed

\* Nothing else is ever listed for an image,
LEMMA PagesAreListed ==
  ASSUME NEW p, NEW stage
  PROVE  SubPages(p, stage) \subseteq {"single", "left", "right"}
BY DEF SubPages, Halves

\* or for all of them.
LEMMA SequenceIsOfPages ==
  ASSUME NEW pgs, NEW stage
  PROVE  PageSequence(pgs, stage) \subseteq Images \X {"single", "left", "right"}
BY PagesAreListed DEF PageSequence

\* Removing any set of listed pages, of which some may have changed since.
LEMMA RemoveFromProjectKeeps ==
  ASSUME Inv, NEW entries, NEW i \in Images \cup {NoImage}, RemoveFromProject(entries, i)
  PROVE  Inv'
<1> DEFINE halves(j) == {entry[2] : entry \in {e \in entries : e[1] = j}}
           left == gui.list \ entries
           g    == [gui EXCEPT !.list = left]
<1>1. PagesSound(pages')
  <2>1. pages' = [j \in Images |-> IF halves(j) = {} THEN pages[j]
                                   ELSE RemovePages(pages[j], halves(j))]
    BY DEF RemoveFromProject
  <2> HIDE DEF halves
  <2>2. ASSUME NEW j \in Images PROVE Sound(pages'[j])
    BY <2>1, RemovePagesSound DEF Inv, PagesSound
  <2> QED BY <2>1, <2>2 DEF PagesSound, Sound
<1>2. GuiSound(g) /\ Listed(left) \subseteq Images
  BY ListedImages DEF Inv, GuiSound
<1>3. \/ NothingToLoad(g)
      \/ i \in Listed(left) /\ Load(records, i, g)
  BY DEF RemoveFromProject
<1>4. UNCHANGED rotation
  BY DEF RemoveFromProject
<1> HIDE DEF g, left
<1>5. RecordsClean(records') /\ GuiSound(gui') /\ TasksSound(tasks')
  BY <1>2, <1>3, LoadKeeps, NothingToLoadKeeps DEF Inv
<1> QED BY <1>1, <1>4, <1>5 DEF Inv

\* Inserting an image.
LEMMA InsertImageKeeps ==
  ASSUME Inv, NEW i \in Images, InsertImage(i)
  PROVE  Inv'
<1>1. Advised[0] \in {1, 2}
  BY SplitAssumption
<1>2. Sound(Complete(Advised[0]))
  BY <1>1, CompleteIsSound
<1>3. PagesSound(pages')
  BY <1>2, OneImageChanged DEF InsertImage, Inv
<1>4. GuiSound(gui')
  BY PagesAreListed DEF InsertImage, Inv, GuiSound
<1> QED BY <1>3, <1>4 DEF InsertImage, Inv

\* Changing the stage propagates, lists the pages anew and makes thumbnails.
LEMMA SwitchStageKeeps ==
  ASSUME Inv, NEW stage, SwitchStage(stage)
  PROVE  Inv'
<1> DEFINE pgs  == Propagated(gui.stage, stage)
           list == PageSequence(pgs, stage)
           g    == [gui EXCEPT !.stage = stage, !.list = list]
<1>1. PagesSound(pgs)
  BY PropagatedSound
<1>2. list \subseteq Images \X {"single", "left", "right"} /\ Listed(list) \subseteq Images
  BY SequenceIsOfPages, ListedImages
<1>3. /\ pages' = IF stage = 1 THEN pgs ELSE SyncAll(pgs, records, Listed(list))
      /\ \/ gui.selected \in Listed(list) /\ Load(records, gui.selected, g)
         \/ NothingToLoad(g)
      /\ UNCHANGED rotation
  BY DEF SwitchStage
<1> HIDE DEF pgs, list
<1>4. GuiSound(g)
  BY <1>2 DEF Inv, GuiSound
<1> HIDE DEF g
<1>5. PagesSound(pages')
  BY <1>1, <1>3, SyncAllSound
<1>6. RecordsClean(records') /\ GuiSound(gui') /\ TasksSound(tasks')
  BY <1>2, <1>3, <1>4, LoadKeeps, NothingToLoadKeeps DEF Inv
<1> QED BY <1>3, <1>5, <1>6 DEF Inv

\* Saving forgets some records, opening clears some flags.
LEMMA SaveAndReopenKeeps ==
  ASSUME Inv, NEW i \in Images, SaveAndReopen(i)
  PROVE  Inv'
<1> DEFINE recs == [j \in Images |-> IF pages[j] = Gone THEN NoRecord ELSE Saved(records[j])]
           pgs  == [j \in Images |-> Normalised(pages[j])]
           list == PageSequence(pgs, 1)
           g    == [stage |-> 1, selected |-> i, list |-> list,
                    panel |-> [gui.panel EXCEPT !.live = FALSE]]
<1>1. RecordsClean(recs)
  BY InitialRecordsAreClean DEF Inv, RecordsClean, Saved
<1>2. PagesSound(pgs)
  <2>1. ASSUME NEW j \in Images PROVE Sound(Normalised(pages[j]))
    BY NormalisedSound DEF Inv, PagesSound
  <2> QED BY <2>1 DEF PagesSound, Sound
<1>3. list \subseteq Images \X {"single", "left", "right"}
  BY SequenceIsOfPages
<1>4. pages' = pgs /\ Load(recs, i, g) /\ UNCHANGED rotation
  BY DEF SaveAndReopen
<1> HIDE DEF recs, pgs, list
<1>5. GuiSound(g)
  BY <1>3 DEF Inv, GuiSound
<1> HIDE DEF g
<1> QED BY <1>1, <1>2, <1>4, <1>5, LoadKeeps DEF Inv
-----------------------------------------------------------------------------
(* Tasks.                                                                  *)

\* A task of the program goes on with the turn it has read, or reads one now.
LEMMA MovedKeeps ==
  ASSUME Inv, NEW t \in DOMAIN tasks, NEW task, TaskSound(task), Moved(t, task)
  PROVE  TasksSound(tasks')
BY DEF Inv, TasksSound, Moved

\* A task that ends leaves the others alone.
LEMMA EndedKeeps ==
  ASSUME Inv, NEW t \in DOMAIN tasks, tasks' = [u \in DOMAIN tasks \ {t} |-> tasks[u]]
  PROVE  TasksSound(tasks')
BY DEF Inv, TasksSound

\* The steps of a task: it reads the turn,
LEMMA ReadRotationKeeps ==
  ASSUME Inv, NEW t \in DOMAIN tasks, ReadRotation(t)
  PROVE  Inv'
<1>1. TaskSound(tasks[t]) /\ rotation[tasks[t].image] \in Rotations
  BY DEF Inv, TasksSound, TaskSound
<1>2. \E pc : Moved(t, [tasks[t] EXCEPT !.rot = rotation[tasks[t].image], !.pc = pc])
  BY DEF ReadRotation
<1>3. TasksSound(tasks')
  BY <1>1, <1>2, MovedKeeps DEF TaskSound
<1> QED BY <1>3 DEF ReadRotation, Inv, Unused

\* the record,
LEMMA ReadRecordKeeps ==
  ASSUME Inv, NEW t \in DOMAIN tasks, ReadRecord(t)
  PROVE  Inv'
<1>1. TaskSound(tasks[t])
  BY DEF Inv, TasksSound
<1>2. \E task : TaskSound(task) /\ Moved(t, task)
  BY <1>1 DEF ReadRecord, TaskSound
<1>3. TasksSound(tasks')
  BY <1>2, MovedKeeps
<1> QED BY <1>3 DEF ReadRecord, Inv, Unused

\* writes a layout unless that would conflict,
LEMMA DecideKeeps ==
  ASSUME Inv, NEW t \in DOMAIN tasks, NEW edge, Decide(t, edge)
  PROVE  Inv'
<1> DEFINE i   == tasks[t].image
           new == NewParams(tasks[t], edge)
           r   == ConditionalUpdate(records[i], new.lt, new)
<1>1. TaskSound(tasks[t])
  BY DEF Inv, TasksSound
<1>2. Clean(r)
  <2>1. Clean(records[i])
    BY <1>1 DEF TaskSound, Inv, RecordsClean
  <2> HIDE DEF new
  <2> QED BY <2>1, UpdatesAreClean
<1>3. records' = records \/ records' = [records EXCEPT ![i] = r]
  BY DEF Decide
<1>4. \E task : TaskSound(task) /\ Moved(t, task)
  BY <1>1 DEF Decide, TaskSound
<1> HIDE DEF r, i
<1>5. RecordsClean(records')
  BY <1>2, <1>3, OneRecordReplaced DEF Inv
<1>6. TasksSound(tasks')
  BY <1>4, MovedKeeps
<1>7. UNCHANGED <<pages, rotation, gui>>
  BY DEF Decide, Unused
<1> QED BY <1>5, <1>6, <1>7 DEF Inv

\* splits the image,
LEMMA SplitImageKeeps ==
  ASSUME Inv, NEW t \in DOMAIN tasks, SplitImage(t)
  PROVE  Inv'
<1> DEFINE i == tasks[t].image
           n == PageCount(tasks[t].data.type)
<1>1. TaskSound(tasks[t])
  BY DEF Inv, TasksSound
<1>2. n \in {1, 2}
  BY CountIsOneOrTwo
<1>3. /\ pages' = [pages EXCEPT ![i] = SetPages(@, n)]
      /\ Moved(t, [tasks[t] EXCEPT !.pc = "posted"])
      /\ UNCHANGED <<records, rotation, gui>>
  BY DEF SplitImage, Unused
<1> HIDE DEF n
<1>4. PagesSound(pages')
  BY <1>1, <1>2, <1>3, SetByHandSound DEF TaskSound
<1>5. TasksSound(tasks')
  BY <1>1, <1>3, MovedKeeps DEF TaskSound
<1> QED BY <1>3, <1>4, <1>5 DEF Inv

\* ends when cancelled,
LEMMA DropKeeps ==
  ASSUME Inv, NEW t \in DOMAIN tasks, Drop(t)
  PROVE  Inv'
BY EndedKeeps DEF Drop, Unused, Inv

\* or hands its result to the user interface.
LEMMA DeliverKeeps ==
  ASSUME Inv, NEW t \in DOMAIN tasks, Deliver(t)
  PROVE  Inv'
<1>1. TasksSound(tasks')
  BY EndedKeeps DEF Deliver
<1>2. tasks[t].rot \in Rotations
  BY DEF Inv, TasksSound, TaskSound
<1>3. rotation' \in [Images -> Rotations]
  BY <1>2 DEF Deliver, Inv
<1>4. GuiSound(gui')
  <2> DEFINE data == tasks[t].data
  <2>1. \/ gui' = [gui EXCEPT !.panel.rot = tasks[t].rot]
        \/ gui' = [gui EXCEPT !.panel.ui = data, !.panel.live = TRUE,
                              !.panel.checked = data.type]
        \/ gui' = gui
    BY DEF Deliver
  <2> HIDE DEF data
  <2>2. GuiSound([gui EXCEPT !.panel.rot = tasks[t].rot])
    BY <1>2 DEF Inv, GuiSound
  <2>3. GuiSound([gui EXCEPT !.panel.ui = data, !.panel.live = TRUE,
                             !.panel.checked = data.type])
    BY DEF Inv, GuiSound
  <2> QED BY <2>1, <2>2, <2>3 DEF Inv
<1>5. PagesSound(pages')
  BY SyncAllSound DEF Deliver, Inv
<1> QED BY <1>1, <1>3, <1>4, <1>5 DEF Deliver, Inv
-----------------------------------------------------------------------------
(* The theorems.                                                           *)

\* The invariant holds of a project that is opened,
LEMMA InitEstablishes == Init => Inv
<1> SUFFICES ASSUME Init PROVE Inv
  OBVIOUS
<1>1. PICK i \in Images :
        /\ \/ /\ records = [j \in Images |-> IF j = i THEN Fresh(i) ELSE NoRecord]
              /\ pages = [j \in Images |-> Complete(Advised[0])]
           \/ /\ records = [j \in Images |-> IF j = i THEN Spread(i) ELSE NoRecord]
              /\ pages = [j \in Images |-> IF j = i THEN [n |-> 1, left |-> TRUE, right |-> FALSE]
                                           ELSE Complete(Advised[0])]
        /\ rotation = [j \in Images |-> 0]
        /\ gui = [stage |-> 1, selected |-> i, list |-> Images \X {"single"},
                  panel |-> [rot |-> 0, checked |-> "none", ui |-> NullUi, live |-> FALSE]]
        /\ tasks = [t \in {0} |-> NewTask(i, 1)]
  BY DEF Init
<1>2. RecordsClean(records)
  BY <1>1, InitialRecordsAreClean DEF RecordsClean
<1>3. PagesSound(pages)
  <2>1. Sound(Complete(Advised[0]))
    BY SplitAssumption, CompleteIsSound
  <2>2. Sound([n |-> 1, left |-> TRUE, right |-> FALSE])
    BY DEF Sound, PageType
  <2> QED BY <1>1, <2>1, <2>2 DEF PagesSound, Sound
<1>4. rotation \in [Images -> Rotations]
  BY <1>1, SplitAssumption
<1>5. GuiSound(gui)
  BY <1>1, SplitAssumption DEF GuiSound
<1>6. TasksSound(tasks)
  BY <1>1, NewTaskSound DEF TasksSound
<1> QED BY <1>2, <1>3, <1>4, <1>5, <1>6 DEF Inv

\* and every step keeps it.
LEMMA StepKeeps == Inv /\ [Next]_vars => Inv'
<1> SUFFICES ASSUME Inv, [Next]_vars PROVE Inv'
  OBVIOUS
<1>1. CASE Options
  BY <1>1, RotateKeeps, ApplyRotationKeeps, ToggleLayoutTypeKeeps, ApplyKeeps,
     SplitModeAutoKeeps, MoveSplitLineKeeps, UnremoveKeeps DEF Options
<1>2. CASE Window
  BY <1>2, SelectPageKeeps, InsertImageKeeps, SaveAndReopenKeeps,
     RemoveFromProjectKeeps, SwitchStageKeeps DEF Window
<1>3. CASE \E t \in DOMAIN tasks : Works(t) \/ Deliver(t)
  BY <1>3, ReadRotationKeeps, ReadRecordKeeps, DecideKeeps, SplitImageKeeps,
     DropKeeps, DeliverKeeps DEF Works
<1>4. CASE UNCHANGED vars
  BY <1>4 DEF vars, Inv
<1> QED BY <1>1, <1>2, <1>3, <1>4 DEF Next

\* Whatever the user, the tasks and the dialog write into the settings of the
\* page split stage, in whatever order, for any images: no layout is stored that
\* contradicts the layout type asked for.
THEOREM NoConflictIsStored == Spec => []NoConflictStored
<1>1. Inv => NoConflictStored
  BY DEF Inv, RecordsClean, Clean, NoConflictStored
<1> QED BY <1>1, InitEstablishes, StepKeeps, PTL DEF Spec

\* However images are split, turned, removed, brought back, inserted and saved
\* while tasks run: of the halves of an image at most one is removed, and then
\* exactly one page is left.
THEOREM HalvesStaySound == Spec => []HalvesSound
<1>1. Inv => HalvesSound
  BY DEF Inv, PagesSound, Sound, HalvesSound
<1> QED BY <1>1, InitEstablishes, StepKeeps, PTL DEF Spec
-----------------------------------------------------------------------------
(* What is shown is what is stored.                                        *)

\* Params, records and tasks have their fields.
IsParams(p) == DOMAIN p = {"type", "edge", "mode", "rot", "lt"}
IsRecord(r) == DOMAIN r = {"lt", "params"} /\ IsParams(r.params)
IsTask(task) ==
  /\ DOMAIN task = {"image", "stage", "pc", "rot", "record", "data", "cancelled"}
  /\ IsRecord(task.record) /\ IsParams(task.data)

AreRecords(recs) == DOMAIN recs = Images /\ \A i \in Images : IsRecord(recs[i])
AreTasks(ts)     == \A t \in DOMAIN ts : IsTask(ts[t])
IsShaped(g)      == GuiSound(g) /\ IsParams(g.panel.ui) /\ g.stage \in Int

\* Only the image selected is being worked on, and the panel waits for that.
OneAtWork ==
  \A t \in DOMAIN tasks : ~tasks[t].cancelled =>
    /\ tasks[t].image = gui.selected /\ tasks[t].stage = gui.stage
    /\ ~gui.panel.live
    /\ \A u \in DOMAIN tasks : ~tasks[u].cancelled => u = t

\* The image selected is in the list; one that is listed whole is there.
SelectedListed(g) == g.selected = NoImage \/ g.selected \in Listed(g.list)
WholeListed(g, pgs) ==
  g.stage <= 2 => /\ g.list \subseteq Images \X {"single"}
                  /\ \A i \in Listed(g.list) : pgs[i] # Gone

\* What a task has read, or is going to show, is what is on record.
Same(p, q) == <<p.type, p.edge, p.mode>> = <<q.type, q.edge, q.mode>>
Tells(task, r) ==
  /\ task.pc = "decide" => task.record.params = r.params
  /\ task.pc \in {"split", "posted"} /\ task.stage # 1
     => HasParams(r) /\ Same(r.params, task.data)
Carried ==
  \A t \in DOMAIN tasks :
    ~tasks[t].cancelled /\ tasks[t].image \notin overtaken
    => Tells(tasks[t], records[tasks[t].image])

Agreed ==
  /\ AreRecords(records) /\ AreTasks(tasks) /\ IsShaped(gui)
  /\ OneAtWork
  /\ SelectedListed(gui) /\ WholeListed(gui, pages)
  /\ Carried
  /\ ShownIsStored

\* Whatever is written into a record, it keeps its fields.
LEMMA UpdatesAreRecords ==
  ASSUME NEW r, IsRecord(r), NEW lt, NEW p, IsParams(p)
  PROVE  /\ IsRecord(WithType(r, lt))
         /\ IsRecord(WithParams(r, p))
         /\ IsRecord(WithBoth(r, lt, p))
         /\ IsRecord(ConditionalUpdate(r, lt, p))
<1>1. ASSUME NEW s, IsRecord(s) PROVE IsRecord(Settled(s))
  <2>1. IsParams(NoParams)
    BY DEF IsParams, NoParams
  <2> QED BY <1>1, <2>1 DEF Settled, IsRecord
<1>2. IsRecord([r EXCEPT !.lt = lt]) /\ IsRecord([r EXCEPT !.params = p])
  BY DEF IsRecord
<1>3. IsRecord([lt |-> lt, params |-> p])
  BY DEF IsRecord
<1>4. IsRecord(ConditionalUpdate(r, lt, p))
  BY <1>3 DEF ConditionalUpdate
<1> QED BY <1>1, <1>2, <1>3, <1>4 DEF WithType, WithParams, WithBoth

\* These are records.
LEMMA InitialRecordsAreRecords ==
  /\ IsParams(NoParams) /\ IsParams(NullUi) /\ IsRecord(NoRecord)
  /\ \A i \in Images : IsRecord(Fresh(i)) /\ IsRecord(Spread(i))
<1>1. IsParams(NoParams) /\ IsParams(NullUi)
  BY DEF IsParams, NoParams, NullUi
<1>2. ASSUME NEW i, NEW rot, NEW lt PROVE IsParams(Estimate(i, rot, lt))
  BY DEF IsParams, Estimate
<1>3. IsRecord(NoRecord) /\ \A i \in Images : IsRecord(Fresh(i))
  BY <1>1 DEF IsRecord, NoRecord, Fresh
<1>4. ASSUME NEW i \in Images PROVE IsRecord(Spread(i))
  <2> DEFINE p == Estimate(i, 0, "auto")
  <2>1. IsParams(p) /\ Spread(i) = [lt |-> "auto", params |-> p]
    BY <1>2 DEF Spread
  <2> HIDE DEF p
  <2> QED BY <2>1 DEF IsRecord
<1> QED BY <1>1, <1>3, <1>4

\* A number of pages neither adds an image to the project nor removes one, and
\* has no effect when it is set again.
LEMMA SetPagesTwice ==
  ASSUME NEW p, Sound(p), NEW n \in {1, 2}
  PROVE  /\ SetPages(p, n) = Gone <=> p = Gone
         /\ SetPages(SetPages(p, n), n) = SetPages(p, n)
<1>1. CASE p = Gone
  BY <1>1 DEF SetPages
<1>2. CASE p # Gone
  <2> DEFINE q == SetPages(p, n)
  <2>1. Adjusted(p, n) \in {1, 2}
    BY DEF Adjusted
  <2>2. q = [p EXCEPT !.n = Adjusted(p, n)]
    BY <1>2 DEF SetPages
  <2>3. q.n = Adjusted(p, n) /\ q.left = p.left /\ q.right = p.right
    BY <2>2 DEF Sound, PageType
  <2>4. q # Gone
    BY <2>1, <2>3 DEF Gone, Complete
  <2>5. Adjusted(q, n) = Adjusted(p, n)
    BY <2>3 DEF Adjusted
  <2>6. SetPages(q, n) = [q EXCEPT !.n = Adjusted(p, n)]
    BY <2>4, <2>5 DEF SetPages
  <2>7. [q EXCEPT !.n = Adjusted(p, n)] = q
    BY <2>2 DEF Sound, PageType
  <2> QED BY <1>2, <2>4, <2>6, <2>7
<1> QED BY <1>1, <1>2

\* So it is with what a thumbnail tells.
LEMMA SyncedTwice ==
  ASSUME NEW p, Sound(p), NEW r, NEW rot
  PROVE  /\ SyncedPages(p, r, rot) = Gone <=> p = Gone
         /\ SyncedPages(SyncedPages(p, r, rot), r, rot) = SyncedPages(p, r, rot)
<1> DEFINE n == PageCount(CorrectedType(r.params))
<1>1. n \in {1, 2}
  BY CountIsOneOrTwo
<1>2. SyncedPages(p, r, rot) = SetPages(p, n) \/ SyncedPages(p, r, rot) = p
  BY DEF SyncedPages
<1> HIDE DEF n
<1>3. CASE HasParams(r) /\ Compatible(rot, CombinedType(r), r.params)
  <2>1. \A q : SyncedPages(q, r, rot) = SetPages(q, n)
    BY <1>3 DEF SyncedPages, n
  <2> QED BY <1>1, <2>1, SetPagesTwice
<1>4. CASE ~(HasParams(r) /\ Compatible(rot, CombinedType(r), r.params))
  BY <1>4 DEF SyncedPages
<1> QED BY <1>3, <1>4

\* An image that is told of is in step with its record; none comes or goes.
LEMMA SyncAllAgrees ==
  ASSUME NEW pgs, PagesSound(pgs), NEW recs, NEW is, NEW i \in Images
  PROVE  LET q == SyncAll(pgs, recs, is)[i]
         IN /\ q = Gone <=> pgs[i] = Gone
            /\ i \in is => q = SyncedPages(q, recs[i], rotation[i])
            /\ i \notin is => q = pgs[i]
BY SyncedTwice DEF SyncAll, PagesSound

\* As long as none goes, what is listed whole is there.
LEMMA WholeListedKept ==
  ASSUME NEW g, GuiSound(g), NEW pgs, WholeListed(g, pgs), NEW new,
         \A i \in Images : new[i] = Gone => pgs[i] = Gone
  PROVE  WholeListed(g, new)
<1>1. Listed(g.list) \subseteq Images
  BY ListedImages DEF GuiSound
<1> QED BY <1>1 DEF WholeListed

\* A page that is loaded has the only task that is not cancelled, which has yet
\* to read, and the panel waits for it.
LEMMA LoadAgrees ==
  ASSUME Inv, Agreed, NEW recs, AreRecords(recs), NEW i \in Images, NEW g, IsShaped(g),
         i \in Listed(g.list), WholeListed(g, pages'), Load(recs, i, g)
  PROVE  Agreed'
<1> DEFINE loaded == IF recs[i] = NoRecord THEN WithType(NoRecord, "auto") ELSE recs[i]
           panel  == PanelFor(g.panel, i, loaded)
           new    == [g EXCEPT !.selected = i, !.panel = panel]
<1>1. IsRecord(loaded)
  BY InitialRecordsAreRecords, UpdatesAreRecords DEF AreRecords
<1>2. /\ records' = [recs EXCEPT ![i] = loaded]
      /\ gui' = new
      /\ tasks' = [t \in DOMAIN tasks \cup {userActions'} |->
                    IF t = userActions' THEN NewTask(i, g.stage) ELSE CancelAll[t]]
  BY DEF Load, IsShaped, GuiSound
<1> HIDE DEF loaded
<1>3. /\ IsShaped(new) /\ new.panel.live = FALSE
      /\ new.selected = i /\ new.stage = g.stage /\ new.list = g.list
  <2>1. /\ panel.ui = g.panel.ui /\ panel.live = FALSE /\ panel.rot = rotation[i]
        /\ DOMAIN panel = {"rot", "checked", "ui", "live"} /\ rotation[i] \in Rotations
    BY DEF PanelFor, IsShaped, GuiSound, Inv
  <2> HIDE DEF panel
  <2>2. /\ new.panel = panel /\ new.selected = i /\ new.stage = g.stage /\ new.list = g.list
        /\ DOMAIN new = {"stage", "selected", "list", "panel"}
    BY DEF IsShaped, GuiSound
  <2> HIDE DEF new
  <2>3. GuiSound(new)
    BY <2>1, <2>2 DEF IsShaped, GuiSound
  <2> QED BY <2>1, <2>2, <2>3 DEF IsShaped
<1> HIDE DEF new
<1>4. AreRecords(records')
  BY <1>1, <1>2 DEF AreRecords
<1>5. /\ IsTask(NewTask(i, g.stage)) /\ NewTask(i, g.stage).image = i
      /\ NewTask(i, g.stage).stage = g.stage /\ NewTask(i, g.stage).pc = "start"
  BY InitialRecordsAreRecords DEF IsTask, NewTask
<1>6. \A t \in DOMAIN tasks : IsTask(CancelAll[t]) /\ CancelAll[t].cancelled
  BY DEF Agreed, AreTasks, IsTask, CancelAll
<1>7. AreTasks(tasks')
  BY <1>2, <1>5, <1>6 DEF AreTasks
<1>8. \A t \in DOMAIN tasks' : ~tasks'[t].cancelled =>
        t = userActions' /\ tasks'[t] = NewTask(i, g.stage)
  BY <1>2, <1>6
<1>9. OneAtWork'
  BY <1>2, <1>3, <1>5, <1>8 DEF OneAtWork
<1>10. Carried'
  BY <1>5, <1>8 DEF Carried, Tells
<1>11. ShownIsStored'
  BY <1>2, <1>3 DEF ShownIsStored
<1>12. SelectedListed(gui') /\ WholeListed(gui', pages')
  BY <1>2, <1>3 DEF SelectedListed, WholeListed
<1> QED BY <1>2, <1>3, <1>4, <1>7, <1>9, <1>10, <1>11, <1>12 DEF Agreed

\* With nothing to load all tasks are cancelled.
LEMMA NothingToLoadAgrees ==
  ASSUME Inv, Agreed, NEW g, IsShaped(g), WholeListed(g, pages'), NothingToLoad(g)
  PROVE  Agreed'
<1> DEFINE new == [g EXCEPT !.selected = NoImage, !.panel.live = FALSE]
<1>1. gui' = new /\ tasks' = CancelAll /\ UNCHANGED <<records, overtaken>>
  BY DEF NothingToLoad
<1>2. /\ IsShaped(new) /\ new.panel.live = FALSE
      /\ new.selected = NoImage /\ new.stage = g.stage /\ new.list = g.list
  BY DEF IsShaped, GuiSound
<1> HIDE DEF new
<1>3. AreTasks(tasks') /\ \A t \in DOMAIN tasks' : tasks'[t].cancelled
  BY <1>1 DEF Agreed, AreTasks, IsTask, CancelAll
<1>4. OneAtWork' /\ Carried'
  BY <1>3 DEF OneAtWork, Carried
<1>5. ShownIsStored'
  BY <1>1, <1>2 DEF ShownIsStored
<1>6. SelectedListed(gui') /\ WholeListed(gui', pages')
  BY <1>1, <1>2 DEF SelectedListed, WholeListed
<1>7. AreRecords(records')
  BY <1>1 DEF Agreed
<1> QED BY <1>1, <1>2, <1>3, <1>4, <1>5, <1>6, <1>7 DEF Agreed

\* The user changes the page that is shown, or one whose task is overtaken.
LEMMA EditAgrees ==
  ASSUME Inv, Agreed, AreRecords(records'), IsShaped(gui'),
         gui'.selected = gui.selected, gui'.stage = gui.stage, gui'.panel.live = gui.panel.live,
         gui.list \subseteq gui'.list, WholeListed(gui', pages'),
         tasks' = tasks, overtaken \subseteq overtaken',
         ShownIsStored',
         \/ gui.panel.live \/ gui.selected \in overtaken'
         \/ records'[gui.selected].params = records[gui.selected].params
  PROVE  Agreed'
<1>1. AreTasks(tasks') /\ OneAtWork'
  BY DEF Agreed, OneAtWork
<1>2. SelectedListed(gui')
  BY DEF Agreed, SelectedListed, Listed
<1>3. ASSUME NEW t \in DOMAIN tasks, ~tasks[t].cancelled, tasks[t].image \notin overtaken'
      PROVE  Tells(tasks[t], records'[tasks[t].image])
  <2>1. tasks[t].image = gui.selected /\ ~gui.panel.live
    BY <1>3 DEF Agreed, OneAtWork
  <2>2. Tells(tasks[t], records[gui.selected])
    BY <1>3, <2>1 DEF Agreed, Carried
  <2> QED BY <1>3, <2>1, <2>2 DEF Tells, HasParams
<1>4. Carried'
  BY <1>3 DEF Carried
<1> QED BY <1>1, <1>2, <1>4 DEF Agreed

\* Selecting a page loads it.
LEMMA SelectPageAgrees ==
  ASSUME Inv, Agreed, NEW i \in Images, SelectPage(i)
  PROVE  Agreed'
BY LoadAgrees DEF SelectPage, Agreed

\* Turning images concerns another stage.
LEMMA TurnsAgree ==
  ASSUME Inv, Agreed, (\E r \in Rotations : Rotate(r)) \/ (\E is : ApplyRotation(is))
  PROVE  Agreed'
<1>1. gui.stage = 1 /\ UNCHANGED <<records, pages, tasks, overtaken>>
  BY DEF Rotate, ApplyRotation
<1>2. (\E r \in Rotations : gui' = [gui EXCEPT !.panel.rot = r]) \/ gui' = gui
  BY DEF Rotate, ApplyRotation
<1>3. /\ IsShaped(gui') /\ gui'.selected = gui.selected /\ gui'.stage = gui.stage
      /\ gui'.panel.live = gui.panel.live /\ gui'.list = gui.list
  BY <1>2 DEF Agreed, IsShaped, GuiSound
<1>4. ShownIsStored'
  BY <1>1, <1>3 DEF ShownIsStored, AtSplit
<1>5. AreRecords(records') /\ WholeListed(gui', pages')
  BY <1>1, <1>3 DEF Agreed, WholeListed
<1> QED BY <1>1, <1>3, <1>4, <1>5, EditAgrees

\* Inserting an image that is not in the project, hence not shown.
LEMMA InsertImageAgrees ==
  ASSUME Inv, Agreed, NEW i \in Images, InsertImage(i)
  PROVE  Agreed'
<1> DEFINE p == Complete(Advised[0])
           new == {i} \X SubPages(p, gui.stage)
<1>1. /\ pages[i] = Gone /\ pages' = [pages EXCEPT ![i] = p]
      /\ gui' = [gui EXCEPT !.list = @ \cup new]
      /\ UNCHANGED <<records, rotation, tasks, overtaken>>
  BY DEF InsertImage, Inv, PagesSound
<1>2. /\ gui'.list = gui.list \cup new /\ gui'.panel = gui.panel
      /\ gui'.selected = gui.selected /\ gui'.stage = gui.stage
  BY <1>1 DEF Inv, GuiSound
<1>3. p # Gone /\ p.n # 0
  <2>1. Advised[0] \in {1, 2}
    BY SplitAssumption
  <2> QED BY <2>1 DEF Gone, Complete
<1>4. gui'.stage <= 2 => new = {i} \X {"single"}
  BY <1>2, <1>3 DEF Agreed, IsShaped, SubPages, PageView
<1>5. IsShaped(gui')
  <2>1. GuiSound(gui')
    BY InsertImageKeeps DEF Inv
  <2> QED BY <1>2, <2>1 DEF Agreed, IsShaped
<1> HIDE DEF p, new
<1>6. WholeListed(gui', pages')
  <2> SUFFICES ASSUME gui.stage <= 2
               PROVE  /\ gui'.list \subseteq Images \X {"single"}
                      /\ \A j \in Listed(gui'.list) : pages'[j] # Gone
    BY <1>2 DEF WholeListed
  <2>1. /\ gui.list \subseteq Images \X {"single"}
        /\ \A j \in Listed(gui.list) : pages[j] # Gone
    BY DEF Agreed, WholeListed
  <2>2. Listed(gui'.list) \subseteq Listed(gui.list) \cup {i}
    BY <1>2, <1>4 DEF Listed
  <2>3. pages'[i] = p
    BY <1>1 DEF Inv, PagesSound
  <2>4. gui'.list \subseteq Images \X {"single"}
    BY <1>2, <1>4, <2>1
  <2>5. \A j \in Listed(gui.list) : pages'[j] # Gone
    BY <1>1, <1>3, <2>1, <2>3
  <2> QED BY <1>3, <2>2, <2>3, <2>4, <2>5
<1>7. ShownIsStored'
  <2> SUFFICES ASSUME AtSplit, gui.panel.live, Current \notin overtaken
               PROVE  ShownIsStored'
    BY <1>1, <1>2 DEF ShownIsStored, AtSplit, Current
  <2>1. pages[Current] # Gone
    BY DEF Agreed, SelectedListed, WholeListed, AtSplit, Current
  <2>2. pages'[Current] = pages[Current]
    BY <1>1, <2>1 DEF Inv, PagesSound
  <2> QED BY <1>1, <1>2, <2>2 DEF Agreed, ShownIsStored, AtSplit, Current
<1>8. AreRecords(records')
  BY <1>1 DEF Agreed
<1> QED BY <1>1, <1>2, <1>5, <1>6, <1>7, <1>8, EditAgrees

\* The user draws the cutters of the page shown: the panel and the record are
\* given the same, and the number of pages follows the record.
LEMMA DrawnAgrees ==
  ASSUME Inv, Agreed, AtSplit, NEW new, IsParams(new), HasParams(records'[Current]),
         records'[Current].params = new, AreRecords(records'),
         NEW g, IsShaped(g), g.selected = gui.selected, g.stage = gui.stage, g.list = gui.list,
         g.panel.live = gui.panel.live, gui' = [g EXCEPT !.panel.ui = new],
         NEW pgs, PagesSound(pgs), \A i \in Images : pgs[i] = Gone => pages[i] = Gone,
         NEW recs, recs = records', pages' = SyncAll(pgs, recs, {Current}),
         tasks' = tasks, overtaken \subseteq overtaken', rotation' = rotation,
         gui.panel.live \/ Current \in overtaken'
  PROVE  Agreed'
<1>1. /\ gui'.selected = gui.selected /\ gui'.stage = gui.stage /\ gui'.list = gui.list
      /\ gui'.panel.live = gui.panel.live /\ gui'.panel.ui = new
  BY DEF IsShaped, GuiSound
<1>2. IsShaped(gui')
  BY DEF IsShaped, GuiSound
<1>3. Current \in Images
  BY CurrentImage
<1>4. WholeListed(gui', pages')
  <2>1. \A i \in Images : pages'[i] = Gone => pages[i] = Gone
    BY SyncAllAgrees
  <2>2. WholeListed(gui', pages)
    BY <1>1 DEF Agreed, WholeListed
  <2>3. GuiSound(gui')
    BY <1>2 DEF IsShaped
  <2> QED BY <2>1, <2>2, <2>3, WholeListedKept
<1>5. ShownIsStored'
  <2>1. pages'[Current] = SyncedPages(pages'[Current], recs[Current], rotation[Current])
    BY <1>3, SyncAllAgrees
  <2>2. pages'[Current] = SyncedPages(pages'[Current], records'[Current], rotation'[Current])
    BY <2>1
  <2>3. Current' = Current /\ gui'.panel.ui = new
    BY <1>1 DEF Current
  <2> QED BY <2>2, <2>3 DEF ShownIsStored
<1> QED BY <1>1, <1>2, <1>4, <1>5, EditAgrees DEF Current

\* A layout type that is chosen loads the page anew, or is drawn.
LEMMA ToggleLayoutTypeAgrees ==
  ASSUME Inv, Agreed, NEW lt \in Types, NEW edge, ToggleLayoutType(lt, edge)
  PROVE  Agreed'
<1> DEFINE ui     == gui.panel.ui
           new    == Retyped(ui, lt, edge)
           chosen == [records EXCEPT ![Current] = WithType(@, lt)]
           drawn  == [records EXCEPT ![Current] = WithBoth(@, lt, new)]
           g      == [gui EXCEPT !.panel.checked = lt]
           n      == PageCount(lt)
           pgs    == [pages EXCEPT ![Current] = SetPages(@, n)]
<1>1. /\ AtSplit /\ Current \in Images /\ Current \in DOMAIN records /\ Current \in DOMAIN pages
      /\ IsRecord(records[Current])
  BY CurrentImage DEF ToggleLayoutType, Agreed, AreRecords, Inv, PagesSound
<1>2. IsParams(new) /\ new.type = lt
  BY DEF Retyped, Agreed, IsShaped, IsParams
<1>3. \/ /\ pages' = pgs
         /\ Load(chosen, Current, g)
      \/ /\ records' = drawn
         /\ pages' = SyncAll(pgs, drawn, {Current})
         /\ gui' = [g EXCEPT !.panel.ui = new]
         /\ overtaken' = IF gui.panel.live THEN overtaken ELSE overtaken \cup {Current}
         /\ UNCHANGED tasks
  BY DEF ToggleLayoutType, SetByHand
<1>4. UNCHANGED rotation
  BY DEF ToggleLayoutType
<1>5. /\ IsShaped(g) /\ g.selected = gui.selected /\ g.stage = gui.stage /\ g.list = gui.list
      /\ g.panel.live = gui.panel.live
  BY DEF Agreed, IsShaped, GuiSound
<1>6. WithBoth(records[Current], lt, new) = [lt |-> lt, params |-> new] /\ new # NoParams
  <2>1. lt # "none" /\ lt # "unset"
    BY DEF Types
  <2>2. new # NoParams
    BY <1>2, <2>1 DEF NoParams
  <2> HIDE DEF new
  <2>3. ~Conflict([lt |-> lt, params |-> new])
    BY <1>2, <2>1 DEF Conflict, CombinedType
  <2> QED BY <2>2, <2>3 DEF WithBoth, Settled
<1> HIDE DEF new, g
<1>7. AreRecords(chosen) /\ AreRecords(drawn) /\ drawn[Current] = [lt |-> lt, params |-> new]
  <2>1. IsRecord(WithType(records[Current], lt)) /\ IsRecord(WithBoth(records[Current], lt, new))
    BY <1>1, <1>2, UpdatesAreRecords
  <2> QED BY <1>1, <1>6, <2>1 DEF Agreed, AreRecords
<1>8. n \in {1, 2}
  BY CountIsOneOrTwo
<1> HIDE DEF n
<1>9. PagesSound(pgs) /\ \A i \in Images : pgs[i] = Gone => pages[i] = Gone
  <2>1. PagesSound(pgs)
    BY <1>1, <1>8, SetByHandSound
  <2>2. SetPages(pages[Current], n) = Gone => pages[Current] = Gone
    BY <1>1, <1>8, SetPagesTwice DEF Inv, PagesSound
  <2> QED BY <1>1, <2>1, <2>2 DEF Inv, PagesSound
<1> HIDE DEF chosen, drawn, pgs
<1>10. CASE pages' = pgs /\ Load(chosen, Current, g)
  <2>1. Current \in Listed(g.list)
    BY <1>1, <1>5 DEF Agreed, SelectedListed, AtSplit, Current
  <2>2. WholeListed(g, pages)
    BY <1>5 DEF Agreed, WholeListed
  <2>3. WholeListed(g, pages')
    BY <1>5, <1>9, <1>10, <2>2, WholeListedKept DEF IsShaped
  <2> QED BY <1>1, <1>5, <1>7, <1>10, <2>1, <2>3, LoadAgrees
<1>11. CASE /\ records' = drawn
            /\ pages' = SyncAll(pgs, drawn, {Current})
            /\ gui' = [g EXCEPT !.panel.ui = new]
            /\ overtaken' = IF gui.panel.live THEN overtaken ELSE overtaken \cup {Current}
            /\ UNCHANGED tasks
  <2>1. HasParams(records'[Current]) /\ records'[Current].params = new
    BY <1>6, <1>7, <1>11 DEF HasParams
  <2>2. overtaken \subseteq overtaken' /\ (gui.panel.live \/ Current \in overtaken')
    BY <1>11
  <2>3. AreRecords(records') /\ tasks' = tasks /\ drawn = records'
    BY <1>7, <1>11
  <2> QED BY <1>1, <1>2, <1>4, <1>5, <1>9, <1>11, <2>1, <2>2, <2>3, DrawnAgrees
<1> QED BY <1>3, <1>10, <1>11

\* A page that goes back to automatic mode is loaded.
LEMMA SplitModeAutoAgrees ==
  ASSUME Inv, Agreed, SplitModeAuto
  PROVE  Agreed'
<1> DEFINE recs == [records EXCEPT ![Current] = WithParams(@, NoParams)]
           g    == [gui EXCEPT !.panel.ui.mode = "auto"]
<1>1. AtSplit /\ Current \in Images /\ Load(recs, Current, g) /\ UNCHANGED pages
  BY CurrentImage DEF SplitModeAuto
<1>2. AreRecords(recs)
  <2>1. IsRecord(records[Current])
    BY <1>1 DEF Agreed, AreRecords
  <2>2. IsRecord(WithParams(records[Current], NoParams))
    BY <2>1, UpdatesAreRecords, InitialRecordsAreRecords
  <2> QED BY <2>2 DEF Agreed, AreRecords
<1>3. IsShaped(g) /\ g.selected = gui.selected /\ g.stage = gui.stage /\ g.list = gui.list
  BY DEF Agreed, IsShaped, GuiSound, IsParams
<1> HIDE DEF recs, g
<1>4. Current \in Listed(g.list) /\ WholeListed(g, pages')
  BY <1>1, <1>3 DEF Agreed, SelectedListed, WholeListed, AtSplit, Current
<1> QED BY <1>1, <1>2, <1>3, <1>4, LoadAgrees

\* A split line that is moved is drawn; the layout has the type it had.
LEMMA MoveSplitLineAgrees ==
  ASSUME Inv, Agreed, NEW edge, MoveSplitLine(edge)
  PROVE  Agreed'
<1> DEFINE new  == Redrawn(gui.panel.ui, edge)
           recs == [records EXCEPT ![Current] = WithParams(@, new)]
<1>1. /\ AtSplit /\ Current \in Images /\ gui.panel.live
      /\ records' = recs
      /\ gui' = [gui EXCEPT !.panel.ui = new]
      /\ pages' = SyncAll(pages, recs, {Current})
      /\ UNCHANGED <<rotation, tasks, overtaken>>
  BY CurrentImage DEF MoveSplitLine
<1>2. IsParams(new) /\ new.type = gui.panel.ui.type /\ new # NoParams
  <2>1. IsParams(new) /\ new.type = gui.panel.ui.type /\ new.mode = "manual"
    BY DEF Redrawn, Agreed, IsShaped, IsParams
  <2> QED BY <2>1 DEF NoParams
<1>3. IsRecord(records[Current]) /\ Clean(records[Current])
  BY <1>1 DEF Agreed, AreRecords, Inv, RecordsClean
<1> HIDE DEF new
<1>4. AreRecords(recs)
  <2>1. IsRecord(WithParams(records[Current], new))
    BY <1>2, <1>3, UpdatesAreRecords
  <2> QED BY <2>1 DEF Agreed, AreRecords
<1>5. recs[Current] = WithParams(records[Current], new)
  BY <1>1 DEF Agreed, AreRecords
<1> HIDE DEF recs
<1>6. CASE Current \in overtaken
  <2>1. IsShaped(gui') /\ gui'.selected = gui.selected /\ gui'.stage = gui.stage
    BY <1>1, <1>2 DEF Agreed, IsShaped, GuiSound
  <2>2. gui'.list = gui.list /\ gui'.panel.live = gui.panel.live
    BY <1>1 DEF Agreed, IsShaped, GuiSound
  <2>3. WholeListed(gui', pages')
    <3>1. \A i \in Images : pages'[i] = Gone => pages[i] = Gone
      BY <1>1, SyncAllAgrees DEF Inv
    <3>2. WholeListed(gui', pages)
      BY <2>1, <2>2 DEF Agreed, WholeListed
    <3> QED BY <2>1, <3>1, <3>2, WholeListedKept DEF IsShaped
  <2>4. ShownIsStored'
    BY <1>1, <1>6, <2>1 DEF ShownIsStored, Current
  <2> QED BY <1>1, <1>4, <2>1, <2>2, <2>3, <2>4, EditAgrees
<1>7. CASE Current \notin overtaken
  <2>1. HasParams(records[Current]) /\ records[Current].params.type = gui.panel.ui.type
    BY <1>1, <1>7 DEF Agreed, ShownIsStored
  <2>2. ~Conflict([records[Current] EXCEPT !.params = new])
    BY <1>2, <1>3, <2>1 DEF IsRecord, Clean, Conflict, CombinedType
  <2>3. recs[Current] = [records[Current] EXCEPT !.params = new]
    BY <1>5, <2>2 DEF WithParams, Settled
  <2>4. HasParams(records'[Current]) /\ records'[Current].params = new
    BY <1>1, <1>2, <1>3, <2>3 DEF IsRecord, HasParams
  <2>5. IsShaped(gui)
    BY DEF Agreed
  <2>6. PagesSound(pages)
    BY DEF Inv
  <2>7. recs = records' /\ AreRecords(records') /\ overtaken \subseteq overtaken'
    BY <1>1, <1>4
  <2> QED BY <1>1, <1>2, <2>4, <2>5, <2>6, <2>7, DrawnAgrees
<1> QED BY <1>6, <1>7

\* A half that is brought back: the thumbnail tells of the record.
LEMMA UnremoveAgrees ==
  ASSUME Inv, Agreed, NEW half \in {"left", "right"}, Unremove(half)
  PROVE  Agreed'
<1> DEFINE p == [pages EXCEPT ![Current] = Unremoved(@, half)]
<1>1. /\ AtSplit /\ Current \in Images /\ gui.panel.live /\ CanUnremove(pages[Current], half)
      /\ pages' = SyncAll(p, records, {Current})
      /\ UNCHANGED <<records, rotation, gui, tasks, overtaken>>
  BY CurrentImage DEF Unremove
<1>2. PagesSound(p)
  BY <1>1, UnremovedSound, OneImageChanged DEF Inv, PagesSound
<1>3. \A i \in Images : p[i] = Gone => pages[i] = Gone
  <2>1. Unremoved(pages[Current], half).n = 2
    BY <1>1 DEF Unremoved, Inv, PagesSound, PageType
  <2>2. Unremoved(pages[Current], half) # Gone
    BY <2>1 DEF Gone, Complete
  <2> QED BY <2>2 DEF Inv, PagesSound
<1> HIDE DEF p
<1>4. \A i \in Images : pages'[i] = Gone => pages[i] = Gone
  BY <1>1, <1>2, <1>3, SyncAllAgrees
<1>5. WholeListed(gui', pages')
  BY <1>1, <1>4, WholeListedKept DEF Agreed, IsShaped
<1>6. pages'[Current] = SyncedPages(pages'[Current], records[Current], rotation[Current])
  BY <1>1, <1>2, SyncAllAgrees
<1>7. ShownIsStored'
  BY <1>1, <1>6 DEF Agreed, ShownIsStored, Current, AtSplit
<1>8. AreRecords(records') /\ IsShaped(gui')
  BY <1>1 DEF Agreed
<1> QED BY <1>1, <1>5, <1>7, <1>8, EditAgrees

\* What the dialog applies to an image is a record.
LEMMA AppliedIsRecord ==
  ASSUME Inv, Agreed, AtSplit, NEW i \in Images, NEW lt, NEW edge, NEW rot
  PROVE  IsRecord(AppliedCut(i, lt, edge, rot)) /\ IsRecord(WithType(records[i], lt))
<1> DEFINE line == records[Current].params
           type == IF edge THEN "uncut" ELSE line.type
           cut  == [line EXCEPT !.type = type, !.edge = edge, !.rot = rot, !.lt = type]
<1>1. IsRecord(records[i]) /\ IsParams(line)
  BY CurrentImage DEF Agreed, AreRecords, IsRecord
<1>2. IsParams(cut)
  BY <1>1 DEF IsParams
<1>3. AppliedCut(i, lt, edge, rot)
        \in {WithBoth(records[i], lt, line), WithBoth(records[i], type, cut)}
  BY DEF AppliedCut
<1> HIDE DEF line, type, cut
<1> QED BY <1>1, <1>2, <1>3, UpdatesAreRecords

\* The type that the dialog applies suits the image it is taken from.
LEMMA ManualTypeSuits ==
  ASSUME Inv, Agreed, AtSplit, HasParams(records[Current])
  PROVE  WithType(records[Current], ManualType).params = records[Current].params
<1> DEFINE r == records[Current]
           new == [r EXCEPT !.lt = ManualType]
<1>1. IsRecord(r) /\ ~Conflict(r)
  BY CurrentImage DEF Agreed, AreRecords, Inv, RecordsClean, Clean
<1>2. ManualType = r.params.type
  BY <1>1 DEF ManualType, Conflict, CombinedType
<1>3. new.params = r.params /\ new.lt = r.params.type
  BY <1>1, <1>2 DEF IsRecord
<1> HIDE DEF r, new
<1>4. ~Conflict(new)
  BY <1>3 DEF Conflict, CombinedType
<1> QED BY <1>3, <1>4 DEF WithType, Settled, new, r

\* The dialog either loads the page shown, or leaves its layout as it is, or
\* overtakes it.
LEMMA ApplyAgrees ==
  ASSUME Inv, Agreed, NEW is, NEW lt, NEW cut, NEW edge, NEW rot, Apply(is, lt, cut, edge, rot)
  PROVE  Agreed'
<1> DEFINE applied(i) == IF cut /\ lt \notin {"uncut", "auto"} THEN AppliedCut(i, lt, edge, rot)
                         ELSE WithType(records[i], lt)
           recs == [i \in Images |-> IF i \in is THEN applied(i) ELSE records[i]]
           shown == IF Cardinality(is) > 1 THEN Listed(gui.list) ELSE is
<1>1. /\ AtSplit /\ Current \in Images /\ HasParams(records[Current])
      /\ lt \in {ManualType, "auto"}
      /\ pages' = SyncAll(pages, recs, shown)
      /\ \/ Load(recs, Current, gui)
         \/ /\ lt # "auto" /\ records' = recs
            /\ overtaken' = IF cut THEN overtaken \cup {Current} ELSE overtaken
            /\ UNCHANGED <<gui, tasks>>
      /\ UNCHANGED rotation
  BY CurrentImage DEF Apply, Current
<1>2. Current \in Listed(gui.list)
  BY <1>1 DEF Agreed, SelectedListed, AtSplit, Current
<1>3. AreRecords(recs)
  <2>1. ASSUME NEW i \in Images PROVE IsRecord(applied(i)) /\ IsRecord(records[i])
    BY <1>1, AppliedIsRecord DEF Agreed, AreRecords
  <2> HIDE DEF applied
  <2> QED BY <2>1 DEF AreRecords
<1>4. ASSUME lt # "auto", ~cut
      PROVE  recs[Current].params = records[Current].params
  BY <1>1, <1>4, ManualTypeSuits
<1>5. /\ Current \in shown \/ recs[Current] = records[Current]
  BY <1>1, <1>2
<1> HIDE DEF recs, shown
<1>6. WholeListed(gui, pages')
  <2>1. \A i \in Images : pages'[i] = Gone => pages[i] = Gone
    BY <1>1, SyncAllAgrees DEF Inv
  <2> QED BY <2>1, WholeListedKept DEF Agreed, IsShaped
<1>7. CASE Load(recs, Current, gui)
  <2>1. IsShaped(gui)
    BY DEF Agreed
  <2> QED BY <1>1, <1>2, <1>3, <1>6, <1>7, <2>1, LoadAgrees
<1>8. CASE /\ lt # "auto" /\ records' = recs
           /\ overtaken' = IF cut THEN overtaken \cup {Current} ELSE overtaken
           /\ UNCHANGED <<gui, tasks>>
  <2>1. ShownIsStored'
    <3> SUFFICES ASSUME gui.panel.live, Current \notin overtaken'
                 PROVE  /\ HasParams(recs[Current]) /\ Same(recs[Current].params, gui.panel.ui)
                        /\ pages'[Current] = SyncedPages(pages'[Current], recs[Current],
                                                         rotation[Current])
      BY <1>1, <1>8 DEF ShownIsStored, AtSplit, Current, Same
    <3>1. ~cut /\ Current \notin overtaken
      BY <1>8
    <3>2. /\ HasParams(records[Current]) /\ Same(records[Current].params, gui.panel.ui)
          /\ pages[Current] = SyncedPages(pages[Current], records[Current], rotation[Current])
      BY <1>1, <3>1 DEF Agreed, ShownIsStored, Same
    <3>3. HasParams(recs[Current]) /\ Same(recs[Current].params, gui.panel.ui)
      BY <1>4, <1>8, <3>1, <3>2 DEF HasParams
    <3>4. PagesSound(pages)
      BY DEF Inv
    <3>5. CASE Current \in shown
      BY <1>1, <3>3, <3>4, <3>5, SyncAllAgrees
    <3>6. CASE Current \notin shown
      BY <1>1, <1>5, <3>2, <3>3, <3>4, <3>6, SyncAllAgrees
    <3> QED BY <3>5, <3>6
  <2>2. Current \in overtaken' \/ records'[Current].params = records[Current].params
    BY <1>4, <1>8
  <2>3. gui' = gui /\ tasks' = tasks /\ overtaken \subseteq overtaken'
    BY <1>8
  <2>4. AreRecords(records') /\ IsShaped(gui') /\ WholeListed(gui', pages')
    BY <1>3, <1>6, <1>8 DEF Agreed
  <2> QED BY <2>1, <2>2, <2>3, <2>4, EditAgrees DEF Current
<1> QED BY <1>1, <1>7, <1>8

\* Whole images are removed from the list where these are listed.
LEMMA RemoveFromProjectAgrees ==
  ASSUME Inv, Agreed, NEW entries, NEW i \in Images \cup {NoImage}, RemoveFromProject(entries, i)
  PROVE  Agreed'
<1> DEFINE halves(j) == {entry[2] : entry \in {e \in entries : e[1] = j}}
           left == gui.list \ entries
           g    == [gui EXCEPT !.list = left]
<1>1. /\ entries \subseteq gui.list
      /\ pages' = [j \in Images |-> IF halves(j) = {} THEN pages[j]
                                    ELSE RemovePages(pages[j], halves(j))]
      /\ NothingToLoad(g) \/ (i \in Listed(left) /\ Load(records, i, g))
  BY DEF RemoveFromProject
<1>2. g.list = left /\ g.stage = gui.stage /\ g.panel = gui.panel /\ g.selected = gui.selected
  BY DEF Agreed, IsShaped, GuiSound
<1>3. IsShaped(g)
  BY <1>2 DEF Agreed, IsShaped, GuiSound
<1>4. Listed(left) \subseteq Images
  BY ListedImages DEF Agreed, IsShaped, GuiSound
<1>5. WholeListed(g, pages')
  <2> SUFFICES ASSUME gui.stage <= 2, NEW j \in Listed(left)
               PROVE  left \subseteq Images \X {"single"} /\ pages'[j] # Gone
    BY <1>2 DEF WholeListed, Agreed
  <2>1. /\ gui.list \subseteq Images \X {"single"}
        /\ \A k \in Listed(gui.list) : pages[k] # Gone
    BY DEF Agreed, WholeListed
  <2>2. PICK entry \in left : entry[1] = j
    BY DEF Listed
  <2>3. \A e \in gui.list : e[1] = j => e = entry
    BY <2>1, <2>2
  <2>4. {e \in entries : e[1] = j} = {}
    BY <1>1, <2>2, <2>3
  <2>5. halves(j) = {}
    BY <2>4
  <2>6. j \in Listed(gui.list) /\ j \in Images
    BY <1>4, <2>2 DEF Listed
  <2> HIDE DEF halves
  <2> QED BY <1>1, <2>1, <2>5, <2>6
<1> HIDE DEF g, left
<1>6. AreRecords(records)
  BY DEF Agreed
<1> QED BY <1>1, <1>2, <1>3, <1>4, <1>5, <1>6, LoadAgrees, NothingToLoadAgrees

\* What is listed anew is there.
LEMMA SequenceIsThere ==
  ASSUME NEW pgs, NEW stage \in Int, NEW g, g.list = PageSequence(pgs, stage), g.stage = stage
  PROVE  WholeListed(g, pgs)
<1> SUFFICES ASSUME stage <= 2
             PROVE  /\ g.list \subseteq Images \X {"single"}
                    /\ \A i \in Listed(g.list) : pgs[i] # Gone
  BY DEF WholeListed
<1>1. \A p : SubPages(p, stage) = IF p.n = 0 THEN {} ELSE {"single"}
  BY DEF SubPages, PageView
<1>2. g.list \subseteq Images \X {"single"}
  BY <1>1 DEF PageSequence
<1>3. ASSUME NEW i \in Listed(g.list) PROVE pgs[i].n # 0
  BY <1>1 DEF PageSequence, Listed
<1> QED BY <1>2, <1>3 DEF Gone, Complete

\* The list is made anew, and thumbnails tell.
LEMMA SwitchStageAgrees ==
  ASSUME Inv, Agreed, NEW stage \in 1..LastStage, SwitchStage(stage)
  PROVE  Agreed'
<1> DEFINE pgs  == Propagated(gui.stage, stage)
           list == PageSequence(pgs, stage)
           g    == [gui EXCEPT !.stage = stage, !.list = list]
<1>1. PagesSound(pgs)
  BY PropagatedSound
<1>2. list \subseteq Images \X {"single", "left", "right"} /\ Listed(list) \subseteq Images
  BY SequenceIsOfPages, ListedImages
<1>3. /\ pages' = IF stage = 1 THEN pgs ELSE SyncAll(pgs, records, Listed(list))
      /\ \/ gui.selected \in Listed(list) /\ Load(records, gui.selected, g)
         \/ NothingToLoad(g)
  BY DEF SwitchStage
<1>4. stage \in Int
  BY SplitAssumption
<1> HIDE DEF pgs
<1>5. g.list = list /\ g.stage = stage /\ g.panel = gui.panel /\ g.selected = gui.selected
  BY DEF Agreed, IsShaped, GuiSound
<1>6. IsShaped(g)
  <2>1. DOMAIN g = {"stage", "selected", "list", "panel"}
    BY DEF Agreed, IsShaped, GuiSound
  <2> HIDE DEF g, list
  <2> QED BY <1>2, <1>4, <1>5, <2>1 DEF Agreed, IsShaped, GuiSound
<1>7. WholeListed(g, pages')
  <2>1. WholeListed(g, pgs)
    BY <1>4, <1>5, SequenceIsThere
  <2>2. \A i \in Images : pages'[i] = Gone => pgs[i] = Gone
    BY <1>1, <1>3, SyncAllAgrees
  <2> HIDE DEF g
  <2> QED BY <1>6, <2>1, <2>2, WholeListedKept DEF IsShaped
<1> HIDE DEF g, list
<1>8. AreRecords(records)
  BY DEF Agreed
<1> QED BY <1>2, <1>3, <1>5, <1>6, <1>7, <1>8, LoadAgrees, NothingToLoadAgrees

\* A project that is opened lists its images, and one is loaded.
LEMMA SaveAndReopenAgrees ==
  ASSUME Inv, Agreed, NEW i \in Images, SaveAndReopen(i)
  PROVE  Agreed'
<1> DEFINE recs == [j \in Images |-> IF pages[j] = Gone THEN NoRecord ELSE Saved(records[j])]
           pgs  == [j \in Images |-> Normalised(pages[j])]
           list == PageSequence(pgs, 1)
           g    == [stage |-> 1, selected |-> i, list |-> list,
                    panel |-> [gui.panel EXCEPT !.live = FALSE]]
<1>1. i \in Listed(list) /\ pages' = pgs /\ Load(recs, i, g)
  BY DEF SaveAndReopen
<1>2. AreRecords(recs)
  BY InitialRecordsAreRecords DEF Agreed, AreRecords, Saved
<1>3. list \subseteq Images \X {"single", "left", "right"}
  BY SequenceIsOfPages
<1> HIDE DEF recs, pgs
<1>4. WholeListed(g, pgs)
  BY SequenceIsThere
<1> HIDE DEF list
<1>5. IsShaped(g) /\ g.list = list
  BY <1>3 DEF Agreed, IsShaped, GuiSound
<1> HIDE DEF g
<1> QED BY <1>1, <1>2, <1>4, <1>5, LoadAgrees
-----------------------------------------------------------------------------
(* Tasks agree with what is shown.                                         *)

\* A task goes on.  If it has been cancelled, whatever it writes is overtaken;
\* if not, it is the only one, and the panel waits for it.
LEMMA TaskStepAgrees ==
  ASSUME Inv, Agreed, NEW t \in DOMAIN tasks, NEW task, IsTask(task),
         tasks' = [tasks EXCEPT ![t] = task], task.cancelled = tasks[t].cancelled,
         task.image = tasks[t].image, task.stage = tasks[t].stage,
         gui' = gui, rotation' = rotation, overtaken \subseteq overtaken',
         AreRecords(records'), \A i \in Images : pages'[i] = Gone => pages[i] = Gone,
         tasks[t].cancelled =>
           \A i \in Images : i \notin overtaken' =>
             records'[i] = records[i] /\ pages'[i] = pages[i],
         ~tasks[t].cancelled /\ task.image \notin overtaken' => Tells(task, records'[task.image])
  PROVE  Agreed'
<1>1. /\ DOMAIN tasks' = DOMAIN tasks /\ tasks'[t] = task
      /\ \A u \in DOMAIN tasks : u # t => tasks'[u] = tasks[u]
  OBVIOUS
<1>2. AreTasks(tasks')
  BY <1>1 DEF Agreed, AreTasks
<1>3. \A u \in DOMAIN tasks : /\ tasks'[u].cancelled = tasks[u].cancelled
                              /\ tasks'[u].image = tasks[u].image
                              /\ tasks'[u].stage = tasks[u].stage
  BY <1>1
<1>4. OneAtWork'
  BY <1>1, <1>3 DEF Agreed, OneAtWork
<1>5. SelectedListed(gui') /\ IsShaped(gui')
  BY DEF Agreed
<1>6. WholeListed(gui', pages')
  BY WholeListedKept DEF Agreed, IsShaped
<1>7. ASSUME NEW u \in DOMAIN tasks, ~tasks[u].cancelled, tasks[u].image \notin overtaken'
      PROVE  Tells(tasks'[u], records'[tasks[u].image])
  <2>1. CASE u = t
    BY <1>1, <1>7, <2>1
  <2>2. CASE u # t
    <3>1. tasks[t].cancelled
      BY <1>7, <2>2 DEF Agreed, OneAtWork
    <3>2. tasks[u].image \in Images
      BY DEF Inv, TasksSound, TaskSound
    <3>3. Tells(tasks[u], records[tasks[u].image])
      BY <1>7 DEF Agreed, Carried
    <3> QED BY <1>1, <1>7, <2>2, <3>1, <3>2, <3>3
  <2> QED BY <2>1, <2>2
<1>8. Carried'
  BY <1>1, <1>3, <1>7 DEF Carried
<1>9. ShownIsStored'
  <2>1. gui.panel.live => tasks[t].cancelled
    BY DEF Agreed, OneAtWork
  <2>2. AtSplit => Current \in Images
    BY CurrentImage
  <2> QED BY <2>1, <2>2 DEF Agreed, ShownIsStored, AtSplit, Current
<1> QED BY <1>2, <1>4, <1>5, <1>6, <1>8, <1>9 DEF Agreed

\* Until it has read the record, a task tells nothing.
LEMMA ReadsAgree ==
  ASSUME Inv, Agreed, NEW t \in DOMAIN tasks, ReadRotation(t) \/ ReadRecord(t)
  PROVE  Agreed'
<1>1. /\ IsTask(tasks[t]) /\ tasks[t].image \in Images
      /\ IsRecord(records[tasks[t].image]) /\ AreRecords(records)
  BY DEF Agreed, AreTasks, AreRecords, Inv, TasksSound, TaskSound
<1>2. UNCHANGED <<records, pages, overtaken, rotation, gui>>
  BY DEF ReadRotation, ReadRecord, Unused
<1>3. CASE ReadRotation(t)
  <2> DEFINE pc   == IF tasks[t].stage = 1 THEN "posted" ELSE "turned"
             rot  == rotation[tasks[t].image]
             task == [tasks[t] EXCEPT !.rot = rot, !.pc = pc]
  <2>1. tasks' = [tasks EXCEPT ![t] = task]
    BY <1>3 DEF ReadRotation, Moved
  <2>2. task.pc = "turned" \/ (task.pc = "posted" /\ task.stage = 1)
    BY <1>1 DEF IsTask
  <2>3. /\ IsTask(task) /\ task.cancelled = tasks[t].cancelled
        /\ task.image = tasks[t].image /\ task.stage = tasks[t].stage
    BY <1>1 DEF IsTask
  <2> HIDE DEF task
  <2>4. \A r : Tells(task, r)
    BY <2>2 DEF Tells
  <2> QED BY <1>1, <1>2, <2>1, <2>3, <2>4, TaskStepAgrees
<1>4. CASE ReadRecord(t)
  <2> DEFINE r    == records[tasks[t].image]
             data == [tasks[t].data EXCEPT !.lt = CombinedType(r)]
             task == [tasks[t] EXCEPT !.record = r, !.pc = "decide", !.data = data]
  <2>1. tasks' = [tasks EXCEPT ![t] = task]
    BY <1>1, <1>4 DEF ReadRecord, Moved, IsTask
  <2>2. IsParams(data)
    BY <1>1 DEF IsTask, IsParams
  <2> HIDE DEF data
  <2>3. /\ IsTask(task) /\ task.cancelled = tasks[t].cancelled
        /\ task.image = tasks[t].image /\ task.stage = tasks[t].stage
        /\ task.pc = "decide" /\ task.record = r
    BY <1>1, <2>2 DEF IsTask
  <2> HIDE DEF task
  <2>4. Tells(task, records'[task.image])
    BY <1>2, <2>3 DEF Tells
  <2> QED BY <1>1, <1>2, <2>1, <2>3, <2>4, TaskStepAgrees
<1> QED BY <1>3, <1>4

\* What a task makes of a record has the fields of one.
LEMMA NewParamsAreParams ==
  ASSUME NEW task, IsTask(task), NEW edge
  PROVE  IsParams(NewParams(task, edge))
<1>1. IsParams(task.record.params)
  BY DEF IsTask, IsRecord
<1>2. \A lt : IsParams(Estimate(task.image, task.rot, lt))
  BY DEF IsParams, Estimate
<1>3. IsParams(Whole(task)) /\ IsParams(Adapted(task, edge))
  BY <1>1 DEF IsParams, Whole, Adapted
<1> QED BY <1>2, <1>3 DEF NewParams

\* A task shows what it found on record, or what it has left on record.
LEMMA DecideAgrees ==
  ASSUME Inv, Agreed, NEW t \in DOMAIN tasks, NEW edge, Decide(t, edge)
  PROVE  Agreed'
<1> DEFINE old == tasks[t]
           i   == old.image
           new == NewParams(old, edge)
           r   == ConditionalUpdate(records[i], new.lt, new)
<1>1. /\ IsTask(old) /\ i \in Images /\ IsRecord(records[i]) /\ AreRecords(records)
      /\ old.pc = "decide" /\ UNCHANGED <<pages, rotation, gui>>
  BY DEF Agreed, AreTasks, AreRecords, Inv, TasksSound, TaskSound, Decide, Unused
<1>2. IsRecord(r)
  <2>1. IsParams(new)
    BY <1>1, NewParamsAreParams
  <2> HIDE DEF new
  <2> QED BY <1>1, <2>1, UpdatesAreRecords
<1>3. ASSUME NEW s, IsRecord(s), NEW lt
      PROVE  IsParams(UiData(old, lt, s)) /\ Same(s.params, UiData(old, lt, s))
  BY <1>3 DEF UiData, IsRecord, IsParams, Same
<1>4. CASE /\ IsRight(old)
           /\ Moved(t, [old EXCEPT !.pc = "split", !.data = UiData(old, @.lt, old.record)])
           /\ UNCHANGED <<records, overtaken>>
  <2> DEFINE data == UiData(old, old.data.lt, old.record)
             task == [old EXCEPT !.pc = "split", !.data = data]
  <2>1. tasks' = [tasks EXCEPT ![t] = task]
    BY <1>1, <1>4 DEF Moved, IsTask
  <2>2. IsParams(data) /\ Same(old.record.params, data)
    BY <1>1, <1>3 DEF IsTask
  <2> HIDE DEF data
  <2>3. /\ IsTask(task) /\ task.cancelled = old.cancelled
        /\ task.image = i /\ task.stage = old.stage
        /\ task.pc = "split" /\ task.data = data
    BY <1>1, <2>2 DEF IsTask
  <2> HIDE DEF task
  <2>4. ASSUME ~old.cancelled, i \notin overtaken PROVE Tells(task, records[i])
    <3>1. old.record.params = records[i].params
      BY <1>1, <2>4 DEF Agreed, Carried, Tells
    <3>2. HasParams(records[i])
      BY <1>4, <3>1 DEF IsRight, IsCurrent, HasParams
    <3> QED BY <2>2, <2>3, <3>1, <3>2 DEF Tells
  <2> QED BY <1>1, <1>4, <2>1, <2>3, <2>4, TaskStepAgrees
<1>5. CASE /\ ~IsRight(old)
           /\ records' = [records EXCEPT ![i] = r]
           /\ overtaken' = Overtakes(old)
           /\ Moved(t, [old EXCEPT !.record = r, !.data = UiData(old, new.lt, r),
                                   !.pc = IF HasParams(r) THEN "split" ELSE "decide"])
  <2> DEFINE data == UiData(old, new.lt, r)
             pc   == IF HasParams(r) THEN "split" ELSE "decide"
             task == [old EXCEPT !.record = r, !.data = data, !.pc = pc]
  <2>1. tasks' = [tasks EXCEPT ![t] = task]
    BY <1>5 DEF Moved
  <2> HIDE DEF r
  <2>2. IsParams(data) /\ Same(r.params, data)
    BY <1>2, <1>3
  <2> HIDE DEF data
  <2>3. /\ IsTask(task) /\ task.cancelled = old.cancelled
        /\ task.image = i /\ task.stage = old.stage
        /\ task.pc = pc /\ task.data = data /\ task.record = r
    BY <1>1, <1>2, <2>2 DEF IsTask
  <2> HIDE DEF task
  <2>4. records'[i] = r /\ AreRecords(records')
    BY <1>1, <1>2, <1>5 DEF AreRecords
  <2>5. Tells(task, records'[i])
    BY <2>2, <2>3, <2>4 DEF Tells
  <2>6. /\ overtaken \subseteq overtaken'
        /\ old.cancelled => \A j \in Images : j \notin overtaken' => records'[j] = records[j]
    BY <1>1, <1>5 DEF Overtakes, AreRecords
  <2> QED BY <1>1, <2>1, <2>3, <2>4, <2>5, <2>6, TaskStepAgrees
<1> QED BY <1>4, <1>5 DEF Decide

\* Splitting changes the number of pages.
LEMMA SplitImageAgrees ==
  ASSUME Inv, Agreed, NEW t \in DOMAIN tasks, SplitImage(t)
  PROVE  Agreed'
<1> DEFINE old  == tasks[t]
           i    == old.image
           n    == PageCount(old.data.type)
           task == [old EXCEPT !.pc = "posted"]
<1>1. /\ IsTask(old) /\ i \in Images /\ AreRecords(records) /\ Sound(pages[i])
  BY DEF Agreed, AreTasks, Inv, TasksSound, TaskSound, PagesSound
<1>2. /\ old.pc = "split" /\ pages' = [pages EXCEPT ![i] = SetPages(@, n)]
      /\ overtaken' = Overtakes(old)
      /\ tasks' = [tasks EXCEPT ![t] = task]
      /\ UNCHANGED <<records, rotation, gui>>
  BY DEF SplitImage, Moved, Unused
<1>3. /\ IsTask(task) /\ task.cancelled = old.cancelled /\ task.image = i
      /\ task.stage = old.stage /\ task.pc = "posted" /\ task.data = old.data
  BY <1>1 DEF IsTask
<1>4. n \in {1, 2}
  BY CountIsOneOrTwo
<1> HIDE DEF n, task
<1>5. \A j \in Images : pages'[j] = Gone => pages[j] = Gone
  BY <1>1, <1>2, <1>4, SetPagesTwice DEF Inv, PagesSound
<1>6. /\ overtaken \subseteq overtaken'
      /\ old.cancelled => \A j \in Images : j \notin overtaken' => pages'[j] = pages[j]
  BY <1>1, <1>2 DEF Overtakes, Inv, PagesSound
<1>7. ASSUME ~old.cancelled, i \notin overtaken' PROVE Tells(task, records[i])
  <2>1. Tells(old, records[i])
    BY <1>6, <1>7 DEF Agreed, Carried
  <2> QED BY <1>2, <1>3, <2>1 DEF Tells
<1> QED BY <1>1, <1>2, <1>3, <1>5, <1>6, <1>7, TaskStepAgrees

\* A cancelled task that ends leaves no trace.
LEMMA DropAgrees ==
  ASSUME Inv, Agreed, NEW t \in DOMAIN tasks, Drop(t)
  PROVE  Agreed'
<1>1. /\ tasks' = [u \in DOMAIN tasks \ {t} |-> tasks[u]]
      /\ UNCHANGED <<records, pages, overtaken, rotation, gui>>
  BY DEF Drop, Unused
<1>2. AreTasks(tasks') /\ OneAtWork' /\ Carried'
  BY <1>1 DEF Agreed, AreTasks, OneAtWork, Carried
<1>3. ShownIsStored'
  BY <1>1 DEF Agreed, ShownIsStored, AtSplit, Current
<1> QED BY <1>1, <1>2, <1>3 DEF Agreed

\* A result that is shown is what is on record, and its thumbnail tells.
LEMMA DeliverAgrees ==
  ASSUME Inv, Agreed, NEW t \in DOMAIN tasks, Deliver(t)
  PROVE  Agreed'
<1> DEFINE task == tasks[t]
           i    == task.image
           data == task.data
<1>1. /\ IsTask(task) /\ i \in Images /\ IsShaped(gui) /\ i = gui.selected
      /\ task.stage = gui.stage /\ ~task.cancelled /\ ~gui.panel.live /\ task.pc = "posted"
      /\ \A u \in DOMAIN tasks : ~tasks[u].cancelled => u = t
  BY DEF Deliver, Agreed, AreTasks, OneAtWork, Inv, TasksSound, TaskSound
<1>2. /\ tasks' = [u \in DOMAIN tasks \ {t} |-> tasks[u]]
      /\ UNCHANGED <<records, overtaken>>
  BY DEF Deliver
<1>3. /\ AreTasks(tasks') /\ \A u \in DOMAIN tasks' : tasks'[u].cancelled
  BY <1>1, <1>2 DEF Agreed, AreTasks
<1>4. OneAtWork' /\ Carried'
  BY <1>3 DEF OneAtWork, Carried
<1>5. \/ /\ task.stage = 1 /\ pages' = pages
         /\ gui' = [gui EXCEPT !.panel.rot = task.rot]
      \/ /\ task.stage = 2 /\ rotation' = rotation
         /\ gui' = [gui EXCEPT !.panel.ui = data, !.panel.live = TRUE, !.panel.checked = data.type]
         /\ pages' = SyncAll(pages, records, {i} \cap Listed(gui.list))
      \/ /\ task.stage > 2 /\ gui' = gui
         /\ pages' = SyncAll(pages, records, {i} \cap Listed(gui.list))
  BY DEF Deliver
<1>6. IsParams(data)
  BY <1>1 DEF IsTask
<1> HIDE DEF data
<1>7. /\ gui'.stage = gui.stage /\ gui'.selected = gui.selected /\ gui'.list = gui.list
      /\ gui'.panel.ui = IF task.stage = 2 THEN data ELSE gui.panel.ui
  <2>1. DOMAIN gui = {"stage", "selected", "list", "panel"}
    BY <1>1 DEF IsShaped, GuiSound
  <2>2. DOMAIN gui.panel = {"rot", "checked", "ui", "live"}
    BY <1>1 DEF IsShaped, GuiSound
  <2>3. CASE task.stage = 1 /\ gui' = [gui EXCEPT !.panel.rot = task.rot]
    BY <2>1, <2>2, <2>3
  <2>4. CASE /\ task.stage = 2
             /\ gui' = [gui EXCEPT !.panel.ui = data, !.panel.live = TRUE,
                                   !.panel.checked = data.type]
    BY <2>1, <2>2, <2>4
  <2>5. CASE task.stage > 2 /\ gui' = gui
    BY <2>5
  <2> QED BY <1>5, <2>3, <2>4, <2>5
<1>8. IsShaped(gui')
  <2>1. GuiSound(gui')
    BY DeliverKeeps DEF Inv
  <2>2. IsParams(gui'.panel.ui)
    BY <1>1, <1>6, <1>7 DEF IsShaped
  <2> QED BY <1>1, <1>7, <2>1, <2>2 DEF IsShaped
<1>9. SelectedListed(gui') /\ WholeListed(gui', pages')
  <2>1. \A j \in Images : pages'[j] = Gone => pages[j] = Gone
    BY <1>5, SyncAllAgrees DEF Inv
  <2>2. SelectedListed(gui') /\ WholeListed(gui', pages)
    BY <1>7 DEF Agreed, SelectedListed, WholeListed
  <2> QED BY <1>8, <2>1, <2>2, WholeListedKept DEF IsShaped
<1>10. ShownIsStored'
  <2> SUFFICES ASSUME gui.stage = 2, i \notin overtaken
               PROVE  /\ HasParams(records[i]) /\ Same(records[i].params, data)
                      /\ pages'[i] = SyncedPages(pages'[i], records[i], rotation[i])
    BY <1>1, <1>2, <1>5, <1>7 DEF ShownIsStored, AtSplit, Current, Same
  <2>1. HasParams(records[i]) /\ Same(records[i].params, data)
    BY <1>1 DEF Agreed, Carried, Tells, data
  <2>2. i \in Listed(gui.list)
    BY <1>1, SplitAssumption DEF Agreed, SelectedListed
  <2> DEFINE told == {i} \cap Listed(gui.list)
  <2>3. pages' = SyncAll(pages, records, told) /\ i \in told
    BY <1>1, <1>5, <2>2
  <2>4. PagesSound(pages)
    BY DEF Inv
  <2> HIDE DEF told
  <2>5. pages'[i] = SyncedPages(pages'[i], records[i], rotation[i])
    BY <1>1, <2>3, <2>4, SyncAllAgrees
  <2> QED BY <2>1, <2>5
<1>11. AreRecords(records')
  BY <1>2 DEF Agreed
<1> QED BY <1>3, <1>4, <1>8, <1>9, <1>10, <1>11 DEF Agreed

\* A project that is opened shows nothing yet.
LEMMA InitAgrees == Init => Agreed
<1> SUFFICES ASSUME Init PROVE Agreed
  OBVIOUS
<1>1. PICK i \in Images :
        /\ \/ /\ records = [j \in Images |-> IF j = i THEN Fresh(i) ELSE NoRecord]
              /\ pages = [j \in Images |-> Complete(Advised[0])]
           \/ /\ records = [j \in Images |-> IF j = i THEN Spread(i) ELSE NoRecord]
              /\ pages = [j \in Images |-> IF j = i THEN [n |-> 1, left |-> TRUE, right |-> FALSE]
                                           ELSE Complete(Advised[0])]
        /\ gui = [stage |-> 1, selected |-> i, list |-> Images \X {"single"},
                  panel |-> [rot |-> 0, checked |-> "none", ui |-> NullUi, live |-> FALSE]]
        /\ tasks = [t \in {0} |-> NewTask(i, 1)]
  BY DEF Init
<1>2. AreRecords(records)
  BY <1>1, InitialRecordsAreRecords DEF AreRecords
<1>3. IsTask(NewTask(i, 1)) /\ NewTask(i, 1).pc = "start" /\ NewTask(i, 1).image = i
      /\ NewTask(i, 1).stage = 1
  BY InitialRecordsAreRecords DEF IsTask, NewTask
<1>4. AreTasks(tasks) /\ Carried
  BY <1>1, <1>3 DEF AreTasks, Carried, Tells
<1>5. IsShaped(gui) /\ gui.stage = 1 /\ gui.selected = i /\ ~gui.panel.live
  <2>1. GuiSound(gui)
    BY InitEstablishes DEF Inv
  <2> QED BY <1>1, <2>1, InitialRecordsAreRecords DEF IsShaped
<1>6. OneAtWork
  BY <1>1, <1>3, <1>5 DEF OneAtWork
<1>7. SelectedListed(gui)
  <2>1. <<i, "single">> \in gui.list
    BY <1>1
  <2>2. <<i, "single">>[1] \in Listed(gui.list)
    BY <2>1 DEF Listed
  <2> QED BY <1>5, <2>2 DEF SelectedListed
<1>8. WholeListed(gui, pages)
  <2>1. Advised[0] \in {1, 2}
    BY SplitAssumption
  <2>2. \A j \in Images : pages[j].n # 0
    BY <1>1, <2>1 DEF Complete
  <2> QED BY <1>1, <2>2 DEF WholeListed, Listed, Gone, Complete
<1>9. ShownIsStored
  BY <1>5 DEF ShownIsStored
<1> QED BY <1>2, <1>4, <1>5, <1>6, <1>7, <1>8, <1>9 DEF Agreed

\* Every step keeps the panel, the tasks and the records in agreement.
LEMMA StepAgrees == Inv /\ Agreed /\ [Next]_vars => Agreed'
<1> SUFFICES ASSUME Inv, Agreed, [Next]_vars PROVE Agreed'
  OBVIOUS
<1>1. CASE Options
  BY <1>1, TurnsAgree, ToggleLayoutTypeAgrees, ApplyAgrees,
     SplitModeAutoAgrees, MoveSplitLineAgrees, UnremoveAgrees DEF Options
<1>2. CASE Window
  BY <1>2, SelectPageAgrees, InsertImageAgrees, SaveAndReopenAgrees,
     RemoveFromProjectAgrees, SwitchStageAgrees DEF Window
<1>3. CASE \E t \in DOMAIN tasks : Works(t) \/ Deliver(t)
  BY <1>3, ReadsAgree, DecideAgrees, SplitImageAgrees, DropAgrees, DeliverAgrees DEF Works
<1>4. CASE UNCHANGED vars
  BY <1>4 DEF vars, Agreed, AreRecords, AreTasks, OneAtWork, Carried, ShownIsStored, AtSplit,
     Current
<1> QED BY <1>1, <1>2, <1>3, <1>4 DEF Next

\* The page split panel shows the layout that is on record, and the image has
\* that many pages, unless its settings were changed by a cancelled task, by the
\* dialog, or by the user while they were being worked on.
THEOREM ShownStaysStored == Spec => []ShownIsStored
<1>1. Agreed => ShownIsStored
  BY DEF Agreed
<1> QED BY <1>1, InitEstablishes, StepKeeps, InitAgrees, StepAgrees, PTL DEF Spec
=============================================================================
