--------------------------- MODULE PageLayoutProofs ---------------------------
(***************************************************************************)
(* Proofs about PageLayout, for any pages, content boxes and margins: what *)
(* the aggregate size is, that sizes follow the content boxes, and that    *)
(* thumbnails show the aggregate size.                                     *)
(***************************************************************************)
EXTENDS PageLayout, Functions, SequenceTheorems, FiniteSetTheorems,
        WellFoundedInduction, TLAPS

-----------------------------------------------------------------------------
(* Sequences, sets and numbers.                                            *)

\* Of finitely many things with numbers, one has the largest.
LEMMA LargestOfFinite ==
  ASSUME NEW S, IsFiniteSet(S), S # {}, NEW f, \A x \in S : f[x] \in Int
  PROVE  \E x \in S : \A y \in S : f[y] <= f[x]
<1> DEFINE Largest(T) == \E x \in T : \A y \in T : f[y] <= f[x]
           Bad == {T \in FiniteSubsetsOf(S) : T # {} /\ ~Largest(T)}
<1>1. Bad = {}
  <2> SUFFICES ASSUME Bad # {} PROVE FALSE
    OBVIOUS
  <2>1. Bad \subseteq FiniteSubsetsOf(S)
    OBVIOUS
  <2>2. PICK T \in Bad : \A U \in Bad : ~(<<U, T>> \in StrictSubsetOrdering(S))
    <3>1. IsWellFoundedOn(StrictSubsetOrdering(S), FiniteSubsetsOf(S))
      BY FS_StrictSubsetOrderingWellFounded
    <3> HIDE DEF Bad
    <3> QED BY <2>1, <3>1, WFMin
  <2>3. T \subseteq S /\ IsFiniteSet(T) /\ T # {} /\ ~Largest(T)
    BY DEF FiniteSubsetsOf
  <2>4. PICK x \in T : TRUE
    BY <2>3
  <2> DEFINE U == T \ {x}
  <2>5. U \subseteq S /\ IsFiniteSet(U) /\ U \subseteq T /\ U # T
    BY <2>3, FS_RemoveElement
  <2>6. U \in FiniteSubsetsOf(S) /\ <<U, T>> \in StrictSubsetOrdering(S)
    BY <2>3, <2>5 DEF FiniteSubsetsOf, StrictSubsetOrdering
  <2>7. U = {} \/ Largest(U)
    BY <2>2, <2>6
  <2>8. CASE U = {}
    <3>1. \A y \in T : y = x
      BY <2>8
    <3>2. f[x] \in Int
      BY <2>3
    <3> QED BY <2>3, <3>1, <3>2
  <2>9. CASE Largest(U)
    <3>1. PICK z \in U : \A y \in U : f[y] <= f[z]
      BY <2>9
    <3>2. f[x] \in Int /\ f[z] \in Int /\ z \in T
      BY <2>3
    <3>3. CASE f[x] <= f[z]
      BY <2>3, <3>1, <3>2, <3>3
    <3>4. CASE f[z] < f[x]
      <4>1. \A y \in T : f[y] \in Int /\ (y = x \/ f[y] <= f[z])
        BY <2>3, <3>1
      <4>2. \A y \in T : f[y] <= f[x]
        BY <3>2, <3>4, <4>1
      <4> QED BY <2>3, <4>2
    <3> QED BY <3>2, <3>3, <3>4
  <2> QED BY <2>7, <2>8, <2>9
<1>2. S \in FiniteSubsetsOf(S)
  BY DEF FiniteSubsetsOf
<1> QED BY <1>1, <1>2
-----------------------------------------------------------------------------

Item == [margins : Int, size : Boxes \cup {Invalid}, aligned : BOOLEAN, auto : BOOLEAN]
View == [page : Pages \cup {NoPage}, aligned : BOOLEAN, committed : Int]
Task == [layout : BOOLEAN, cancelled : BOOLEAN, changed : BOOLEAN, alone : BOOLEAN,
         pc  : {"start", "content", "auto", "margins", "size", "done"},
         box : Boxes \cup {NoBox}]
Drawing == [left : SUBSET Pages, reading : Pages \cup {NoPage},
            size : Boxes \cup {Invalid}, then : Pages \cup {NoPage}]

ItemsTyped(its) ==
  /\ DOMAIN its \subseteq Pages
  /\ its \in [DOMAIN its -> Item]

\* A task that got past StoreContentBox() has a content box, and only one that is
\* done may have to tell of a change.
TasksTyped(ts) ==
  /\ ts \in [DOMAIN ts -> Task]
  /\ \A t \in DOMAIN ts :
       /\ PageOf(t) \in Pages
       /\ ts[t].pc \notin {"start", "content"} => ts[t].box \in Boxes
       /\ ts[t].pc # "done" => ~ts[t].changed

\* The values of the variables.
Typed ==
  /\ ItemsTyped(items) /\ TasksTyped(tasks)
  /\ exists \subseteq Pages
  /\ box \in [Pages -> Boxes \cup {NoBox}]
  /\ current \in Pages \cup {NoPage} /\ batch \in BOOLEAN /\ unnoticed \in BOOLEAN
  /\ thumbs \in [Pages -> Int]
  /\ drawing \in Drawing /\ view \in View

\* What is selected, shown or worked on for the user has an item.
Present ==
  /\ exists # {} => current \in Pages
  /\ batch => exists # {}
  /\ view.page # NoPage => view.page \in DOMAIN items
  /\ drawing.reading # NoPage => drawing.reading \in DOMAIN items
  /\ \A t \in DOMAIN tasks : ~tasks[t].cancelled => PageOf(t) \in DOMAIN items
  /\ drawing.then # NoPage => \A t \in DOMAIN tasks : tasks[t].cancelled

\* The history of pages tells which tasks have company.
Company ==
  \A t \in DOMAIN tasks :
    IF tasks[t].cancelled \/ ~tasks[t].alone THEN PageOf(t) \in crowded
    ELSE \A u \in DOMAIN tasks \ {t} : PageOf(u) # PageOf(t)

\* What a page is written from, by a task or by the drawing of its thumbnail.
SourcesCurrent ==
  stage = "layout" =>
    /\ \A t \in DOMAIN tasks :
         ~tasks[t].cancelled /\ tasks[t].alone /\ tasks[t].pc \notin {"start", "done"}
         => box[PageOf(t)] = tasks[t].box
    /\ drawing.reading \in exists \ crowded /\ drawing.size # Invalid
       => drawing.size = box[drawing.reading]

\* Some task is to tell that it changed the aggregate size.
SomeoneTells(ts) == \E t \in DOMAIN ts : ~ts[t].cancelled /\ ts[t].changed

\* Thumbnails that are not to be drawn again show what they should.
DrawnThumbsShow ==
  /\ \A p \in Pages : thumbs[p] # Incomplete => p \in DOMAIN items
  /\ stage = "layout" /\ ~unnoticed /\ ~SomeoneTells(tasks)
     => \A p \in (exists \cap DOMAIN items) \ (drawing.left \cup {drawing.reading}) :
          items[p].aligned /\ thumbs[p] # Incomplete => thumbs[p] = Aggregate(items)

Inv == Typed /\ Present /\ Company /\ SourcesCurrent /\ DefinedIsCurrent /\ DrawnThumbsShow
-----------------------------------------------------------------------------
(* Operators of the settings.                                              *)

\* A page there is an item for, or not, has the item that is read of it.
LEMMA ItemOfTyped ==
  ASSUME NEW its, ItemsTyped(its), NEW p
  PROVE  ItemOf(its, p) \in Item
BY LayoutAssumption DEF ItemsTyped, ItemOf, DefaultItem, Item

\* Storing an item leaves the items of other pages alone.
LEMMA PutTyped ==
  ASSUME NEW its, ItemsTyped(its), NEW p \in Pages, NEW item \in Item
  PROVE  LET new == Put(its, p, item)
         IN /\ ItemsTyped(new)
            /\ DOMAIN new = DOMAIN its \cup {p}
            /\ new[p] = item
            /\ \A q \in DOMAIN its \ {p} : new[q] = its[q]
BY DEF ItemsTyped, Put

\* One of the items comes first in the order of the index.
LEMMA SomeFirst ==
  ASSUME NEW its, ItemsTyped(its), DOMAIN its # {}
  PROVE  \E p \in DOMAIN its : \A q \in DOMAIN its : Precedes(its[p], its[q])
<1> DEFINE D == DOMAIN its
           M == {p \in D : its[p].aligned}
           f == [p \in D |-> HardWidth(its[p])]
<1>1. IsFiniteSet(D) /\ D # {}
  BY LayoutAssumption, FS_Subset DEF ItemsTyped
<1>2. IsFiniteSet(M) /\ M \subseteq D
  BY <1>1, FS_Subset
<1>3. \A p \in D : f[p] \in Int /\ f[p] = HardWidth(its[p]) /\ its[p].aligned \in BOOLEAN
  BY LayoutAssumption DEF ItemsTyped, Item, HardWidth, Invalid
<1>4. CASE M = {}
  <2>1. PICK p \in D : \A q \in D : f[q] <= f[p]
    <3> HIDE DEF f, D
    <3> QED BY <1>1, <1>3, LargestOfFinite
  <2>2. \A q \in D : ~its[q].aligned
    BY <1>4
  <2>3. \A q \in D : its[p].aligned = its[q].aligned
    BY <1>3, <2>2
  <2> QED BY <1>3, <2>1, <2>3 DEF Precedes
<1>5. CASE M # {}
  <2>1. PICK p \in M : \A q \in M : f[q] <= f[p]
    <3>1. \A q \in M : f[q] \in Int
      BY <1>2, <1>3
    <3> HIDE DEF f, D, M
    <3> QED BY <1>2, <1>5, <3>1, LargestOfFinite
  <2>2. ASSUME NEW q \in D PROVE Precedes(its[p], its[q])
    <3>1. CASE q \in M
      <4>1. its[p].aligned = its[q].aligned
        BY <1>3, <3>1
      <4> QED BY <1>3, <2>1, <3>1, <4>1 DEF Precedes
    <3>2. CASE q \notin M
      BY <3>2 DEF Precedes
    <3> QED BY <3>1, <3>2
  <2> QED BY <1>2, <2>2
<1> QED BY <1>4, <1>5

\* The aggregate size is that of the largest page to match others, or none.
LEMMA AggregateSound ==
  ASSUME NEW its, ItemsTyped(its)
  PROVE  LET matching == {p \in DOMAIN its : its[p].aligned}
         IN /\ Aggregate(its) \in Int
            /\ \A p \in matching : HardWidth(its[p]) <= Aggregate(its)
            /\ IF matching = {} THEN Aggregate(its) = 0
               ELSE \E p \in matching : Aggregate(its) = HardWidth(its[p])
<1> DEFINE matching == {p \in DOMAIN its : its[p].aligned}
           first == CHOOSE p \in DOMAIN its : \A q \in DOMAIN its : Precedes(its[p], its[q])
<1>1. CASE DOMAIN its = {}
  BY <1>1 DEF Aggregate
<1>2. CASE DOMAIN its # {}
  <2>1. first \in DOMAIN its /\ \A q \in DOMAIN its : Precedes(its[first], its[q])
    BY <1>2, SomeFirst
  <2>2. Aggregate(its) = IF its[first].aligned THEN HardWidth(its[first]) ELSE 0
    BY <1>2 DEF Aggregate
  <2> HIDE DEF first
  <2>3. \A p \in DOMAIN its : HardWidth(its[p]) \in Int /\ its[p].aligned \in BOOLEAN
    BY LayoutAssumption DEF ItemsTyped, Item, HardWidth, Invalid
  <2>4. CASE its[first].aligned
    <3>1. \A p \in matching : HardWidth(its[p]) <= HardWidth(its[first])
      BY <2>1, <2>3 DEF Precedes
    <3> QED BY <2>1, <2>2, <2>3, <2>4, <3>1
  <2>5. CASE ~its[first].aligned
    <3>1. \A p \in DOMAIN its : ~its[p].aligned
      BY <2>1, <2>3, <2>5 DEF Precedes
    <3> QED BY <2>2, <2>5, <3>1
  <2> QED BY <2>4, <2>5
<1> QED BY <1>1, <1>2
-----------------------------------------------------------------------------
(* Tasks that are started, cancelled and moved on.                         *)

\* The tasks there are when some are started and all others cancelled.
Restarted(n, pages) ==
  [t \in DOMAIN tasks \cup ({n} \X pages) |->
     IF t \notin {n} \X pages THEN Cancelled[t]
     ELSE NewTask(stage = "layout", \A u \in DOMAIN tasks : PageOf(u) # PageOf(t))]

\* Tasks are started by one operator, and cancelled by another.
LEMMA StartedOrCancelled ==
  /\ \A pages : StartTasks(pages) => tasks' = Restarted(loads + 1, pages)
  /\ Cancelled = Restarted(0, {})
<1>1. \A pages : StartTasks(pages) => tasks' = Restarted(loads + 1, pages)
  BY DEF StartTasks, Restarted
<1>2. Cancelled = Restarted(0, {})
  BY DEF Cancelled, Restarted
<1> QED BY <1>1, <1>2

\* After a restart only new tasks are not cancelled, and these have done nothing.
LEMMA RestartedTasks ==
  ASSUME Typed, NEW n, NEW pages \in SUBSET Pages
  PROVE  LET new == Restarted(n, pages)
         IN /\ TasksTyped(new)
            /\ ~SomeoneTells(new)
            /\ \A t \in DOMAIN new : ~new[t].cancelled => /\ new[t].pc = "start"
                                                          /\ PageOf(t) \in pages
<1> DEFINE new == Restarted(n, pages)
<1>1. \A t \in DOMAIN new : t \notin {n} \X pages =>
         /\ t \in DOMAIN tasks
         /\ new[t] = [tasks[t] EXCEPT !.cancelled = TRUE]
  BY DEF Restarted, Cancelled
<1>2. \A t \in {n} \X pages :
         /\ t \in DOMAIN new /\ PageOf(t) \in pages
         /\ new[t] \in Task /\ new[t].pc = "start" /\ ~new[t].changed
  BY DEF Restarted, NewTask, Task, PageOf
<1>3. \A t \in DOMAIN tasks : /\ tasks[t] \in Task /\ PageOf(t) \in Pages
                              /\ tasks[t].pc \notin {"start", "content"} => tasks[t].box \in Boxes
                              /\ tasks[t].pc # "done" => ~tasks[t].changed
  BY DEF Typed, TasksTyped
<1>4. new \in [DOMAIN new -> Task]
  <2>1. \A t \in DOMAIN new : new[t] \in Task
    BY <1>1, <1>2, <1>3 DEF Task
  <2>2. new = [t \in DOMAIN new |-> new[t]]
    BY DEF Restarted
  <2> HIDE DEF new
  <2> QED BY <2>1, <2>2
<1> HIDE DEF new
<1>5. \A t \in DOMAIN new : t \notin {n} \X pages =>
         /\ new[t].cancelled /\ PageOf(t) \in Pages
         /\ new[t].pc \notin {"start", "content"} => new[t].box \in Boxes
         /\ new[t].pc # "done" => ~new[t].changed
  BY <1>1, <1>3 DEF Task
<1>6. TasksTyped(new)
  BY <1>2, <1>4, <1>5 DEF TasksTyped
<1>7. ~SomeoneTells(new)
  BY <1>2, <1>5 DEF SomeoneTells
<1> QED BY <1>2, <1>5, <1>6, <1>7 DEF new

\* A new task is alone on its page when no other is about.
LEMMA RestartedCompany ==
  ASSUME Typed, NEW n, NEW pages \in SUBSET Pages, tasks' = Restarted(n, pages),
         \A t \in DOMAIN tasks : PageOf(t) \in crowded'
  PROVE  Company'
<1> SUFFICES ASSUME NEW t \in DOMAIN tasks'
             PROVE  IF tasks'[t].cancelled \/ ~tasks'[t].alone THEN PageOf(t) \in crowded'
                    ELSE \A u \in DOMAIN tasks' \ {t} : PageOf(u) # PageOf(t)
  BY DEF Company, PageOf
<1>1. DOMAIN tasks' = DOMAIN tasks \cup ({n} \X pages)
  BY DEF Restarted
<1>2. CASE t \notin {n} \X pages
  <2>1. t \in DOMAIN tasks /\ tasks[t] \in Task
    BY <1>1, <1>2 DEF Typed, TasksTyped
  <2>2. tasks'[t] = [tasks[t] EXCEPT !.cancelled = TRUE]
    BY <1>2, <2>1 DEF Restarted, Cancelled
  <2> QED BY <2>1, <2>2 DEF Task
<1>3. CASE t \in {n} \X pages
  <2>1. tasks'[t].alone <=> \A u \in DOMAIN tasks : PageOf(u) # PageOf(t)
    BY <1>3 DEF Restarted, NewTask
  <2>2. ~tasks'[t].cancelled
    BY <1>3 DEF Restarted, NewTask
  <2>3. \A u \in {n} \X pages : u # t => PageOf(u) # PageOf(t)
    BY <1>3 DEF PageOf
  <2> QED BY <1>1, <2>1, <2>2, <2>3
<1> QED BY <1>2, <1>3

\* A task that goes on keeps its page, and whether it is cancelled or alone.
LEMMA MovedTasks ==
  ASSUME Typed, NEW t \in DOMAIN tasks, NEW task \in Task, Moved(t, task),
         task.pc \notin {"start", "content"} => task.box \in Boxes,
         task.pc # "done" => ~task.changed
  PROVE  /\ TasksTyped(tasks') /\ DOMAIN tasks' = DOMAIN tasks /\ tasks'[t] = task
         /\ \A u \in DOMAIN tasks \ {t} : tasks'[u] = tasks[u]
<1>1. /\ DOMAIN tasks' = DOMAIN tasks /\ tasks'[t] = task
      /\ \A u \in DOMAIN tasks \ {t} : tasks'[u] = tasks[u]
      /\ tasks' \in [DOMAIN tasks -> Task]
  BY DEF Moved, Typed, TasksTyped
<1> QED BY <1>1 DEF Typed, TasksTyped

\* Items that are given to pages without any, or whose automatic margins are
\* switched, leave sizes and alignments as they were.
SameSizes(its, new) ==
  /\ DOMAIN its \subseteq DOMAIN new
  /\ \A p \in DOMAIN its : new[p].size = its[p].size /\ new[p].aligned = its[p].aligned
  /\ \A p \in DOMAIN new \ DOMAIN its : new[p].size = Invalid

\* Starting over, with new tasks for some pages and no thumbnail left to be drawn.
LEMMA RestartKeeps ==
  ASSUME Inv, NEW n, NEW pages \in SUBSET Pages, tasks' = Restarted(n, pages),
         ItemsTyped(items'), SameSizes(items, items'), pages \subseteq DOMAIN items',
         view' = NoView, exists' \subseteq exists, UNCHANGED <<box, stage, thumbs>>,
         drawing.left = {}, drawing.reading = NoPage, drawing' = Drawn,
         current' \in Pages \cup {NoPage}, batch' \in BOOLEAN,
         exists' # {} => current' \in Pages, batch' => exists' # {},
         crowded \subseteq crowded', \A t \in DOMAIN tasks : PageOf(t) \in crowded',
         unnoticed' \in BOOLEAN,
         ~unnoticed' => /\ ~unnoticed /\ ~SomeoneTells(tasks)
                        /\ Aggregate(items') = Aggregate(items)
  PROVE  Inv'
<1> USE DEF Inv
<1>1. /\ TasksTyped(tasks') /\ ~SomeoneTells(tasks')
      /\ \A t \in DOMAIN tasks' : ~tasks'[t].cancelled => /\ tasks'[t].pc = "start"
                                                          /\ PageOf(t) \in pages
  BY RestartedTasks
<1>2. /\ drawing'.left = {} /\ drawing'.reading = NoPage /\ drawing'.then = NoPage
      /\ drawing' \in Drawing
  BY DEF Drawn, Drawing
<1>3. Typed'
  <2>1. view' \in View
    BY DEF NoView, View
  <2>2. exists' \subseteq Pages /\ box' = box /\ thumbs' = thumbs
    BY DEF Typed
  <2> QED BY <1>1, <1>2, <2>1, <2>2 DEF Typed
<1>4. Present'
  <2>1. view'.page = NoPage
    BY DEF NoView
  <2>2. \A t \in DOMAIN tasks' : ~tasks'[t].cancelled => PageOf(t) \in DOMAIN items'
    BY <1>1
  <2> QED BY <1>2, <2>1, <2>2 DEF Present, PageOf
<1>5. Company'
  BY RestartedCompany
<1>6. SourcesCurrent'
  <2>1. NoPage \notin exists'
    BY LayoutAssumption DEF Typed
  <2> QED BY <1>1, <1>2, <2>1 DEF SourcesCurrent, PageOf
<1>7. DefinedIsCurrent'
  <2> SUFFICES ASSUME stage = "layout", NEW p \in exists' \ crowded',
                      p \in DOMAIN items', items'[p].size # Invalid
               PROVE  items'[p].size = box[p]
    BY DEF DefinedIsCurrent, Defined
  <2>1. p \in DOMAIN items /\ items[p].size = items'[p].size
    BY DEF SameSizes
  <2>2. p \in exists \ crowded
    OBVIOUS
  <2> QED BY <2>1, <2>2 DEF DefinedIsCurrent, Defined
<1>8. DrawnThumbsShow'
  <2>1. \A p \in Pages : thumbs[p] # Incomplete => p \in DOMAIN items /\ p \in DOMAIN items'
    BY DEF DrawnThumbsShow, SameSizes
  <2>2. ASSUME stage = "layout", ~unnoticed', NEW p \in exists' \cap DOMAIN items',
               items'[p].aligned, thumbs[p] # Incomplete
        PROVE  thumbs[p] = Aggregate(items')
    <3>1. p \in Pages /\ p # NoPage /\ p \in exists
      BY <2>2, LayoutAssumption DEF Typed
    <3>2. p \in DOMAIN items /\ items[p].aligned = items'[p].aligned
      BY <2>1, <2>2, <3>1 DEF SameSizes
    <3>3. thumbs[p] = Aggregate(items)
      BY <2>2, <3>1, <3>2 DEF DrawnThumbsShow
    <3> QED BY <2>2, <3>3
  <2> QED BY <2>1, <2>2 DEF DrawnThumbsShow
<1> QED BY <1>3, <1>4, <1>5, <1>6, <1>7, <1>8

\* Cancelling all tasks leaves their pages crowded, and notes what is not told.
LEMMA CancelAllNotes ==
  ASSUME Typed, CancelAll
  PROVE  /\ crowded \subseteq crowded' /\ \A t \in DOMAIN tasks : PageOf(t) \in crowded'
         /\ unnoticed' \in BOOLEAN
         /\ ~unnoticed' => /\ ~unnoticed /\ ~SomeoneTells(tasks)
                           /\ Aggregate(items') = Aggregate(items)
BY DEF CancelAll, Typed, SomeoneTells

\* The default settings are those of a page whose size is not known.
LEMMA WithItemTyped ==
  ASSUME NEW its, ItemsTyped(its), NEW p \in Pages
  PROVE  /\ ItemsTyped(WithItem(its, p)) /\ SameSizes(its, WithItem(its, p))
         /\ p \in DOMAIN WithItem(its, p)
<1> DEFINE item == ItemOf(its, p)
           new  == Put(its, p, item)
<1>1. item \in Item /\ WithItem(its, p) = new
  BY ItemOfTyped DEF WithItem
<1> HIDE DEF item
<1>2. LET put == Put(its, p, item)
      IN /\ ItemsTyped(put)
         /\ DOMAIN put = DOMAIN its \cup {p}
         /\ put[p] = item
         /\ \A q \in DOMAIN its \ {p} : put[q] = its[q]
  BY <1>1, PutTyped
<1>3. IF p \in DOMAIN its THEN item = its[p] ELSE item.size = Invalid
  BY DEF ItemOf, DefaultItem, item
<1> QED BY <1>1, <1>2, <1>3 DEF SameSizes

\* A page is loaded in place of what there was.
LEMMA LoadKeeps ==
  ASSUME Inv, NEW p \in Pages, Load(p), CancelAll, Idle,
         exists' \subseteq exists, current' \in Pages, batch' = FALSE,
         UNCHANGED <<box, stage, thumbs, drawing>>
  PROVE  Inv'
<1>1. tasks' = Restarted(loads + 1, {p}) /\ items' = WithItem(items, p) /\ view' = NoView
  BY StartedOrCancelled DEF Load
<1>2. ItemsTyped(items') /\ SameSizes(items, items') /\ {p} \subseteq DOMAIN items'
  BY <1>1, WithItemTyped DEF Inv, Typed
<1>3. drawing.left = {} /\ drawing.reading = NoPage /\ drawing' = Drawn
  BY DEF Idle, Drawn
<1>4. /\ crowded \subseteq crowded' /\ \A t \in DOMAIN tasks : PageOf(t) \in crowded'
      /\ unnoticed' \in BOOLEAN
      /\ ~unnoticed' => /\ ~unnoticed /\ ~SomeoneTells(tasks)
                        /\ Aggregate(items') = Aggregate(items)
  BY CancelAllNotes DEF Inv
<1> QED BY <1>1, <1>2, <1>3, <1>4, RestartKeeps

\* A page is selected.
LEMMA SelectPageKeeps ==
  ASSUME Inv, NEW p \in Pages, SelectPage(p)
  PROVE  Inv'
<1>1. /\ Load(p) /\ CancelAll /\ Idle /\ current' = p /\ exists' = exists
      /\ batch' = FALSE /\ UNCHANGED <<box, stage, thumbs, drawing>>
  BY DEF SelectPage, UserActs, Inv, Typed
<1> QED BY <1>1, LoadKeeps

\* A batch is stopped, and the page selected is loaded.
LEMMA StopBatchKeeps == Inv /\ StopBatch => Inv'
<1> SUFFICES ASSUME Inv, StopBatch PROVE Inv'
  OBVIOUS
<1>1. /\ Load(current) /\ CancelAll /\ Idle /\ current' = current /\ exists' = exists
      /\ batch' = FALSE /\ UNCHANGED <<box, stage, thumbs, drawing>>
  BY DEF StopBatch, UserActs
<1>2. current \in Pages
  BY DEF Inv, Present, StopBatch
<1> QED BY <1>1, <1>2, LoadKeeps

\* A page is removed; when it was the last one, nothing is loaded.
LEMMA RemovePageKeeps ==
  ASSUME Inv, NEW p \in Pages, RemovePage(p)
  PROVE  Inv'
<1>1. /\ CancelAll /\ Idle /\ batch' = FALSE /\ exists' = exists \ {p}
      /\ UNCHANGED <<box, stage, thumbs, drawing>>
  BY DEF RemovePage, UserActs, Inv, Typed
<1>2. CASE exists' # {}
  <2>1. PICK q \in exists' : current' = q /\ Load(q)
    BY <1>2 DEF RemovePage
  <2>2. q \in Pages
    BY <1>1 DEF Inv, Typed
  <2> QED BY <1>1, <2>1, <2>2, LoadKeeps
<1>3. CASE exists' = {}
  <2>1. /\ current' = NoPage /\ view' = NoView /\ tasks' = Restarted(0, {})
        /\ items' = items
    BY <1>3, StartedOrCancelled DEF RemovePage
  <2>2. ItemsTyped(items') /\ SameSizes(items, items')
    BY <2>1 DEF Inv, Typed, SameSizes
  <2>3. drawing.left = {} /\ drawing.reading = NoPage /\ drawing' = Drawn
    BY <1>1 DEF Idle, Drawn
  <2>4. /\ crowded \subseteq crowded' /\ \A t \in DOMAIN tasks : PageOf(t) \in crowded'
        /\ unnoticed' \in BOOLEAN
        /\ ~unnoticed' => /\ ~unnoticed /\ ~SomeoneTells(tasks)
                          /\ Aggregate(items') = Aggregate(items)
    BY <1>1, CancelAllNotes DEF Inv
  <2>5. {} \in SUBSET Pages /\ {} \subseteq DOMAIN items' /\ exists' \subseteq exists
    BY <1>3
  <2> QED BY <1>1, <1>3, <2>1, <2>2, <2>3, <2>4, <2>5, RestartKeeps
<1> QED BY <1>2, <1>3

\* A batch is started for all pages.
LEMMA StartBatchKeeps == Inv /\ StartBatch => Inv'
<1> SUFFICES ASSUME Inv, StartBatch PROVE Inv'
  OBVIOUS
<1>1. /\ CancelAll /\ Idle /\ batch' = TRUE /\ view' = NoView /\ exists # {}
      /\ tasks' = Restarted(loads + 1, exists)
      /\ UNCHANGED <<exists, current, box, stage, thumbs, drawing>>
  BY StartedOrCancelled DEF StartBatch, UserActs
<1>2. items' = [p \in DOMAIN items \cup exists |-> ItemOf(items, p)]
  BY DEF StartBatch
<1>3. ItemsTyped(items) /\ exists \in SUBSET Pages
  BY DEF Inv, Typed
<1>4. \A p \in Pages : /\ ItemOf(items, p) \in Item
                       /\ IF p \in DOMAIN items THEN ItemOf(items, p) = items[p]
                          ELSE ItemOf(items, p).size = Invalid
  BY <1>3, ItemOfTyped DEF ItemOf, DefaultItem
<1>5. ItemsTyped(items')
  BY <1>2, <1>3, <1>4 DEF ItemsTyped
<1>6. SameSizes(items, items') /\ exists \subseteq DOMAIN items'
  BY <1>2, <1>3, <1>4 DEF SameSizes, ItemsTyped
<1>7. drawing.left = {} /\ drawing.reading = NoPage /\ drawing' = Drawn
  BY <1>1 DEF Idle, Drawn
<1>8. /\ crowded \subseteq crowded' /\ \A t \in DOMAIN tasks : PageOf(t) \in crowded'
      /\ unnoticed' \in BOOLEAN
      /\ ~unnoticed' => /\ ~unnoticed /\ ~SomeoneTells(tasks)
                        /\ Aggregate(items') = Aggregate(items)
  BY <1>1, CancelAllNotes DEF Inv
<1>9. current' \in Pages
  BY <1>1 DEF Inv, Present
<1> QED BY <1>1, <1>3, <1>5, <1>6, <1>7, <1>8, <1>9, RestartKeeps

\* Automatic margins are switched on or off, and the page is processed anew.
LEMMA AutoMarginsToggledKeeps ==
  ASSUME Inv, NEW auto \in BOOLEAN, view.page # NoPage, AutoMarginsToggled(auto)
  PROVE  Inv'
<1> DEFINE p == view.page
           item == [ItemOf(items, p) EXCEPT !.auto = auto]
<1>1. /\ CancelAll /\ Idle /\ view' = NoView
      /\ tasks' = Restarted(loads + 1, {p})
      /\ UNCHANGED <<exists, current, batch, box, stage, thumbs, drawing>>
  BY StartedOrCancelled DEF AutoMarginsToggled, UserActs
<1>2. items' = Put(items, p, item)
  BY DEF AutoMarginsToggled, SetAuto
<1>3. ItemsTyped(items) /\ p \in DOMAIN items /\ p \in Pages
  BY DEF Inv, Typed, Present, ItemsTyped
<1>4. items[p] \in Item /\ ItemOf(items, p) = items[p]
  BY <1>3 DEF ItemsTyped, ItemOf
<1>5. item \in Item /\ item.size = items[p].size /\ item.aligned = items[p].aligned
  BY <1>4 DEF Item
<1> HIDE DEF item
<1>6. /\ ItemsTyped(items') /\ DOMAIN items' = DOMAIN items \cup {p} /\ items'[p] = item
      /\ \A q \in DOMAIN items \ {p} : items'[q] = items[q]
  <2> HIDE DEF p
  <2>1. LET new == Put(items, p, item)
        IN /\ ItemsTyped(new)
           /\ DOMAIN new = DOMAIN items \cup {p}
           /\ new[p] = item
           /\ \A q \in DOMAIN items \ {p} : new[q] = items[q]
    BY <1>3, <1>5, PutTyped
  <2> QED BY <1>2, <2>1
<1>7. SameSizes(items, items') /\ {p} \subseteq DOMAIN items'
  BY <1>3, <1>5, <1>6 DEF SameSizes
<1>8. drawing.left = {} /\ drawing.reading = NoPage /\ drawing' = Drawn
  BY <1>1 DEF Idle, Drawn
<1>9. /\ crowded \subseteq crowded' /\ \A t \in DOMAIN tasks : PageOf(t) \in crowded'
      /\ unnoticed' \in BOOLEAN
      /\ ~unnoticed' => /\ ~unnoticed /\ ~SomeoneTells(tasks)
                        /\ Aggregate(items') = Aggregate(items)
  BY <1>1, CancelAllNotes DEF Inv
<1>10. /\ current' \in Pages \cup {NoPage} /\ batch' \in BOOLEAN
       /\ exists' # {} => current' \in Pages
       /\ batch' => exists' # {}
  BY <1>1 DEF Inv, Typed, Present
<1> QED BY <1>1, <1>3, <1>6, <1>7, <1>8, <1>9, <1>10, RestartKeeps

\* When the thumbnails are drawn, the page selected is loaded.  Tasks that were
\* there were cancelled when that was put off.
LEMMA LoadAfterDrawingKeeps == Inv /\ LoadAfterDrawing => Inv'
<1> SUFFICES ASSUME Inv, LoadAfterDrawing PROVE Inv'
  OBVIOUS
<1> DEFINE p == drawing.then
<1>1. /\ drawing.left = {} /\ drawing.reading = NoPage /\ p # NoPage /\ drawing' = Drawn
      /\ tasks' = Restarted(loads + 1, {p}) /\ items' = WithItem(items, p) /\ view' = NoView
      /\ unnoticed' = (unnoticed \/ Aggregate(items') # Aggregate(items))
      /\ UNCHANGED <<exists, box, stage, current, batch, thumbs, crowded>>
  BY StartedOrCancelled DEF LoadAfterDrawing, Load
<1>2. p \in Pages
  BY <1>1 DEF Inv, Typed, Drawing
<1> HIDE DEF p
<1>3. ItemsTyped(items') /\ SameSizes(items, items') /\ {p} \subseteq DOMAIN items'
  BY <1>1, <1>2, WithItemTyped DEF Inv, Typed
<1>4. \A t \in DOMAIN tasks : tasks[t].cancelled
  BY <1>1 DEF Inv, Present, p
<1>5. \A t \in DOMAIN tasks : PageOf(t) \in crowded'
  BY <1>1, <1>4 DEF Inv, Company
<1>6. ~SomeoneTells(tasks)
  BY <1>4 DEF SomeoneTells
<1>7. /\ current' \in Pages \cup {NoPage} /\ batch' \in BOOLEAN
      /\ exists' # {} => current' \in Pages
      /\ batch' => exists' # {}
  BY <1>1 DEF Inv, Typed, Present
<1> QED BY <1>1, <1>2, <1>3, <1>5, <1>6, <1>7, RestartKeeps

\* In the stage before, sizes need not follow the content boxes.
LEMMA ChangeBoxKeeps ==
  ASSUME Inv, NEW p \in Pages, NEW b \in Boxes \cup {NoBox}, ChangeBox(p, b)
  PROVE  Inv'
<1>1. /\ stage = "content" /\ box' = [box EXCEPT ![p] = b]
      /\ UNCHANGED <<items, exists, stage, current, batch, tasks, view, thumbs, drawing,
                     crowded, unnoticed>>
  BY DEF ChangeBox
<1>2. Typed'
  BY <1>1 DEF Inv, Typed
<1>3. Present' /\ Company' /\ DrawnThumbsShow'
  BY <1>1 DEF Inv, Present, Company, DrawnThumbsShow, PageOf
<1>4. SourcesCurrent' /\ DefinedIsCurrent'
  BY <1>1 DEF SourcesCurrent, DefinedIsCurrent
<1> QED BY <1>2, <1>3, <1>4 DEF Inv

\* Propagation gives each page of the project the size of its content box.
LEMMA PropagatedSizes ==
  ASSUME Typed
  PROVE  LET new == Propagated(OfExisting(items))
         IN /\ ItemsTyped(new)
            /\ \A p \in exists \cap DOMAIN new :
                 new[p].size # Invalid => new[p].size = box[p]
<1> DEFINE its  == OfExisting(items)
           new  == Propagated(its)
           size(p) == IF p \notin exists THEN ItemOf(its, p).size
                      ELSE IF box[p] = NoBox THEN Invalid ELSE box[p]
<1>1. ItemsTyped(its)
  BY DEF OfExisting, Typed, ItemsTyped
<1>2. DOMAIN new = DOMAIN its \cup {q \in exists : box[q] # NoBox}
  BY DEF Propagated
<1>3. \A p \in DOMAIN new : new[p] = [ItemOf(its, p) EXCEPT !.size = size(p)]
  BY DEF Propagated
<1>4. new = [p \in DOMAIN new |-> new[p]]
  BY DEF Propagated
<1> HIDE DEF its, new
<1>5. DOMAIN new \subseteq Pages
  BY <1>1, <1>2 DEF Typed, ItemsTyped
<1>6. ASSUME NEW p \in DOMAIN new
      PROVE  new[p] \in Item /\ new[p].size = size(p)
  <2>1. ItemOf(its, p) \in Item
    BY <1>1, ItemOfTyped
  <2>2. size(p) \in Boxes \cup {Invalid}
    BY <1>5, <2>1 DEF Typed, Item
  <2> HIDE DEF size
  <2> QED BY <1>3, <2>1, <2>2 DEF Item
<1>7. ItemsTyped(new)
  BY <1>4, <1>5, <1>6 DEF ItemsTyped
<1>8. \A p \in exists \cap DOMAIN new : new[p].size # Invalid => new[p].size = box[p]
  BY <1>6
<1> QED BY <1>7, <1>8 DEF new, its

\* The stage is changed.
LEMMA SelectStageKeeps ==
  ASSUME Inv, NEW s \in {"content", "layout"}, SelectStage(s)
  PROVE  Inv'
<1>1. /\ ~batch /\ stage' = s /\ thumbs' = [p \in Pages |-> Incomplete]
      /\ drawing' = Redraw(IF s = "layout" THEN exists ELSE {}, current)
      /\ tasks' = Restarted(0, {}) /\ view' = NoView /\ unnoticed' = FALSE
      /\ crowded' = {PageOf(t) : t \in DOMAIN tasks} \cup {p \in crowded : s # "layout"}
      /\ UNCHANGED <<exists, box, current, batch>>
  BY StartedOrCancelled DEF SelectStage
<1>2. items' = IF s = "layout" THEN Propagated(OfExisting(items)) ELSE items
  BY DEF SelectStage
<1>3. ItemsTyped(items')
  BY <1>2, PropagatedSizes DEF Inv, Typed
<1>4. /\ TasksTyped(tasks')
      /\ \A t \in DOMAIN tasks' : tasks'[t].cancelled
  <2>1. {} \in SUBSET Pages
    OBVIOUS
  <2> QED BY <1>1, <2>1, RestartedTasks DEF Inv
<1>5. /\ drawing' \in Drawing /\ drawing'.reading = NoPage
  BY <1>1 DEF Redraw, Drawing, Inv, Typed
<1>6. Typed'
  <2>1. view' \in View
    BY <1>1 DEF NoView, View
  <2>2. unnoticed' \in BOOLEAN
    BY <1>1
  <2>3. thumbs' \in [Pages -> Int]
    BY <1>1 DEF Incomplete
  <2> QED BY <1>1, <1>3, <1>4, <1>5, <2>1, <2>2, <2>3 DEF Inv, Typed
<1>7. Present'
  <2>1. view'.page = NoPage
    BY <1>1 DEF NoView
  <2> QED BY <1>1, <1>4, <1>5, <2>1 DEF Inv, Present
<1>8. Company'
  <2>1. \A t \in DOMAIN tasks : PageOf(t) \in crowded'
    BY <1>1
  <2>2. {} \in SUBSET Pages
    OBVIOUS
  <2> QED BY <1>1, <2>1, <2>2, RestartedCompany DEF Inv
<1>9. SourcesCurrent'
  <2>1. NoPage \notin exists'
    BY <1>1, LayoutAssumption DEF Inv, Typed
  <2> QED BY <1>4, <1>5, <2>1 DEF SourcesCurrent
<1>10. DefinedIsCurrent'
  <2> SUFFICES ASSUME s = "layout", NEW p \in exists, p \in DOMAIN items',
                      items'[p].size # Invalid
               PROVE  items'[p].size = box[p]
    BY <1>1 DEF DefinedIsCurrent, Defined
  <2> QED BY <1>2, PropagatedSizes DEF Inv
<1>11. DrawnThumbsShow'
  <2>1. \A p \in Pages : thumbs'[p] = Incomplete
    BY <1>1
  <2>2. exists' \subseteq Pages
    BY <1>1 DEF Inv, Typed
  <2> QED BY <2>1, <2>2 DEF DrawnThumbsShow
<1> QED BY <1>6, <1>7, <1>8, <1>9, <1>10, <1>11 DEF Inv
-----------------------------------------------------------------------------
(* What the user does to the page shown.                                   *)

\* Editing keeps the sizes of pages or invalidates them, and draws again what it
\* should; if nothing but the page shown is drawn again, then because the
\* aggregate size is the same, or it is noted that nobody saw it change.
LEMMA EditsKeep ==
  ASSUME Inv, view.page # NoPage,
         NEW its, ItemsTyped(its), DOMAIN items \subseteq DOMAIN its,
         \A p \in DOMAIN its : its[p].size # Invalid =>
            p \in DOMAIN items /\ its[p].size = items[p].size,
         NEW changed \in BOOLEAN, NEW nobody \in BOOLEAN, Edits(its, changed, nobody),
         ~changed /\ ~nobody => Aggregate(its) = Aggregate(items),
         ~changed => \A p \in DOMAIN its \ {view.page} : /\ p \in DOMAIN items
                                                         /\ its[p] = items[p],
         KeepsTasks, view' \in View, view'.page = view.page
  PROVE  Inv'
<1> USE DEF Inv
<1>1. /\ Idle /\ items' = its /\ tasks' = tasks
      /\ drawing' = Redraw(IF changed THEN exists ELSE {view.page}, NoPage)
      /\ unnoticed' = ((unnoticed /\ ~changed) \/ nobody)
      /\ UNCHANGED <<exists, box, stage, current, batch, thumbs, crowded>>
  BY DEF Edits, UserActs, KeepsTasks
<1>2. view.page \in Pages
  BY DEF Typed, View
<1>3. /\ drawing' \in Drawing /\ drawing'.reading = NoPage /\ drawing'.then = NoPage
      /\ drawing'.left = IF changed THEN exists ELSE {view.page}
  BY <1>1, <1>2 DEF Redraw, Drawing, Typed
<1>4. Typed'
  <2>1. unnoticed' \in BOOLEAN
    BY <1>1
  <2> QED BY <1>1, <1>3, <2>1 DEF Typed
<1>5. Present'
  BY <1>1, <1>3 DEF Present, PageOf
<1>6. Company'
  BY <1>1 DEF Company, PageOf
<1>7. SourcesCurrent'
  <2>1. NoPage \notin exists
    BY LayoutAssumption DEF Typed
  <2> QED BY <1>1, <1>3, <2>1 DEF SourcesCurrent, PageOf
<1>8. DefinedIsCurrent'
  <2> SUFFICES ASSUME stage = "layout", NEW p \in exists \ crowded,
                      p \in DOMAIN its, its[p].size # Invalid
               PROVE  its[p].size = box[p]
    BY <1>1 DEF DefinedIsCurrent, Defined
  <2>1. p \in DOMAIN items /\ its[p].size = items[p].size
    OBVIOUS
  <2> QED BY <2>1 DEF DefinedIsCurrent, Defined
<1>9. DrawnThumbsShow'
  <2>1. \A p \in Pages : thumbs[p] # Incomplete => p \in DOMAIN its
    BY DEF DrawnThumbsShow
  <2>2. ASSUME stage = "layout", ~unnoticed', ~SomeoneTells(tasks),
               NEW p \in (exists \cap DOMAIN its) \ (drawing'.left \cup {NoPage}),
               its[p].aligned, thumbs[p] # Incomplete
        PROVE  thumbs[p] = Aggregate(its)
    <3>1. ~changed /\ ~nobody /\ ~unnoticed /\ p # view.page
      BY <1>1, <1>3, <2>2
    <3>2. Aggregate(its) = Aggregate(items) /\ p \in DOMAIN items /\ its[p] = items[p]
      BY <3>1
    <3>3. drawing.left = {} /\ drawing.reading = NoPage
      BY <1>1 DEF Idle, Drawn
    <3> QED BY <2>2, <3>1, <3>2, <3>3 DEF DrawnThumbsShow
  <2> QED BY <1>1, <1>3, <2>1, <2>2 DEF DrawnThumbsShow
<1> QED BY <1>4, <1>5, <1>6, <1>7, <1>8, <1>9

\* Margins of the page shown are set by hand.
LEMMA SetHardMarginsKeeps ==
  ASSUME Inv, view.page # NoPage, NEW m \in Margins, SetHardMargins(m)
  PROVE  Inv'
<1> DEFINE p   == view.page
           a   == [ItemOf(items, p) EXCEPT !.auto = FALSE]
           one == Put(items, p, a)
           b   == [ItemOf(one, p) EXCEPT !.margins = m]
           its == Put(one, p, b)
           changed == Aggregate(its) # view.committed
           nobody  == Aggregate(its) = view.committed /\ Aggregate(its) # Aggregate(items)
<1>1. /\ Edits(its, changed, nobody) /\ KeepsTasks
      /\ view' = [view EXCEPT !.committed = Aggregate(its)]
  BY DEF SetHardMargins, Commit, SetMargins, SetAuto
<1>2. ItemsTyped(items) /\ p \in DOMAIN items /\ p \in Pages /\ view \in View
  BY DEF Inv, Typed, Present, ItemsTyped
<1>3. a \in Item /\ a.size = items[p].size
  <2>1. items[p] \in Item /\ ItemOf(items, p) = items[p]
    BY <1>2 DEF ItemsTyped, ItemOf
  <2> QED BY <2>1 DEF Item
<1> HIDE DEF p, a
<1>4. /\ ItemsTyped(one) /\ DOMAIN one = DOMAIN items /\ one[p] = a
      /\ \A q \in DOMAIN items \ {p} : one[q] = items[q]
  <2>1. LET put == Put(items, p, a)
        IN /\ ItemsTyped(put)
           /\ DOMAIN put = DOMAIN items \cup {p}
           /\ put[p] = a
           /\ \A q \in DOMAIN items \ {p} : put[q] = items[q]
    BY <1>2, <1>3, PutTyped
  <2> QED BY <1>2, <2>1
<1> HIDE DEF one
<1>5. b \in Item /\ b.size = items[p].size
  <2>1. ItemOf(one, p) = a
    BY <1>2, <1>4 DEF ItemOf
  <2>2. m \in Int
    BY LayoutAssumption
  <2> QED BY <1>3, <2>1, <2>2 DEF Item
<1> HIDE DEF b
<1>6. /\ ItemsTyped(its) /\ DOMAIN its = DOMAIN items /\ its[p] = b
      /\ \A q \in DOMAIN items \ {p} : its[q] = items[q]
  <2>1. LET put == Put(one, p, b)
        IN /\ ItemsTyped(put)
           /\ DOMAIN put = DOMAIN one \cup {p}
           /\ put[p] = b
           /\ \A q \in DOMAIN one \ {p} : put[q] = one[q]
    BY <1>2, <1>4, <1>5, PutTyped
  <2> QED BY <1>2, <1>4, <2>1
<1> HIDE DEF its
<1>7. view' \in View /\ view'.page = p
  <2>1. Aggregate(its) \in Int
    BY <1>6, AggregateSound
  <2> QED BY <1>1, <1>2, <2>1 DEF View, p
<1>8. \A q \in DOMAIN its : its[q].size = items[q].size
  BY <1>5, <1>6
<1>9. ~changed /\ ~nobody => Aggregate(its) = Aggregate(items)
  OBVIOUS
<1>10. changed \in BOOLEAN /\ nobody \in BOOLEAN
  OBVIOUS
<1> HIDE DEF changed, nobody
<1>11. /\ DOMAIN items \subseteq DOMAIN its
       /\ \A q \in DOMAIN its : its[q].size # Invalid =>
            q \in DOMAIN items /\ its[q].size = items[q].size
       /\ ~changed => \A q \in DOMAIN its \ {view.page} : /\ q \in DOMAIN items
                                                          /\ its[q] = items[q]
  BY <1>6, <1>8 DEF p
<1> QED BY <1>1, <1>6, <1>7, <1>9, <1>10, <1>11, EditsKeep DEF p

\* The page shown is to match the size of others, or not any more.
LEMMA AlignmentChangedKeeps ==
  ASSUME Inv, view.page # NoPage, NEW aligned \in BOOLEAN, AlignmentChanged(aligned)
  PROVE  Inv'
<1> DEFINE p   == view.page
           a   == [ItemOf(items, p) EXCEPT !.aligned = aligned]
           its == Put(items, p, a)
           changed == Aggregate(its) # Aggregate(items)
<1>1. /\ Edits(its, changed, FALSE) /\ KeepsTasks
      /\ view' = [view EXCEPT !.aligned = aligned]
  BY DEF AlignmentChanged, SetAligned
<1>2. ItemsTyped(items) /\ p \in DOMAIN items /\ p \in Pages /\ view \in View
  BY DEF Inv, Typed, Present, ItemsTyped
<1>3. a \in Item /\ a.size = items[p].size
  <2>1. items[p] \in Item /\ ItemOf(items, p) = items[p]
    BY <1>2 DEF ItemsTyped, ItemOf
  <2> QED BY <2>1 DEF Item
<1> HIDE DEF p, a
<1>4. /\ ItemsTyped(its) /\ DOMAIN its = DOMAIN items /\ its[p] = a
      /\ \A q \in DOMAIN items \ {p} : its[q] = items[q]
  <2>1. LET put == Put(items, p, a)
        IN /\ ItemsTyped(put)
           /\ DOMAIN put = DOMAIN items \cup {p}
           /\ put[p] = a
           /\ \A q \in DOMAIN items \ {p} : put[q] = items[q]
    BY <1>2, <1>3, PutTyped
  <2> QED BY <1>2, <2>1
<1> HIDE DEF its
<1>5. view' \in View /\ view'.page = p
  BY <1>1, <1>2 DEF View, p
<1>6. \A q \in DOMAIN its : its[q].size = items[q].size
  BY <1>3, <1>4
<1>7. changed \in BOOLEAN /\ FALSE \in BOOLEAN /\ (~changed => Aggregate(its) = Aggregate(items))
  OBVIOUS
<1> HIDE DEF changed
<1>8. /\ DOMAIN items \subseteq DOMAIN its
      /\ \A q \in DOMAIN its : its[q].size # Invalid =>
           q \in DOMAIN items /\ its[q].size = items[q].size
      /\ ~changed => \A q \in DOMAIN its \ {view.page} : /\ q \in DOMAIN items
                                                         /\ its[q] = items[q]
  BY <1>4, <1>6 DEF p
<1> QED BY <1>1, <1>4, <1>5, <1>7, <1>8, EditsKeep DEF p

\* Items made for the others leave the sizes of pages, or invalidate them.
LEMMA AppliedKeeps ==
  ASSUME Inv, view.page # NoPage, NEW its, ItemsTyped(its), DOMAIN items \subseteq DOMAIN its,
         \A p \in DOMAIN its : its[p].size # Invalid =>
            p \in DOMAIN items /\ its[p].size = items[p].size,
         Edits(its, TRUE, FALSE), KeepsTasks, view' \in View, view'.page = view.page
  PROVE  Inv'
<1>1. TRUE \in BOOLEAN /\ FALSE \in BOOLEAN
  OBVIOUS
<1>2. ~TRUE => \A p \in DOMAIN its \ {view.page} : /\ p \in DOMAIN items
                                                   /\ its[p] = items[p]
  OBVIOUS
<1>3. ~TRUE /\ ~FALSE => Aggregate(its) = Aggregate(items)
  OBVIOUS
<1> QED BY <1>1, <1>2, <1>3, EditsKeep

\* Margins of one page are applied to the others.
LEMMA MarginsAppliedTyped ==
  ASSUME Typed, NEW item \in Item
  PROVE  LET its == MarginsApplied(item)
         IN /\ ItemsTyped(its) /\ DOMAIN items \subseteq DOMAIN its
            /\ \A p \in DOMAIN its : its[p].size # Invalid =>
                 p \in DOMAIN items /\ its[p].size = items[p].size
<1> DEFINE its == MarginsApplied(item)
           of(p) == [ItemOf(items, p) EXCEPT
                       !.auto = item.auto,
                       !.size = IF item.auto THEN Invalid ELSE @,
                       !.margins = IF item.auto THEN @ ELSE item.margins]
<1>1. /\ DOMAIN its = DOMAIN items \cup Others /\ its = [p \in DOMAIN its |-> its[p]]
      /\ \A p \in DOMAIN its : its[p] = IF p \notin Others THEN items[p] ELSE of(p)
  BY DEF MarginsApplied
<1>2. ASSUME NEW p
      PROVE  of(p) \in Item /\ of(p).size \in {ItemOf(items, p).size, Invalid}
  <2>1. ItemOf(items, p) \in Item
    BY ItemOfTyped DEF Typed
  <2> QED BY <2>1 DEF Item
<1> HIDE DEF its, of
<1>3. DOMAIN its \subseteq Pages
  BY <1>1 DEF Typed, ItemsTyped, Others
<1>4. \A p \in DOMAIN its : its[p] \in Item
  BY <1>1, <1>2 DEF Typed, ItemsTyped
<1>5. ItemsTyped(its)
  BY <1>1, <1>3, <1>4 DEF ItemsTyped
<1>6. ASSUME NEW p \in DOMAIN its, its[p].size # Invalid
      PROVE  p \in DOMAIN items /\ its[p].size = items[p].size
  <2>1. CASE p \notin Others
    BY <1>1, <2>1
  <2>2. CASE p \in Others
    BY <1>1, <1>2, <1>6, <2>2 DEF ItemOf, DefaultItem
  <2> QED BY <2>1, <2>2
<1> QED BY <1>1, <1>5, <1>6 DEF its

\* The alignment of one page is applied to the others.
LEMMA AlignmentAppliedTyped ==
  ASSUME Typed, NEW aligned \in BOOLEAN
  PROVE  LET its == AlignmentApplied(aligned)
         IN /\ ItemsTyped(its) /\ DOMAIN items \subseteq DOMAIN its
            /\ \A p \in DOMAIN its : its[p].size # Invalid =>
                 p \in DOMAIN items /\ its[p].size = items[p].size
<1> DEFINE its == AlignmentApplied(aligned)
           of(p) == [ItemOf(items, p) EXCEPT !.aligned = aligned]
<1>1. /\ DOMAIN its = DOMAIN items \cup Others /\ its = [p \in DOMAIN its |-> its[p]]
      /\ \A p \in DOMAIN its : its[p] = IF p \notin Others THEN items[p] ELSE of(p)
  BY DEF AlignmentApplied
<1>2. ASSUME NEW p
      PROVE  of(p) \in Item /\ of(p).size = ItemOf(items, p).size
  <2>1. ItemOf(items, p) \in Item
    BY ItemOfTyped DEF Typed
  <2> QED BY <2>1 DEF Item
<1> HIDE DEF its, of
<1>3. DOMAIN its \subseteq Pages
  BY <1>1 DEF Typed, ItemsTyped, Others
<1>4. \A p \in DOMAIN its : its[p] \in Item
  BY <1>1, <1>2 DEF Typed, ItemsTyped
<1>5. ItemsTyped(its)
  BY <1>1, <1>3, <1>4 DEF ItemsTyped
<1>6. ASSUME NEW p \in DOMAIN its, its[p].size # Invalid
      PROVE  p \in DOMAIN items /\ its[p].size = items[p].size
  <2>1. CASE p \notin Others
    BY <1>1, <2>1
  <2>2. CASE p \in Others
    BY <1>1, <1>2, <1>6, <2>2 DEF ItemOf, DefaultItem
  <2> QED BY <2>1, <2>2
<1> QED BY <1>1, <1>5, <1>6 DEF its

\* Margins or alignment are applied to the other pages.
LEMMA ApplyKeeps ==
  ASSUME Inv, view.page # NoPage, ApplyMargins \/ ApplyAlignment \/ MatchSizeToAllPages
  PROVE  Inv'
<1>1. /\ view \in View /\ view.page \in DOMAIN items /\ items[view.page] \in Item
      /\ view.aligned \in BOOLEAN
  BY DEF Inv, Typed, Present, ItemsTyped, View
<1>2. CASE ApplyMargins
  <2> DEFINE its == MarginsApplied(items[view.page])
  <2>1. /\ Edits(its, TRUE, FALSE) /\ KeepsTasks
        /\ view' = [view EXCEPT !.committed = Aggregate(its)]
    BY <1>2 DEF ApplyMargins
  <2>2. /\ ItemsTyped(its) /\ DOMAIN items \subseteq DOMAIN its
        /\ \A p \in DOMAIN its : its[p].size # Invalid =>
             p \in DOMAIN items /\ its[p].size = items[p].size
    BY <1>1, MarginsAppliedTyped DEF Inv
  <2> HIDE DEF its
  <2>3. Aggregate(its) \in Int
    BY <2>2, AggregateSound
  <2>4. view' \in View /\ view'.page = view.page
    BY <1>1, <2>1, <2>3 DEF View
  <2> QED BY <2>1, <2>2, <2>4, AppliedKeeps
<1>3. CASE ApplyAlignment
  <2> DEFINE its == AlignmentApplied(view.aligned)
  <2>1. Edits(its, TRUE, FALSE) /\ KeepsTasks /\ view' = view
    BY <1>3 DEF ApplyAlignment
  <2>2. /\ ItemsTyped(its) /\ DOMAIN items \subseteq DOMAIN its
        /\ \A p \in DOMAIN its : its[p].size # Invalid =>
             p \in DOMAIN items /\ its[p].size = items[p].size
    BY <1>1, AlignmentAppliedTyped DEF Inv
  <2> HIDE DEF its
  <2> QED BY <1>1, <2>1, <2>2, AppliedKeeps
<1>4. CASE MatchSizeToAllPages
  <2> DEFINE its == AlignmentApplied(TRUE)
  <2>1. /\ Edits(its, TRUE, FALSE) /\ KeepsTasks
        /\ view' = [view EXCEPT !.aligned = TRUE, !.committed = Aggregate(its)]
    BY <1>4 DEF MatchSizeToAllPages
  <2>2. TRUE \in BOOLEAN
    OBVIOUS
  <2>3. /\ ItemsTyped(its) /\ DOMAIN items \subseteq DOMAIN its
        /\ \A p \in DOMAIN its : its[p].size # Invalid =>
             p \in DOMAIN items /\ its[p].size = items[p].size
    BY <2>2, AlignmentAppliedTyped DEF Inv
  <2> HIDE DEF its
  <2>4. Aggregate(its) \in Int
    BY <2>3, AggregateSound
  <2>5. view' \in View /\ view'.page = view.page
    BY <1>1, <2>1, <2>4 DEF View
  <2> QED BY <2>1, <2>3, <2>5, AppliedKeeps
<1> QED BY <1>2, <1>3, <1>4
-----------------------------------------------------------------------------
(* Thumbnails and results in the GUI thread.                               *)

\* What is read of a page is current, as far as it is defined.
LEMMA ReadForThumbKeeps ==
  ASSUME Inv, NEW p \in Pages, ReadForThumb(p)
  PROVE  Inv'
<1> USE DEF Inv
<1> DEFINE size == ItemOf(items, p).size
<1>1. /\ p \in drawing.left /\ drawing.reading = NoPage
      /\ UNCHANGED <<items, exists, box, stage, current, batch, tasks, view, crowded, unnoticed>>
  BY DEF ReadForThumb
<1>2. drawing \in Drawing /\ thumbs \in [Pages -> Int]
  BY DEF Typed
<1>3. /\ drawing' \in Drawing /\ drawing'.left = drawing.left \ {p}
      /\ drawing'.then = drawing.then
      /\ \/ /\ drawing'.reading = NoPage
            /\ thumbs' = [thumbs EXCEPT ![p] = Incomplete]
         \/ /\ drawing'.reading = p /\ p \in DOMAIN items /\ drawing'.size = items[p].size
            /\ thumbs' = thumbs
  <2>1. CASE box[p] = NoBox \/ p \notin DOMAIN items \/ (size <= 0 /\ box[p] > 0)
    <3>1. /\ thumbs' = [thumbs EXCEPT ![p] = Incomplete]
          /\ drawing' = [drawing EXCEPT !.left = @ \ {p}]
      BY <2>1 DEF ReadForThumb
    <3> QED BY <1>1, <1>2, <3>1 DEF Drawing
  <2>2. CASE ~(box[p] = NoBox \/ p \notin DOMAIN items \/ (size <= 0 /\ box[p] > 0))
    <3>1. /\ thumbs' = thumbs
          /\ drawing' = [drawing EXCEPT !.left = @ \ {p}, !.reading = p, !.size = size]
      BY <2>2 DEF ReadForThumb
    <3>2. p \in DOMAIN items /\ size = items[p].size /\ size \in Boxes \cup {Invalid}
      BY <2>2 DEF ItemOf, Typed, ItemsTyped, Item
    <3> HIDE DEF size
    <3> QED BY <1>2, <3>1, <3>2 DEF Drawing
  <2> QED BY <2>1, <2>2
<1>4. thumbs' \in [Pages -> Int] /\ \A q \in Pages : thumbs'[q] \in {thumbs[q], Incomplete}
  BY <1>2, <1>3 DEF Incomplete
<1>5. Typed'
  BY <1>1, <1>3, <1>4 DEF Typed
<1>6. Present'
  BY <1>1, <1>3 DEF Present, PageOf
<1>7. Company'
  BY <1>1 DEF Company, PageOf
<1>8. SourcesCurrent'
  <2>1. NoPage \notin exists
    BY LayoutAssumption DEF Typed
  <2>2. stage = "layout" /\ p \in exists \ crowded /\ p \in DOMAIN items
        /\ items[p].size # Invalid => items[p].size = box[p]
    BY DEF DefinedIsCurrent, Defined
  <2> QED BY <1>1, <1>3, <2>1, <2>2 DEF SourcesCurrent, PageOf
<1>9. DefinedIsCurrent'
  BY <1>1 DEF DefinedIsCurrent, Defined
<1>10. DrawnThumbsShow'
  <2>1. \A q \in Pages : thumbs'[q] # Incomplete => q \in DOMAIN items
    BY <1>4 DEF DrawnThumbsShow
  <2>2. ASSUME stage = "layout", ~unnoticed, ~SomeoneTells(tasks),
               NEW q \in (exists \cap DOMAIN items) \ (drawing'.left \cup {drawing'.reading}),
               items[q].aligned, thumbs'[q] # Incomplete
        PROVE  thumbs'[q] = Aggregate(items)
    <3>1. q \in Pages /\ q # NoPage /\ thumbs'[q] = thumbs[q]
      BY <1>4, <2>2, LayoutAssumption DEF Typed
    <3>2. q # p
      BY <1>2, <1>3, <2>2
    <3>3. q \notin drawing.left /\ q # drawing.reading
      BY <1>1, <1>3, <2>2, <3>1, <3>2
    <3> QED BY <2>2, <3>1, <3>3 DEF DrawnThumbsShow
  <2> QED BY <1>1, <2>1, <2>2 DEF DrawnThumbsShow
<1> QED BY <1>5, <1>6, <1>7, <1>8, <1>9, <1>10

\* What was read is written back and drawn.
LEMMA DrawThumbKeeps == Inv /\ DrawThumb => Inv'
<1> SUFFICES ASSUME Inv, DrawThumb PROVE Inv'
  OBVIOUS
<1> USE DEF Inv
<1> DEFINE p   == drawing.reading
           a   == [ItemOf(items, p) EXCEPT !.size = drawing.size]
           its == Put(items, p, a)
<1>1. /\ p # NoPage /\ items' = its
      /\ thumbs' = [thumbs EXCEPT ![p] = Aggregate(its)]
      /\ drawing' = [drawing EXCEPT !.reading = NoPage, !.size = Invalid]
      /\ unnoticed' = (unnoticed \/ Aggregate(its) # Aggregate(items))
      /\ UNCHANGED <<exists, box, stage, current, batch, tasks, view, crowded>>
  BY DEF DrawThumb, SetSize
<1>2. /\ drawing \in Drawing /\ thumbs \in [Pages -> Int] /\ ItemsTyped(items)
      /\ p \in Pages /\ p \in DOMAIN items
  BY <1>1 DEF Typed, Drawing, Present
<1>3. drawing.size \in Boxes \cup {Invalid}
  BY <1>2 DEF Drawing
<1>4. a \in Item /\ a.size = drawing.size /\ a.aligned = items[p].aligned
  <2>1. items[p] \in Item /\ ItemOf(items, p) = items[p]
    BY <1>2 DEF ItemsTyped, ItemOf
  <2> QED BY <1>3, <2>1 DEF Item
<1> HIDE DEF p, a
<1>5. /\ ItemsTyped(its) /\ DOMAIN its = DOMAIN items /\ its[p] = a
      /\ \A q \in DOMAIN items \ {p} : its[q] = items[q]
  <2>1. LET put == Put(items, p, a)
        IN /\ ItemsTyped(put)
           /\ DOMAIN put = DOMAIN items \cup {p}
           /\ put[p] = a
           /\ \A q \in DOMAIN items \ {p} : put[q] = items[q]
    BY <1>2, <1>4, PutTyped
  <2> QED BY <1>2, <2>1
<1> HIDE DEF its
<1>6. /\ drawing' \in Drawing /\ drawing'.left = drawing.left
      /\ drawing'.reading = NoPage /\ drawing'.then = drawing.then
  BY <1>1, <1>2 DEF Drawing
<1>7. Typed'
  <2>1. Aggregate(its) \in Int
    BY <1>5, AggregateSound
  <2>2. thumbs' \in [Pages -> Int]
    BY <1>1, <1>2, <2>1
  <2>3. unnoticed' \in BOOLEAN
    BY <1>1 DEF Typed
  <2> QED BY <1>1, <1>5, <1>6, <2>2, <2>3 DEF Typed
<1>8. Present'
  BY <1>1, <1>5, <1>6 DEF Present, PageOf
<1>9. Company'
  BY <1>1 DEF Company, PageOf
<1>10. SourcesCurrent'
  <2>1. NoPage \notin exists
    BY LayoutAssumption DEF Typed
  <2> QED BY <1>1, <1>6, <2>1 DEF SourcesCurrent, PageOf
<1>11. DefinedIsCurrent'
  <2> SUFFICES ASSUME stage = "layout", NEW q \in exists \ crowded,
                      q \in DOMAIN its, its[q].size # Invalid
               PROVE  its[q].size = box[q]
    BY <1>1 DEF DefinedIsCurrent, Defined
  <2>1. CASE q = p
    BY <1>4, <1>5, <2>1 DEF SourcesCurrent, p
  <2>2. CASE q # p
    BY <1>5, <2>2 DEF DefinedIsCurrent, Defined
  <2> QED BY <2>1, <2>2
<1>12. DrawnThumbsShow'
  <2>1. \A q \in Pages : thumbs'[q] # Incomplete => q \in DOMAIN its
    BY <1>1, <1>2, <1>5 DEF DrawnThumbsShow
  <2>2. ASSUME stage = "layout", ~unnoticed', ~SomeoneTells(tasks),
               NEW q \in (exists \cap DOMAIN its) \ (drawing.left \cup {NoPage}),
               its[q].aligned, thumbs'[q] # Incomplete
        PROVE  thumbs'[q] = Aggregate(its)
    <3>1. CASE q = p
      BY <1>1, <1>2, <3>1
    <3>2. CASE q # p
      <4>1. q \in Pages /\ thumbs'[q] = thumbs[q] /\ its[q] = items[q] /\ q \in DOMAIN items
        BY <1>1, <1>2, <1>5, <3>2 DEF Typed
      <4>2. ~unnoticed /\ Aggregate(its) = Aggregate(items)
        BY <1>1, <2>2
      <4>3. q # drawing.reading
        BY <3>2 DEF p
      <4> QED BY <2>2, <4>1, <4>2, <4>3 DEF DrawnThumbsShow
    <3> QED BY <3>1, <3>2
  <2> QED BY <1>1, <1>6, <2>1, <2>2 DEF DrawnThumbsShow
<1> QED BY <1>7, <1>8, <1>9, <1>10, <1>11, <1>12

\* A task that ends leaves the others as they are.
LEMMA EndedTasks ==
  ASSUME Inv, NEW t \in DOMAIN tasks, Ended({t}), crowded' = crowded
  PROVE  /\ TasksTyped(tasks') /\ Company'
         /\ DOMAIN tasks' = DOMAIN tasks \ {t}
         /\ \A u \in DOMAIN tasks' : tasks'[u] = tasks[u]
<1>1. /\ DOMAIN tasks' = DOMAIN tasks \ {t}
      /\ tasks' = [u \in DOMAIN tasks' |-> tasks'[u]]
      /\ \A u \in DOMAIN tasks' : tasks'[u] = tasks[u]
  BY DEF Ended
<1>2. TasksTyped(tasks')
  BY <1>1 DEF Inv, Typed, TasksTyped
<1>3. Company'
  BY <1>1 DEF Inv, Company, PageOf
<1> QED BY <1>1, <1>2, <1>3

\* A result arrives in the GUI thread: the page is shown, thumbnails are drawn
\* again, and a batch may end.
LEMMA DeliverKeeps ==
  ASSUME Inv, NEW t \in DOMAIN tasks, Deliver(t)
  PROVE  Inv'
<1> USE DEF Inv
<1> DEFINE p    == PageOf(t)
           last == batch /\ \A u \in DOMAIN tasks \ {t} : tasks[u].cancelled
           left == IF stage # "layout" THEN {} ELSE IF tasks[t].changed THEN exists ELSE {p}
           then == IF last THEN current ELSE NoPage
<1>1. /\ Idle /\ ~tasks[t].cancelled /\ Ended({t})
      /\ drawing' = Redraw(left, then) /\ batch' = (batch /\ ~last)
      /\ unnoticed' = (unnoticed /\ ~(stage = "layout" /\ tasks[t].changed))
      /\ UNCHANGED <<items, exists, box, stage, current, thumbs, crowded>>
  BY DEF Deliver
<1>2. view' = IF batch THEN NoView
              ELSE [page |-> p, aligned |-> ItemOf(items, p).aligned, committed |-> Aggregate(items)]
  BY DEF Deliver
<1>3. /\ TasksTyped(tasks') /\ Company'
      /\ DOMAIN tasks' = DOMAIN tasks \ {t}
      /\ \A u \in DOMAIN tasks' : tasks'[u] = tasks[u]
  BY <1>1, EndedTasks
<1>4. p \in Pages /\ p \in DOMAIN items
  BY <1>1 DEF Typed, TasksTyped, Present
<1>5. last => \A u \in DOMAIN tasks' : tasks'[u].cancelled
  BY <1>3
<1>6. left \subseteq Pages /\ then \in Pages \cup {NoPage} /\ last \in BOOLEAN
  BY <1>4 DEF Typed
<1>7. then # NoPage => last
  OBVIOUS
<1> HIDE DEF p, last, left, then
<1>8. /\ drawing' \in Drawing /\ drawing'.left = left /\ drawing'.reading = NoPage
      /\ drawing'.then = then
  BY <1>1, <1>6 DEF Redraw, Drawing
<1>9. view' \in View /\ view'.page \in {p, NoPage}
  <2>1. ItemOf(items, p) \in Item /\ Aggregate(items) \in Int
    BY ItemOfTyped, AggregateSound DEF Typed
  <2> QED BY <1>2, <1>4, <2>1 DEF NoView, View, Item
<1>10. Typed'
  <2>1. batch' \in BOOLEAN /\ unnoticed' \in BOOLEAN
    BY <1>1, <1>6 DEF Typed
  <2> QED BY <1>1, <1>3, <1>8, <1>9, <2>1 DEF Typed
<1>11. Present'
  <2>1. \A u \in DOMAIN tasks' : ~tasks'[u].cancelled => PageOf(u) \in DOMAIN items
    BY <1>3 DEF Present
  <2>2. exists # {} => current \in Pages
    BY DEF Present
  <2>3. batch' => exists # {}
    BY <1>1 DEF Present
  <2> QED BY <1>1, <1>4, <1>5, <1>7, <1>8, <1>9, <2>1, <2>2, <2>3 DEF Present, PageOf
<1>12. SourcesCurrent'
  <2>1. NoPage \notin exists
    BY LayoutAssumption DEF Typed
  <2> QED BY <1>1, <1>3, <1>8, <2>1 DEF SourcesCurrent, PageOf
<1>13. DefinedIsCurrent'
  BY <1>1 DEF DefinedIsCurrent, Defined
<1>14. DrawnThumbsShow'
  <2>1. ASSUME stage = "layout", ~unnoticed', ~SomeoneTells(tasks'),
               NEW q \in (exists \cap DOMAIN items) \ (left \cup {NoPage}),
               items[q].aligned, thumbs[q] # Incomplete
        PROVE  thumbs[q] = Aggregate(items)
    <3>1. ~tasks[t].changed /\ ~unnoticed
      BY <1>1, <2>1 DEF left
    <3>2. ~SomeoneTells(tasks)
      BY <1>3, <2>1, <3>1 DEF SomeoneTells
    <3>3. drawing.left = {} /\ drawing.reading = NoPage
      BY <1>1 DEF Idle, Drawn
    <3> QED BY <2>1, <3>1, <3>2, <3>3 DEF DrawnThumbsShow
  <2>2. \A q \in Pages : thumbs[q] # Incomplete => q \in DOMAIN items
    BY DEF DrawnThumbsShow
  <2> QED BY <1>1, <1>8, <2>1, <2>2 DEF DrawnThumbsShow
<1> QED BY <1>3, <1>10, <1>11, <1>12, <1>13, <1>14
-----------------------------------------------------------------------------
(* Tasks.                                                                  *)

\* A task that only goes on changes nothing that others rely on.
LEMMA GoingOnKeeps ==
  ASSUME Inv, NEW t \in DOMAIN tasks, NEW task \in Task, Moved(t, task),
         task.cancelled = tasks[t].cancelled, task.alone = tasks[t].alone, ~task.changed,
         ~tasks[t].changed, task.pc \notin {"start", "content"} => task.box \in Boxes,
         task.pc \notin {"start", "done"} =>
           \/ task.box = box[PageOf(t)]
           \/ task.box = tasks[t].box /\ tasks[t].pc \notin {"start", "done"},
         UNCHANGED <<items, box, crowded, unnoticed, Gui>>
  PROVE  Inv'
<1> USE DEF Inv
<1>1. /\ TasksTyped(tasks') /\ DOMAIN tasks' = DOMAIN tasks /\ tasks'[t] = task
      /\ \A u \in DOMAIN tasks \ {t} : tasks'[u] = tasks[u]
  BY MovedTasks
<1>2. UNCHANGED <<items, box, crowded, unnoticed, exists, stage, current, batch, view,
                  thumbs, drawing>>
  BY DEF Gui
<1>3. \A u \in DOMAIN tasks : /\ tasks'[u].cancelled = tasks[u].cancelled
                              /\ tasks'[u].alone = tasks[u].alone
                              /\ tasks'[u].changed = tasks[u].changed
  <2>1. tasks[t].changed = FALSE /\ task.changed = FALSE
    BY DEF Task, Typed, TasksTyped
  <2> QED BY <1>1, <2>1
<1>4. Typed'
  BY <1>1, <1>2 DEF Typed
<1>5. Present'
  BY <1>1, <1>2, <1>3 DEF Present, PageOf
<1>6. Company'
  BY <1>1, <1>2, <1>3 DEF Company, PageOf
<1>7. SourcesCurrent'
  BY <1>1, <1>2, <1>3 DEF SourcesCurrent, PageOf
<1>8. DefinedIsCurrent'
  BY <1>2 DEF DefinedIsCurrent, Defined
<1>9. DrawnThumbsShow'
  <2>1. SomeoneTells(tasks') = SomeoneTells(tasks)
    BY <1>1, <1>3 DEF SomeoneTells
  <2> QED BY <1>2, <2>1 DEF DrawnThumbsShow
<1> QED BY <1>4, <1>5, <1>6, <1>7, <1>8, <1>9

\* The content box that is stored of the page is read.
LEMMA StartKeeps ==
  ASSUME Inv, NEW t \in DOMAIN tasks, Start(t)
  PROVE  Inv'
<1> DEFINE task == [tasks[t] EXCEPT !.box = box[PageOf(t)], !.pc = "content"]
<1>1. tasks[t] \in Task /\ PageOf(t) \in Pages /\ ~tasks[t].changed
  BY DEF Start, Inv, Typed, TasksTyped
<1>2. box[PageOf(t)] \in Boxes \cup {NoBox}
  BY <1>1 DEF Inv, Typed
<1>3. /\ task \in Task /\ task.pc = "content" /\ task.box = box[PageOf(t)]
      /\ task.cancelled = tasks[t].cancelled /\ task.alone = tasks[t].alone /\ ~task.changed
  BY <1>1, <1>2 DEF Task
<1>4. Moved(t, task) /\ UNCHANGED <<items, box, crowded, unnoticed, Gui>>
  BY DEF Start
<1> HIDE DEF task
<1>5. /\ task.pc \notin {"start", "content"} => task.box \in Boxes
      /\ task.pc \notin {"start", "done"} =>
           \/ task.box = box[PageOf(t)]
           \/ task.box = tasks[t].box /\ tasks[t].pc \notin {"start", "done"}
  BY <1>3
<1> QED BY <1>1, <1>3, <1>4, <1>5, GoingOnKeeps

\* Whether the margins of the page are automatic is read.
LEMMA IsAutoKeeps ==
  ASSUME Inv, NEW t \in DOMAIN tasks, IsAuto(t)
  PROVE  Inv'
<1> DEFINE pc   == IF ItemOf(items, PageOf(t)).auto THEN "margins" ELSE "size"
           task == [tasks[t] EXCEPT !.pc = pc]
<1>1. tasks[t] \in Task /\ ~tasks[t].changed /\ tasks[t].box \in Boxes
  BY DEF IsAuto, Inv, Typed, TasksTyped
<1>2. pc \in {"margins", "size"}
  OBVIOUS
<1>3. Moved(t, task) /\ tasks[t].pc = "auto" /\ UNCHANGED <<items, box, crowded, unnoticed, Gui>>
  BY DEF IsAuto
<1> HIDE DEF pc
<1>4. /\ task \in Task /\ task.pc = pc /\ task.box = tasks[t].box
      /\ task.cancelled = tasks[t].cancelled /\ task.alone = tasks[t].alone /\ ~task.changed
  BY <1>1, <1>2 DEF Task
<1> HIDE DEF task
<1> QED BY <1>1, <1>2, <1>3, <1>4, GoingOnKeeps

\* A cancelled task is dropped.
LEMMA DropKeeps ==
  ASSUME Inv, NEW t \in DOMAIN tasks, Drop(t)
  PROVE  Inv'
<1> USE DEF Inv
<1>1. /\ tasks[t].cancelled /\ Ended({t})
      /\ UNCHANGED <<items, box, crowded, unnoticed, exists, stage, current, batch, view,
                     thumbs, drawing>>
  BY DEF Drop, Gui
<1>2. /\ TasksTyped(tasks') /\ Company'
      /\ DOMAIN tasks' = DOMAIN tasks \ {t}
      /\ \A u \in DOMAIN tasks' : tasks'[u] = tasks[u]
  BY <1>1, EndedTasks
<1>3. Typed'
  BY <1>1, <1>2 DEF Typed
<1>4. Present'
  BY <1>1, <1>2 DEF Present, PageOf
<1>5. SourcesCurrent'
  BY <1>1, <1>2 DEF SourcesCurrent, PageOf
<1>6. DefinedIsCurrent'
  BY <1>1 DEF DefinedIsCurrent, Defined
<1>7. DrawnThumbsShow'
  <2>1. SomeoneTells(tasks') <=> SomeoneTells(tasks)
    BY <1>1, <1>2 DEF SomeoneTells
  <2> QED BY <1>1, <2>1 DEF DrawnThumbsShow
<1> QED BY <1>2, <1>3, <1>4, <1>5, <1>6, <1>7

\* Storing a content box changes it only when there was none, and then the size
\* of the page is not defined unless others still work on it.
LEMMA StoreContentBoxKeeps ==
  ASSUME Inv, NEW t \in DOMAIN tasks, StoreContentBox(t)
  PROVE  Inv'
<1> USE DEF Inv
<1> DEFINE p    == PageOf(t)
           b    == IF tasks[t].box = NoBox THEN FoundBox[p] ELSE tasks[t].box
           task == [tasks[t] EXCEPT !.box = b, !.pc = IF tasks[t].layout THEN "auto" ELSE "done"]
<1>1. /\ tasks[t].pc = "content" /\ box' = [box EXCEPT ![p] = b] /\ Moved(t, task)
      /\ UNCHANGED <<items, crowded, unnoticed, exists, stage, current, batch, view,
                     thumbs, drawing>>
  BY DEF StoreContentBox, Gui
<1>2. tasks[t] \in Task /\ p \in Pages /\ ~tasks[t].changed
  BY <1>1 DEF Typed, TasksTyped
<1>3. b \in Boxes /\ (tasks[t].box # NoBox => b = tasks[t].box)
  BY <1>2, LayoutAssumption DEF Task
<1>4. NoBox \notin Boxes \cup {Invalid}
  BY LayoutAssumption DEF NoBox, Invalid
<1> HIDE DEF b, p
<1>5. /\ task \in Task /\ task.box = b
      /\ task.cancelled = tasks[t].cancelled /\ task.alone = tasks[t].alone /\ ~task.changed
  BY <1>2, <1>3 DEF Task
<1> HIDE DEF task
<1>6. /\ TasksTyped(tasks') /\ DOMAIN tasks' = DOMAIN tasks /\ tasks'[t] = task
      /\ \A u \in DOMAIN tasks \ {t} : tasks'[u] = tasks[u]
  BY <1>1, <1>3, <1>5, MovedTasks
<1>7. \A u \in DOMAIN tasks : /\ tasks'[u].cancelled = tasks[u].cancelled
                              /\ tasks'[u].alone = tasks[u].alone
  BY <1>5, <1>6
<1>8. SomeoneTells(tasks') <=> SomeoneTells(tasks)
  BY <1>2, <1>5, <1>6 DEF SomeoneTells
<1>9. /\ box' \in [Pages -> Boxes \cup {NoBox}] /\ box'[p] = b
      /\ \A q \in Pages \ {p} : box'[q] = box[q]
  BY <1>1, <1>2, <1>3 DEF Typed
<1>10. stage = "layout" /\ p \notin crowded => box[p] = tasks[t].box
  BY <1>1 DEF Company, SourcesCurrent, p
<1>11. Typed'
  BY <1>1, <1>6, <1>9 DEF Typed
<1>12. Present'
  BY <1>1, <1>6, <1>7 DEF Present, PageOf
<1>13. Company'
  BY <1>1, <1>6, <1>7 DEF Company, PageOf
<1>14. SourcesCurrent'
  <2>1. ASSUME stage = "layout", NEW u \in DOMAIN tasks, ~tasks'[u].cancelled, tasks'[u].alone,
               tasks'[u].pc \notin {"start", "done"}
        PROVE  box'[PageOf(u)] = tasks'[u].box
    <3>1. CASE u = t
      BY <1>5, <1>6, <1>9, <3>1 DEF p
    <3>2. CASE u # t
      <4>1. tasks'[u] = tasks[u] /\ PageOf(u) # p /\ PageOf(u) \in Pages
        BY <1>6, <2>1, <3>2 DEF Company, Typed, TasksTyped, p
      <4> QED BY <1>9, <2>1, <4>1 DEF SourcesCurrent
    <3> QED BY <3>1, <3>2
  <2>2. ASSUME stage = "layout", drawing.reading \in exists \ crowded, drawing.size # Invalid
        PROVE  drawing.size = box'[drawing.reading]
    <3>1. drawing.size = box[drawing.reading] /\ drawing.size \in Boxes \cup {Invalid}
          /\ drawing.reading \in Pages
      BY <2>2 DEF SourcesCurrent, Typed, Drawing
    <3>2. CASE drawing.reading = p
      BY <1>3, <1>4, <1>9, <1>10, <2>2, <3>1, <3>2
    <3>3. CASE drawing.reading # p
      BY <1>9, <3>1, <3>3
    <3> QED BY <3>2, <3>3
  <2> QED BY <1>1, <1>6, <2>1, <2>2 DEF SourcesCurrent, PageOf
<1>15. DefinedIsCurrent'
  <2> SUFFICES ASSUME stage = "layout", NEW q \in exists \ crowded,
                      q \in DOMAIN items, items[q].size # Invalid
               PROVE  items[q].size = box'[q]
    BY <1>1 DEF DefinedIsCurrent, Defined
  <2>1. /\ items[q].size = box[q] /\ items[q].size \in Boxes \cup {Invalid}
        /\ q \in Pages
    BY DEF DefinedIsCurrent, Defined, Typed, ItemsTyped, Item
  <2>2. CASE q = p
    BY <1>3, <1>4, <1>9, <1>10, <2>1, <2>2
  <2>3. CASE q # p
    BY <1>9, <2>1, <2>3
  <2> QED BY <2>2, <2>3
<1>16. DrawnThumbsShow'
  BY <1>1, <1>8 DEF DrawnThumbsShow
<1> QED BY <1>11, <1>12, <1>13, <1>14, <1>15, <1>16

\* Automatic margins: a change of the aggregate size is noted.
LEMMA SetAutoMarginsKeeps ==
  ASSUME Inv, NEW t \in DOMAIN tasks, SetAutoMargins(t)
  PROVE  Inv'
<1> USE DEF Inv
<1> DEFINE p    == PageOf(t)
           m    == PageWidth[p] - tasks[t].box
           a    == [ItemOf(items, p) EXCEPT !.margins = m]
           its  == Put(items, p, a)
           task == [tasks[t] EXCEPT !.pc = "size"]
<1>1. /\ tasks[t].pc = "margins" /\ items' = its /\ Moved(t, task)
      /\ unnoticed' = (unnoticed \/ Aggregate(its) # Aggregate(items))
      /\ UNCHANGED <<box, crowded, exists, stage, current, batch, view, thumbs, drawing>>
  BY DEF SetAutoMargins, Gui, SetMargins
<1>2. /\ tasks[t] \in Task /\ p \in Pages /\ tasks[t].box \in Boxes /\ ~tasks[t].changed
      /\ ItemsTyped(items)
  BY <1>1 DEF Typed, TasksTyped
<1>3. m \in Int
  <2>1. PageWidth[p] \in Nat
    BY <1>2, LayoutAssumption
  <2>2. tasks[t].box \in Nat
    BY <1>2, LayoutAssumption
  <2> QED BY <2>1, <2>2
<1> HIDE DEF m
<1>4. a \in Item /\ a.size = ItemOf(items, p).size /\ a.aligned = ItemOf(items, p).aligned
  <2>1. ItemOf(items, p) \in Item
    BY <1>2, ItemOfTyped
  <2> QED BY <1>3, <2>1 DEF Item
<1>5. IF p \in DOMAIN items THEN ItemOf(items, p) = items[p]
      ELSE ItemOf(items, p).size = Invalid
  BY DEF ItemOf, DefaultItem
<1>6. /\ task \in Task /\ task.box = tasks[t].box /\ task.pc = "size"
      /\ task.cancelled = tasks[t].cancelled /\ task.alone = tasks[t].alone /\ ~task.changed
  BY <1>2 DEF Task
<1> HIDE DEF p, a, task
<1>7. /\ ItemsTyped(its) /\ DOMAIN its = DOMAIN items \cup {p} /\ its[p] = a
      /\ \A q \in DOMAIN items \ {p} : its[q] = items[q]
  <2>1. LET put == Put(items, p, a)
        IN /\ ItemsTyped(put)
           /\ DOMAIN put = DOMAIN items \cup {p}
           /\ put[p] = a
           /\ \A q \in DOMAIN items \ {p} : put[q] = items[q]
    BY <1>2, <1>4, PutTyped
  <2> QED BY <2>1
<1> HIDE DEF its
<1>8. /\ TasksTyped(tasks') /\ DOMAIN tasks' = DOMAIN tasks /\ tasks'[t] = task
      /\ \A u \in DOMAIN tasks \ {t} : tasks'[u] = tasks[u]
  BY <1>1, <1>2, <1>6, MovedTasks
<1>9. \A u \in DOMAIN tasks : /\ tasks'[u].cancelled = tasks[u].cancelled
                              /\ tasks'[u].alone = tasks[u].alone
                              /\ tasks'[u].box = tasks[u].box
  BY <1>6, <1>8
<1>10. SomeoneTells(tasks') <=> SomeoneTells(tasks)
  BY <1>2, <1>6, <1>8 DEF SomeoneTells
<1>11. Typed'
  <2>1. unnoticed' \in BOOLEAN
    BY <1>1 DEF Typed
  <2> QED BY <1>1, <1>7, <1>8, <2>1 DEF Typed
<1>12. Present'
  BY <1>1, <1>7, <1>8, <1>9 DEF Present, PageOf
<1>13. Company'
  BY <1>1, <1>8, <1>9 DEF Company, PageOf
<1>14. SourcesCurrent'
  BY <1>1, <1>6, <1>8, <1>9 DEF SourcesCurrent, PageOf
<1>15. DefinedIsCurrent'
  <2> SUFFICES ASSUME stage = "layout", NEW q \in exists \ crowded,
                      q \in DOMAIN its, its[q].size # Invalid
               PROVE  its[q].size = box[q]
    BY <1>1 DEF DefinedIsCurrent, Defined
  <2>1. q \in DOMAIN items /\ its[q].size = items[q].size
    BY <1>4, <1>5, <1>7
  <2> QED BY <2>1 DEF DefinedIsCurrent, Defined
<1>16. DrawnThumbsShow'
  <2>1. \A q \in Pages : thumbs[q] # Incomplete => q \in DOMAIN items /\ q \in DOMAIN its
    BY <1>7 DEF DrawnThumbsShow
  <2>2. ASSUME stage = "layout", ~unnoticed', ~SomeoneTells(tasks),
               NEW q \in (exists \cap DOMAIN its) \ (drawing.left \cup {drawing.reading}),
               its[q].aligned, thumbs[q] # Incomplete
        PROVE  thumbs[q] = Aggregate(its)
    <3>1. q \in DOMAIN items
      BY <2>1, <2>2 DEF Typed
    <3>2. items[q].aligned
      BY <1>4, <1>5, <1>7, <2>2, <3>1
    <3>3. ~unnoticed /\ Aggregate(its) = Aggregate(items)
      BY <1>1, <2>2
    <3> QED BY <2>2, <3>1, <3>2, <3>3 DEF DrawnThumbsShow
  <2> QED BY <1>1, <1>10, <2>1, <2>2 DEF DrawnThumbsShow
<1> QED BY <1>11, <1>12, <1>13, <1>14, <1>15, <1>16

\* The size is that of the content box the task has.  Only a task that had the page
\* to itself takes it from the crowded ones, and its content box is the one stored.
LEMMA UpdateContentSizeKeeps ==
  ASSUME Inv, NEW t \in DOMAIN tasks, UpdateContentSize(t)
  PROVE  Inv'
<1> USE DEF Inv
<1> DEFINE p    == PageOf(t)
           a    == [ItemOf(items, p) EXCEPT !.size = tasks[t].box]
           its  == Put(items, p, a)
           changed == Aggregate(items) # Aggregate(its)
           task == [tasks[t] EXCEPT !.changed = changed, !.pc = "done"]
           left == tasks[t].cancelled \/ ~tasks[t].alone \/ drawing.reading = p
<1>1. /\ tasks[t].pc = "size" /\ items' = its /\ Moved(t, task)
      /\ crowded' = IF left THEN crowded ELSE crowded \ {p}
      /\ unnoticed' = (unnoticed \/ (tasks[t].cancelled /\ Aggregate(its) # Aggregate(items)))
      /\ UNCHANGED <<box, exists, stage, current, batch, view, thumbs, drawing>>
  BY DEF UpdateContentSize, Gui, SetSize, SizeChanged
<1>2. /\ tasks[t] \in Task /\ p \in Pages /\ tasks[t].box \in Boxes /\ ~tasks[t].changed
      /\ ItemsTyped(items)
  BY <1>1 DEF Typed, TasksTyped
<1>3. a \in Item /\ a.size = tasks[t].box /\ a.aligned = ItemOf(items, p).aligned
  <2>1. ItemOf(items, p) \in Item
    BY <1>2, ItemOfTyped
  <2> QED BY <1>2, <2>1 DEF Item
<1>4. p \in DOMAIN items => ItemOf(items, p) = items[p]
  BY DEF ItemOf
<1> HIDE DEF p, a
<1>5. /\ ItemsTyped(its) /\ DOMAIN its = DOMAIN items \cup {p} /\ its[p] = a
      /\ \A q \in DOMAIN items \ {p} : its[q] = items[q]
  <2>1. ItemsTyped(items) /\ p \in Pages /\ a \in Item
    BY <1>2, <1>3
  <2>2. LET put == Put(items, p, a)
        IN /\ ItemsTyped(put)
           /\ DOMAIN put = DOMAIN items \cup {p}
           /\ put[p] = a
           /\ \A q \in DOMAIN items \ {p} : put[q] = items[q]
    BY <2>1, PutTyped
  <2> QED BY <2>2
<1> HIDE DEF its
<1>6. changed \in BOOLEAN /\ (changed <=> Aggregate(its) # Aggregate(items))
  OBVIOUS
<1> HIDE DEF changed
<1>7. /\ task \in Task /\ task.box = tasks[t].box /\ task.pc = "done"
      /\ task.cancelled = tasks[t].cancelled /\ task.alone = tasks[t].alone
      /\ task.changed = changed
  BY <1>2, <1>6 DEF Task
<1> HIDE DEF task
<1>8. /\ TasksTyped(tasks') /\ DOMAIN tasks' = DOMAIN tasks /\ tasks'[t] = task
      /\ \A u \in DOMAIN tasks \ {t} : tasks'[u] = tasks[u]
  BY <1>1, <1>2, <1>7, MovedTasks
<1>9. \A u \in DOMAIN tasks : /\ tasks'[u].cancelled = tasks[u].cancelled
                              /\ tasks'[u].alone = tasks[u].alone
                              /\ tasks'[u].box = tasks[u].box
  BY <1>7, <1>8
<1>10. crowded' \subseteq crowded /\ crowded \subseteq crowded' \cup {p}
  BY <1>1
<1>11. ~left => \A u \in DOMAIN tasks \ {t} : PageOf(u) # p
  BY DEF Company, p
<1>12. Typed'
  <2>1. unnoticed' \in BOOLEAN
    BY <1>1 DEF Typed
  <2> QED BY <1>1, <1>5, <1>8, <2>1 DEF Typed
<1>13. Present'
  BY <1>1, <1>5, <1>8, <1>9 DEF Present, PageOf
<1>14. Company'
  <2> SUFFICES ASSUME NEW u \in DOMAIN tasks
               PROVE  IF tasks[u].cancelled \/ ~tasks[u].alone THEN PageOf(u) \in crowded'
                      ELSE \A w \in DOMAIN tasks \ {u} : PageOf(w) # PageOf(u)
    BY <1>8, <1>9 DEF Company, PageOf
  <2>1. CASE left
    BY <1>1, <2>1 DEF Company
  <2>2. CASE ~left
    <3>1. u # t => PageOf(u) # p
      BY <1>11, <2>2
    <3>2. u = t => ~tasks[u].cancelled /\ tasks[u].alone
      BY <2>2
    <3> QED BY <1>10, <3>1, <3>2 DEF Company
  <2> QED BY <2>1, <2>2
<1>15. SourcesCurrent'
  <2>1. ASSUME stage = "layout", NEW u \in DOMAIN tasks, ~tasks'[u].cancelled, tasks'[u].alone,
               tasks'[u].pc \notin {"start", "done"}
        PROVE  box[PageOf(u)] = tasks'[u].box
    <3>1. tasks[u].pc \notin {"start", "done"}
      BY <1>1, <1>8, <2>1
    <3> QED BY <1>9, <2>1, <3>1 DEF SourcesCurrent
  <2>2. ASSUME stage = "layout", drawing.reading \in exists \ crowded', drawing.size # Invalid
        PROVE  drawing.size = box[drawing.reading]
    <3>1. drawing.reading \in exists \ crowded
      BY <1>1, <1>10, <2>2
    <3> QED BY <2>2, <3>1 DEF SourcesCurrent
  <2> QED BY <1>1, <1>8, <2>1, <2>2 DEF SourcesCurrent, PageOf
<1>16. DefinedIsCurrent'
  <2> SUFFICES ASSUME stage = "layout", NEW q \in exists \ crowded',
                      q \in DOMAIN its, its[q].size # Invalid
               PROVE  its[q].size = box[q]
    BY <1>1 DEF DefinedIsCurrent, Defined
  <2>1. CASE q = p
    <3>1. ~tasks[t].cancelled /\ tasks[t].alone
      BY <1>1, <2>1 DEF Company, p
    <3>2. box[p] = tasks[t].box
      BY <1>1, <3>1 DEF SourcesCurrent, p
    <3> QED BY <1>3, <1>5, <2>1, <3>2
  <2>2. CASE q # p
    BY <1>5, <1>10, <2>2 DEF DefinedIsCurrent, Defined
  <2> QED BY <2>1, <2>2
<1>17. DrawnThumbsShow'
  <2>1. \A q \in Pages : thumbs[q] # Incomplete => q \in DOMAIN items /\ q \in DOMAIN its
    BY <1>5 DEF DrawnThumbsShow
  <2>2. ASSUME stage = "layout", ~unnoticed', ~SomeoneTells(tasks'),
               NEW q \in (exists \cap DOMAIN its) \ (drawing.left \cup {drawing.reading}),
               its[q].aligned, thumbs[q] # Incomplete
        PROVE  thumbs[q] = Aggregate(its)
    <3>1. q \in DOMAIN items
      BY <2>1, <2>2 DEF Typed
    <3>2. items[q].aligned
      BY <1>3, <1>4, <1>5, <2>2, <3>1
    <3>3. Aggregate(its) = Aggregate(items)
      <4>1. CASE tasks[t].cancelled
        BY <1>1, <2>2, <4>1
      <4>2. CASE ~tasks[t].cancelled
        BY <1>6, <1>7, <1>8, <2>2, <4>2 DEF SomeoneTells
      <4> QED BY <4>1, <4>2
    <3>4. ~SomeoneTells(tasks)
      <4>1. \A u \in DOMAIN tasks \ {t} : tasks[u].cancelled \/ ~tasks[u].changed
        BY <1>8, <2>2 DEF SomeoneTells
      <4> QED BY <1>2, <4>1 DEF SomeoneTells
    <3>5. ~unnoticed
      BY <1>1, <2>2
    <3> QED BY <2>2, <3>1, <3>2, <3>3, <3>4, <3>5 DEF DrawnThumbsShow
  <2> QED BY <1>1, <2>1, <2>2 DEF DrawnThumbsShow
<1> QED BY <1>12, <1>13, <1>14, <1>15, <1>16, <1>17
-----------------------------------------------------------------------------
(* The invariant, and what follows from it.                                *)

\* At the start no items and no tasks are there.
LEMMA InitInv == Init => Inv
<1> SUFFICES ASSUME Init PROVE Inv
  OBVIOUS
<1>1. items = [p \in {} |-> DefaultItem] /\ tasks = [t \in {} |-> NewTask(FALSE, TRUE)]
  BY DEF Init
<1>2. DOMAIN items = {} /\ DOMAIN tasks = {}
  BY <1>1
<1>3. ItemsTyped(items) /\ TasksTyped(tasks)
  BY <1>1 DEF ItemsTyped, TasksTyped
<1>4. /\ exists = Pages /\ box \in [Pages -> Boxes \cup {NoBox}] /\ stage = "content"
      /\ batch = FALSE /\ current \in Pages /\ view = NoView
      /\ thumbs = [p \in Pages |-> Incomplete] /\ drawing = Redraw({}, current)
      /\ unnoticed = FALSE
  BY DEF Init
<1>5. drawing \in Drawing /\ drawing.reading = NoPage /\ view \in View /\ view.page = NoPage
  BY <1>4 DEF Redraw, Drawing, NoView, View
<1>6. Typed
  <2>1. thumbs \in [Pages -> Int]
    BY <1>4 DEF Incomplete
  <2>2. batch \in BOOLEAN
    BY <1>4
  <2>3. unnoticed \in BOOLEAN
    BY <1>4
  <2> QED BY <1>3, <1>4, <1>5, <2>1, <2>2, <2>3 DEF Typed
<1>7. Present
  BY <1>2, <1>4, <1>5 DEF Present
<1>8. Company /\ SourcesCurrent /\ DefinedIsCurrent
  BY <1>2, <1>4 DEF Company, SourcesCurrent, DefinedIsCurrent
<1>9. DrawnThumbsShow
  BY <1>4 DEF DrawnThumbsShow
<1> QED BY <1>6, <1>7, <1>8, <1>9 DEF Inv

\* Each action of the user keeps it.
LEMMA UserKeeps == Inv /\ User => Inv'
<1> SUFFICES ASSUME Inv, User PROVE Inv'
  OBVIOUS
<1>1. CASE \E p \in Pages : SelectPage(p) \/ RemovePage(p)
  BY <1>1, SelectPageKeeps, RemovePageKeeps
<1>2. CASE StartBatch \/ StopBatch
  BY <1>2, StartBatchKeeps, StopBatchKeeps
<1>3. CASE \E p \in Pages, b \in Boxes \cup {NoBox} : ChangeBox(p, b)
  BY <1>3, ChangeBoxKeeps
<1>4. CASE \E s \in {"content", "layout"} : SelectStage(s)
  BY <1>4, SelectStageKeeps
<1>5. CASE view.page # NoPage /\ \E m \in Margins : SetHardMargins(m)
  BY <1>5, SetHardMarginsKeeps
<1>6. CASE view.page # NoPage /\ \E aligned \in BOOLEAN : AlignmentChanged(aligned)
  BY <1>6, AlignmentChangedKeeps
<1>7. CASE view.page # NoPage /\ \E auto \in BOOLEAN : AutoMarginsToggled(auto)
  BY <1>7, AutoMarginsToggledKeeps
<1>8. CASE view.page # NoPage /\ (ApplyMargins \/ ApplyAlignment \/ MatchSizeToAllPages)
  BY <1>8, ApplyKeeps
<1> QED BY <1>1, <1>2, <1>3, <1>4, <1>5, <1>6, <1>7, <1>8 DEF User

\* Every step keeps it.
LEMMA StepKeeps == Inv /\ [Next]_vars => Inv'
<1> SUFFICES ASSUME Inv, [Next]_vars PROVE Inv'
  OBVIOUS
<1>1. CASE User
  BY <1>1, UserKeeps
<1>2. CASE GuiThread
  BY <1>2, ReadForThumbKeeps, DrawThumbKeeps, LoadAfterDrawingKeeps, DeliverKeeps DEF GuiThread
<1>3. CASE \E t \in DOMAIN tasks : Worker(t)
  BY <1>3, StartKeeps, StoreContentBoxKeeps, IsAutoKeeps, SetAutoMarginsKeeps,
     UpdateContentSizeKeeps, DropKeeps DEF Worker
<1>4. CASE UNCHANGED vars
  <2> USE <1>4 DEF vars, Inv
  <2>1. Typed'
    BY DEF Typed
  <2>2. Present' /\ Company'
    BY DEF Present, Company, PageOf
  <2>3. SourcesCurrent' /\ DefinedIsCurrent'
    BY DEF SourcesCurrent, DefinedIsCurrent, Defined, PageOf
  <2>4. DrawnThumbsShow'
    BY DEF DrawnThumbsShow
  <2> QED BY <2>1, <2>2, <2>3, <2>4
<1> QED BY <1>1, <1>2, <1>3, <1>4 DEF Next

\* The invariant holds, for any pages, boxes and margins.
THEOREM AlwaysSound == Spec => []Inv
BY InitInv, StepKeeps, PTL DEF Spec

\* The aggregate size is that of the largest page to match others, whatever tasks
\* and the drawing of thumbnails write, in any order.
THEOREM AggregateStaysLargest == Spec => []AggregateIsLargest
<1>1. Inv => AggregateIsLargest
  <2> SUFFICES ASSUME Inv PROVE AggregateIsLargest
    OBVIOUS
  <2>1. ItemsTyped(items)
    BY DEF Inv, Typed
  <2> QED BY <2>1, AggregateSound DEF AggregateIsLargest
<1> QED BY <1>1, AlwaysSound, PTL

\* Sizes that are defined are those of the content boxes, but for pages that were
\* crowded.
THEOREM SizesFollowBoxes == Spec => []DefinedIsCurrent
<1>1. Inv => DefinedIsCurrent
  BY DEF Inv
<1> QED BY <1>1, AlwaysSound, PTL

\* Thumbnails show pages as they would be extended now, when all are drawn and
\* nothing is to be told, unless the aggregate size changed unnoticed.
THEOREM ThumbnailsShowAggregate == Spec => []ThumbsShowAggregate
<1>1. Inv => ThumbsShowAggregate
  <2> SUFFICES ASSUME Inv, stage = "layout", Idle, ~unnoticed, ~SomeoneTells(tasks),
                      NEW p \in exists \cap DOMAIN items,
                      items[p].aligned, thumbs[p] # Incomplete
               PROVE  thumbs[p] = Aggregate(items)
    BY DEF ThumbsShowAggregate, SomeoneTells
  <2>1. drawing.left = {} /\ drawing.reading = NoPage
    BY DEF Idle, Drawn
  <2>2. p # NoPage
    BY LayoutAssumption DEF Inv, Typed
  <2> QED BY <2>1, <2>2 DEF Inv, DrawnThumbsShow
<1> QED BY <1>1, AlwaysSound, PTL
=============================================================================
