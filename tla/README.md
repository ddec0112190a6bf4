# ScanTailor Advanced in TLA+

ScanTailor takes scanned images through six stages (orientation, page splitting,
deskew, content selection, margins, output). Its numerical work is sequential. What
is difficult is around it: a GUI thread that lets the user change anything at any
time, a pool of worker threads whose results arrive late, settings that both write, a
thumbnail cache shared by three kinds of threads, a list of pages that changes under
its selection, and files whose contents must agree with what the project says of them.
This directory models that part, checks it with TLC on small instances, and proves part
of it with TLAPS for all instances.

Paths below are relative to `src/` of the repository, e.g. `core/ThumbnailPixmapCache.cpp`.
`PROJECT.json` maps each definition to the lines it translates.

## 1. Inventory

| Component | State | Operations | Interacts with | Difficult behaviour | What makes it correct |
|---|---|---|---|---|---|
| Thumbnail cache (`core/ThumbnailPixmapCache.cpp`) | items in three indices, an end-of-LOADED iterator, two counters, loader thread, directory and size | `loadRequest`, `loadNow`, `ensureThumbnailExists`, `recreateThumbnail`, `setThumbDir`, `setMaxThumbSize`, load results, destructor | thumbnails (weak callbacks), loader thread, workers, the files | iterators kept across unlocked sections, hand-maintained counters, expiry, race of loader and rewriter | no dangling iterator, no lost request, bounded memory, nothing stale, destructor returns |
| Thumbnail painting (`core/ThumbnailBase.cpp`) | completion handler, what was drawn | `paint`, `handleLoadResult` | the cache | asks once per answer, so a lost answer is permanent | it ends up painted |
| Task queue (`core/ProcessingTaskQueue.cpp`) | list of tasks with a taken flag, page to select, page to select at the end | add, take, finish, remove, clear | main window | tasks end in any order, or after their removal | order, selection, cancellation |
| Worker pool (`core/WorkerThreadPool.cpp`, `core/BackgroundTask.h`) | running and waiting tasks, cancel flags | submit, spare capacity, result event | main window, OOM handler | results posted before a cancellation, threads that linger | every result accounted for |
| Main window (`app/MainWindow.cpp`) | project, pages, selection, stage, two task queues, what is displayed | select, reload, change stage, batch start/stop, remove, insert, switch project, results | everything | each handler may cancel what another started | only results for current work are used; batches end |
| Thumbnail list (`app/ThumbnailSequence.cpp`) | order, selection, leader | reset, select, insert, remove, invalidate | main window | order changes under a selection | leader is selected, order is total |
| Project pages (`core/ProjectPages.cpp`) | list of images with sub-page layout | listing, splitting, insertion, removal, relinking | workers and GUI through a mutex | a layout changes while pages are enumerated | pages and listing agree |
| Stage settings (`core/filters/*/Settings.cpp`) | parameters by page behind a mutex | get, set, conditional update | workers, GUI | update lost between reading and writing, retry loop of page splitting, aggregate size of margins | conditional update, exact aggregate |
| Output task (`core/filters/output/Task.cpp`) | `OutputParams`, output files | decide if output is current, write images, store parameters | thumbnail cache, settings | partial write then crash, stale "current" decision | files never newer/older than parameters claim |
| Project file (`core/ProjectWriter.cpp`, `core/ProjectReader.cpp`, `core/AtomicFileOverwriter.cpp`) | file on disk | save, load | main window | a write that fails half way | one complete project remains |
| File names and relinking (`core/FileNameDisambiguator.cpp`, `app/RelinkingModel.cpp`, ...) | name to label | register, query, relink | pages, output | two files with one name, chains of replacement | injective, undoable |
| Out of memory handler (`core/OutOfMemoryHandler.cpp`) | one-shot flag, emergency memory | report | workers, loader, main window | two reports, report while closing | one report, project closed |
| Background executor (`core/BackgroundExecutor.cpp`) | thread, task | enqueue, shutdown | dialogs | shutdown races a task | no lost result, join |
| Containers (`foundation/PriorityQueue.h`, ...) | heap etc. | push, pop, reposition | dewarping | index maintenance | heap order, indices exact |
| Image processing, dewarping, math | none | numerical | stages | numerics | out of TLC's reach |
| Shell, dialogs, settings, resources, translations | forms | plumbing | | | not modelled |

How they interact. The main window puts tasks in a queue, hands the first to the pool,
and receives each result as an event. A task holds shared pointers to its project's
pages, settings and thumbnail cache. The output task writes its file and then tells the
cache to recreate the thumbnail. The cache loads through one thread, which posts events
that the GUI thread turns into repaints.

## 2. Modules

| Module | Models | Lines up with |
|---|---|---|
| `ThumbnailPixmapCache` | the cache, its loader thread, the thumbnails that ask it, the workers that rewrite files | every critical section of `m_mutex` is one action; every step outside of the lock (read, save, post) is another |
| `TaskQueues` | `ProcessingTaskQueue` as a data type: functions from queues to queues | one operator per method |
| `ProcessingTaskQueue` | one queue with arbitrary clients | one action per method |
| `BatchProcessing` | main window + two queues + pool + event queue | one action per handler; the feeding loop of a batch is split where it looks at the pool |
| `TaskLifecycle` | what the queues promise to whoever submits a task | abstract; implemented by `ProcessingTaskQueue` and `BatchProcessing` |
| `PageSplitting` | stages 1 and 2, `ProjectPages`, propagation of orientations, the thumbnails that copy layouts | a GUI handler is one action; a task is cut at each lock it takes |
| `PageLayout` | the margins stage, what it gets from content selection, `ContentBoxPropagator`, thumbnails that are drawn | same |
| `OutputStage` | deciding, generating, writing and storing the output of a page; crashes and restarts | same, and each file is opened and closed in a step of its own |
| `OutputPixels` | what becomes of one pixel in `OutputGenerator`, and in the files | one operator per image of the code, on both of its paths |
| `ThumbnailSequence` | the list of thumbnails, its order and selection, and the handlers of the main window that change it | one action per handler |
| `ProcessingTaskQueueProofs`, `BatchProcessingProofs`, `ThumbnailPixmapCacheProofs`, `PageSplittingProofs`, `PageLayoutProofs`, `OutputStageProofs`, `OutputPixelsProofs`, `ThumbnailSequenceProofs` | theorems about the module they are named after; the first two also that it implements `TaskLifecycle` | |
| `MC*` | instances for TLC | |

`BatchProcessing` composes the queues of `TaskQueues` with the pool and the window. The
stages (`PageSplitting`, `PageLayout`, `OutputStage`) each bring the part of the main
window they interact with: load, cancel, change of stage, removal.

### ThumbnailPixmapCache

`cache` is what the mutex protects: a function of items, the load queue and the remove
queue (two orders of the same items), the end-of-LOADED iterator (`None` is `end()`) and
the two counters, which are kept as the code keeps them, by increments, and not derived.
The private helpers of the code (`removeItemLocked`, `removeExcessLocked`,
`removeLoadedItemsLocked`, `queuedToInProgress`, `cachePixmapLocked`) are functions of
that record. `relocate` is modelled with its special case: relocating an element before
itself does nothing.

* GUI thread: `Paint` (with the four cases of `request()`), `ProcessLoadResult`,
  `SetThumbDir`, `SetMaxThumbSize`, `LoadNow`/`LoadedNow` (two halves around the
  unlocked load), `Shutdown`.
* Loader thread: `LoaderBegins`, `LoaderExpires`, `LoaderReads`, `LoaderSaves`,
  `LoaderRests`, `LoaderWakes`, `LoaderRunsOutOfMemory`, `LoaderFinishes`.
* Workers: `EnsureThumbnailExists`, and for output files `WriteOutput`, `RewriteThumb`
  and `DropRewritten`.
* The world: `Expose` (scrolling), `ReplaceThumb` (the thumbnail list is rebuilt).

Abstractions. A pixmap is the version number of the image it shows. Only the difference
of `m_totalLoadAttempts` to an item's value matters, so items carry that difference,
`age`, up to one past the threshold. Posted wake-ups are a boolean: after the first one
the queue has nothing QUEUED. Names, directories and sizes of thumbnail files are left
out, so `setThumbDir` is taken to be called with the files moved along; one save of a
file is atomic; the loader looks for the thumbnail file and, failing that, reads the
image in one step. `loadNow` loads and saves in one step. The early return of the
destructor, when the loader was never started, is the case `loader = "unstarted"`.

### TaskQueues, ProcessingTaskQueue, TaskLifecycle

Tasks are numbered in the order of their creation, so the list `m_queue` is a function
from task numbers to pages. `Found` keeps the early return of `processingFinished`,
which stops at the first entry not taken. A page is not queued twice at a time; that is
how both queues of the main window are used. `BatchSpec` adds everything before taking
anything, as `startBatchProcessing` does.

`TaskLifecycle` says what is promised, without queues: a task waits, is processed, and
ends for good, either with its result applied, once and after it was processed, or
abandoned; a step applies the result of one task at most. `ImplementsLifecycle` is that
specification under a refinement mapping, for one queue (from what the queue holds and
what was finished) and for the whole main window (from both queues, the pool and the
posted results). It refutes, for example, a result of abandoned work that is applied
after all, or a task that is taken up again.

### BatchProcessing

`app` is a record of what the handlers work on, so that handlers call each other in the
model as they do in the code (`stopBatchProcessing` inside `switchToNewProject`, etc.).
`pool` is `QThreadPool` as the program uses it: tasks that run, tasks that wait, and
threads that are done with a task but still counted (`leaving`). `events` are the posted
results. A cancelled task may see its flag and end without a result, or miss it.
`tasks`, `batchTasks` and `applied` are history. Whether the output stage is ready
(`checkReadyForOutput`) is nondeterministic. An error result may move the selection to
an earlier stage. Left out: insertion of pages and removal of several at once (they are
in `PageSplitting` and `ThumbnailSequence`), dialogs, the debug view, view settings,
saving.

### PageSplitting

Three stores say how many pages an image has: the records of `page_split/Settings.cpp`
(`records`), the logical pages of `ProjectPages.cpp` (`pages`, with the halves that were
removed), and the list of thumbnails (`gui.list`). Workers, options and the window write
the first two, and a thumbnail, when created, copies the first to the second.

* The task: `ReadRotation`, `ReadRecord`, `Decide` (with `conditionalUpdate` and the retry
  loop), `SplitImage`, `Deliver` (the result in the GUI thread), `Drop` (cancelled).
* The options: `Rotate`, `ApplyRotation`, `ToggleLayoutType`, `Apply` (the dialog),
  `SplitModeAuto`, `MoveSplitLine`, `Unremove`.
* The window: `SelectPage`, `RemoveFromProject`, `InsertImage`, `SwitchStage` (both
  propagators run there), `SaveAndReopen` (what is not written to a project file is lost).

Abstractions. Of a layout only its type is kept, whether the cutters lie on a border or
cross, how the split line was set, and the turn and type it was made for. Images have
the same size. The layout found in an image depends on it and its turn (`Detected`).
Where the dialog code reads a record that has been destroyed
(`page_split/OptionsWidget.cpp:215`), the turn it reads is any. `overtaken` is history:
images whose record was changed since their load by a cancelled task, by the dialog, or
by the user while the task ran.

### PageLayout

`items` is `page_layout::Settings` (margins, size of the content, whether the size is
matched to others, whether margins are automatic), `box` what content selection has stored. Tasks
go through both stages (`StoreContentBox`, `SetAutoMargins`, `UpdateContentSize`,
`Deliver`); thumbnails read parameters and write the content size back in two steps
(`ReadForThumb`, `DrawThumb`); the user edits margins and alignment, applies them to
others, changes boxes in the stage before and comes back, removes pages, runs a batch.
Widths stand for both dimensions, and guides are left out. `view` is what the open image
view remembers (alignment, committed aggregate size), `thumbs` the aggregate size each
thumbnail was drawn for, `drawing` the thumbnails still to be drawn. History: `crowded`
pages that a cancelled task may have worked on too, and `unnoticed`, set when the
aggregate size was changed by a step after which the code tells nobody. A page gets its
default margins when it is first loaded (`core/filters/page_layout/Filter.cpp:186`, from
`app/MainWindow.cpp:1143` and `:1608`); this too is one of those steps if they differ from
what the page had.

### OutputStage

The pages are one image before (`Whole`) and after (`Half`) it is split. `project` holds
the settings a user can change and those a task writes back (distortion model, picture
zones, white on black); `saved` is the project file; `files` has for each page and kind
of file (`out`, foreground, background, original background, mask, speckles) what was
written into it, or that it is absent or torn; `current` is where the window is. A task
reads its settings (`Start`), compares with the stored parameters and the files
(`Decide`), then either loads files (`LoadFiles`, which throws if a layer to be merged is
missing) or generates (`Generate`,
`UpdateBlackOnWhite`, `FindZones`, `Dewarp`, `Reread`, each reading and writing settings
where the code does), saves file by file (`OpenFile`, `CloseFile`, `FailToWrite`),
removes those of other modes (`RemoveFiles`) and stores parameters (`Store`). `Crash` may
come anywhere and leaves the files and the saved project. History: `raced` pages have
parameters that were stored by a task which did not have the page to itself, `chosen` is
what the user chose last, `meddled` where it was chosen while a task held a copy to write back.

Abstractions. The content of a file is what it was generated from. A file's size and
time identify what was written (`core/filters/output/OutputFileParams.cpp`). A choice of the user
is one of a few combinations of colour mode, zone shape and dewarping.

### OutputPixels

A pixel of a page has facts (its grey level, whether it is ink, a speckle, part of a
picture, inside the content box, the dominant colour of its page, ...), and `Made`
computes what the code makes of it under each combination of options: `Straight` without
dewarping, `Dewarped` with it, which is a second copy of the same composition in
`core/filters/output/OutputGenerator.cpp`. An image is a record with the level of the
pixel, its masks, and what despeckling needs. The layers of a split output
(`ForegroundImage`, `OriginalBackgroundImage`, `MergedThree`, ...) are those of
`OutputImageWithForegroundMask.cpp` and `OutputImageWithOriginalBackgroundMask.cpp`, which
`Task.cpp` writes and reads. `AllPixels` says which facts go together (black and white
are no ink to be found; pictures are found in content only), `Cases` which pixels and
options are looked at. `EditZones` draws or deletes a picture zone on a layer; `Process`
makes the page (again).

Abstractions. Recognition (binarisation, speckles, pictures, content) is a fact of the
pixel; illumination normalisation, posterisation, Wiener filter, smoothing and geometry
are left out, so dewarping moves no pixel.

### ThumbnailSequence

`list` is `ThumbnailSequence::Impl`: display order, the order with selected items in
front, the leader, and which items are flagged incomplete. `facts` are what an order looks
at: the key of each page in the stage settings, or that it has none (`Unknown`), and whether
it is complete. The key is a width, a split type, or the value whose deviation is looked at.
`Deviation` is the distance of a value from the mean of all known ones, as in
`core/DeviationProvider.h`, times their number to stay with integers. So one page's new value
changes what all pages are compared by, and may put two others in another order. `unheard`
are the pages that were changed and of which the list was not told, and those that compare
differently to one another because the mean has moved: nobody tells the list of these.
Only a call for each of them, `invalidateAllThumbnails` or a reset makes it hear of them.
Actions: `Click` (plain, shift, control),
`GoToPage`, `SwitchStage`, `PageOrderingChanged`, `ChangePage`, `InvalidateThumbnail`,
`InvalidateAllThumbnails`, `SplitImage`, `InsertImage`, `RemoveFromProject`,
`StopBatchProcessing`. `reset`, `insert`, `remove`, `invalidateThumbnail` and their
helpers (`itemInsertPosition` with its two directions, `selectItemNoModifiers`, ...) are
operators on the list.

Abstractions. Geometry and scrolling are left out. All stages have the same keys, so a page
has one value for each order. A value that is not a number is taken to be unknown, as
`DeviationProvider` does. Pages that have left the project count for the mean; in the margins
stage they do until it is next selected (`core/filters/page_layout/Filter.cpp:52`). `Saved`
bounds the keys that an opened project has. That a user may refuse to give up a selection
is kept only where it matters
(removal, end of a batch).

## 3. Runs

| Run | Instance | Question |
|---|---|---|
| `thumb_queues` | 3 images, 3 thumbnails, 1 place in memory, 1 failing image, expiry after 1, 2 user actions | do orders, iterator, counters, capacity and wake-ups survive all interleavings? |
| `thumb_rewrite` | 2 images (one shown twice, as by two halves of a spread), whole interface, 1 worker, 2 versions, unwritable thumbnail | are iterators valid, handlers kept, and memory stale only through the accepted race? |
| `thumb_live` | 3 images, fair | is every request answered, every thumbnail painted, and does the destructor return? |
| `thumb_resize_evicts` | size change, 1 place | *violated*: eviction of an item that is not LOADED |
| `task_queue` | 4 pages, 4 tasks, symmetry | taken first; no orphaned task; selection follows the batch and ends at its last page; life cycle |
| `batch` | 3 pages, 2 threads, 2 stages, 2 projects, 2 user actions, fair | only current work; shown is selected; batch conserved and ended; awaited page shown; life cycle |
| `page_split` | 2 images, 2 turns, 4 stages, 3 user actions, 1 lingering task, fair | stored layouts consistent; halves possible; panel shows what is stored; no endless retry |
| `page_split_choice` | same | *violated*: a chosen layout type survives a running task |
| `page_layout` | 2 pages (one blank), 2 boxes, 2 margins (the larger one the default), 4 user actions | aggregate exact; thumbnails of an older aggregate redrawn; complete means current |
| `output` | 2 pages, 4 choices, 2 events (user, crash, failed write), 1 task beside a cancelled one | up to date is true; no choice lost; nothing processed twice |
| `output_pixels` | 3 grey levels, all options, 2 edits of zones | layers merge back; despeckling finds its input; editor and generator agree; both paths agree |
| `thumb_list` | 2 images and a third to insert, 2 keys or none, a new project or a processed one, 4 events | selection, leader and current page agree; order right when all was heard; selection kept |

Every property has a mutant: a definition changed the way a bug would change it
(operators commented "mutant of"), under which the run finds the property violated.

### Why the bounds are enough

* One place in memory and three images force an eviction with each load. An expiry
  threshold of 1 makes items expire when two others were
  loaded before them. (The code uses 40 and 5, `core/Utils.cpp`.)
* Three kinds of images are enough for a queue with a head, a middle and an end, which
  is what the iterator and the orders distinguish.
* Two versions of an output file tell old from new.
* Four tasks in a queue suffice for "first not taken", "removed from the middle" and
  "finished out of order" together. The theorems cover all sizes.
* In `batch`, three pages on two threads leave a page queued while both run; two user
  actions are start and interruption. An instance with three pages, two threads, three
  actions and one stage (16.9 million states) was also run without error; it is not kept,
  for its time.
* In `page_split` and `output`, `MaxTasks` 1 lets one cancelled task linger beside the
  current one; the stores are written per page, so two writers show every conflict. Two
  images are needed for what concerns others (the dialog, thumbnails); three actions are
  a choice, a change of it, and a save or a change of stage.
  Two events of `output` are too few for `LoadFiles` to throw (`core/filters/output/OutputImageBuilder.cpp:37`);
  random behaviours with six do it, and the theorems cover it.
* In `page_layout`, two pages suffice for an aggregate that gains and loses its largest
  member; 4 actions include going to the stage before, changing a box, and coming back.
* `output_pixels` is a function of one pixel: black, white and a value between are what
  the code tells apart; two edits draw a zone and delete or overlay it. `Relevant` leaves
  out options that the pixel does not see. The theorems are for all 256 levels, all
  options and any number of edits.
* In `thumb_list`, an image and its two halves have all the configurations of a page. Four
  events are a choice of order, a change of a page, and what the list is told or asked next.
  Two values in a project where all pages have one are enough for a new mean to turn two other
  pages round: with these not counted as `unheard`, TLC finds `SortedUnlessOvertaken` violated.

### Fairness

* Threads run (`WF` of the loader, of a rewriting worker, of a task in the pool and of a
  thread that has finished one; in `PageSplitting` of each task): the operating system
  schedules them.
* The GUI thread returns to its event loop, so posted results and paint events are
  delivered (`WF`).
* After a `bad_alloc`, `OutOfMemoryHandler` makes the main window close the project; a
  cache whose owner is closed is destroyed. This is `SF` of `Shutdown` after `hadOOM`,
  since a worker that is rewriting holds the cache for a while. Without it an item may
  stay IN_PROGRESS forever: that is what the code does, and the project is closed for it.
* No user action, no scroll and no further rewrite is fair. The retry loop of a
  page-split task therefore ends for the reason the code gives, that no conflict is left
  to retry for, and not because someone comes to its help.

`ThumbsSettle` is only checked with room for as many pixmaps as there are loadable
thumbnails on screen: with fewer, thumbnails evict one another and repaint without end.
The program has room for 40.

`CHECK_DEADLOCK FALSE` is set where a behaviour ends by itself, because its user has
no action left within the bound and its tasks are done.

### What the checks found

1. `removeLoadedItemsLocked` (`core/ThumbnailPixmapCache.cpp:784`) leaves the
   end-of-LOADED iterator at `end()` although QUEUED or IN_PROGRESS items remain. The
   next LOADED item goes behind them, the head of the remove queue is then not LOADED,
   and a full cache evicts it: a waiting thumbnail stays empty, and the loader's iterator
   dangles. A debug build fails the assertion at line 745. It takes a change of thumbnail
   quality while thumbnails load, and 40 loaded ones before the next eviction.
   (`thumb_resize_evicts`)
2. `conditionalUpdate` (`core/filters/page_split/Task.cpp:142`) only fails if the type and
   the layout it is given contradict each other, and the task gives both. A layout type
   that the user chose since the task read the record is overwritten in silence, though
   the comment at lines 144-152 says the page would be processed again for it.
   (`page_split_choice`)

Seen while modelling, and not kept as runs:

* `relocate(m_endOfLoadedItems, it)` (`core/ThumbnailPixmapCache.cpp:710`) does nothing if
  `it` is that iterator, as it is for the oldest pending request. Items LOADED later come
  before it, so eviction is out of order, and the marker itself is LOADED.
  `MarkerSeparates` therefore leaves the item at the marker open. All else still holds.
* `loadSaveThumbnail` (line 606) may overwrite a thumbnail written after it had read the
  image; the file stays outdated until the page is processed again. The comment in
  `recreateThumbnail` accepts that race for the pixmap in memory only.
* `switchToNewProject` (`app/MainWindow.cpp:424`) lets go of the cache, whose last owner may
  be a cancelled task: it is destroyed in that worker, contrary to
  `core/ThumbnailPixmapCache.h:49`.
* `cachePixmapLocked` (`core/ThumbnailPixmapCache.cpp:808`) inserts LOADED items without
  counting them. Only `loadNow` leads there and nothing calls it.
* A blank page in mixed mode has a null picture mask, writing which fails
  (`core/filters/output/Task.cpp:395`); its parameters are then never stored, and it is processed
  again each time it is shown. `ProcessedOnce` is about tasks that could write all files.
* "Match size to all pages" (`core/filters/page_layout/OptionsWidget.cpp:367`, the promise
  in `OptionsWidget.ui:748`) leaves out the current page, whose stored alignment stays.
* Default margins given to a page on its first load (`core/filters/page_layout/Filter.cpp:186`)
  may change the aggregate size; nobody is told, so thumbnails show the one of before.
* The iterators of `thumb_rewrite` stay valid under a change of size because its two
  images fit into memory; with a full cache the eviction of finding 1 breaks them.
* `getAggregateHardSizeMM` for a hypothetical size (`core/filters/page_layout/Settings.cpp:616`)
  ignores that size if another page is the largest, so it does not grow while a smaller
  page is dragged beyond it, as `Settings.h:136` says it would. It is right again when
  the drag ends.
* `canUseSourcePreservingOutput` (`core/filters/output/OutputGenerator.cpp:1553`) does not ask whether
  margins or the outside of the page are to be filled, as the form promises
  (`OptionsWidget.ui:230`).
* With the original background kept, its content is released before it is inverted
  (`OutputGenerator.cpp:1463`), and `applyFillZonesToMixedInPlace` (line 750) leaves that layer
  blank without colour segmentation.
* With dewarping and the original background kept, margins are filled with the colour of
  the page after black and white were reserved (`core/filters/output/OutputGenerator.cpp:1929`). On
  a page whose background is pure black they are then black in the layer of the original background,
  where `OutputImageWithOriginalBackgroundMask.cpp:43` takes black for the background mask:
  merged again, the margin is white. `LayersMergeBack` excepts exactly that
  (`MarginTakenForMask`).
* `FILL_BLACK` is ignored when dewarping (`OutputGenerator.cpp:1929`); `DespeckleInput` and
  `PathsAgree` say in their text which differences of the two paths they leave open.
* `ThumbnailSequence::insert` looks for its neighbour as `PageId(image, SINGLE)` only,
  though its comment says any configuration: next to a split image, and for the second
  half of a new image of two pages, nothing is listed until the next reset. It also takes a new
  page to be incomplete although its thumbnail may not be.
* `OrderByCompletenessProvider` answers true for two equal pages, which is no strict
  order: a sort reverses pages alike. `OrderByDeviationProvider` says "Invalid go to the
  back" and puts incomplete pages first.
* `reset(KEEP_SELECTION)` emits the leader of before, so that `SelectedPage` forgets
  which half it had remembered.
  If that page's image has meanwhile left the project, the window is told of a page that
  is no longer there, while the list has another leader: two halves are listed, a task finds
  one page in their image, and `removePagesImpl` (`core/ProjectPages.cpp:463`) then removes the
  image with one of them; the other stays listed and may become the leader. It is the
  history variable `lost` that `SelectionSound` excepts.
* Putting one thumbnail in its place compares it with its neighbours; if two pages have
  changed at once, the list may end up out of order. `SortedUnlessOvertaken` is about the
  rest.
* A page whose angle changes moves the mean that the order by deviation compares all pages
  with, but only its own thumbnail is invalidated (`core/filters/deskew/Task.cpp:286`), by a
  function that "assumes the thumbnail specified by pageId is the only thumbnail at incorrect
  position" (`app/ThumbnailSequence.h:106-107`). With angles 0, 4 and 10 the pages are in the
  order 10, 0, 4; when 10 becomes -10 the deviations are 2, 6 and 8, and 0 still
  stands before 4. The list remains so until it is invalidated as a whole or reset. Content
  selection and margins have the same order. These pages too are `unheard`, so
  `SortedUnlessOvertaken` does not promise their order.
* Every result submits at least one task (`app/MainWindow.cpp:1258`), so that the pool's
  queue may grow up to the length of the batch.

## 4. Proofs

| Theorem | Says | Module |
|---|---|---|
| `TypeCorrect`, `TakenEntriesComeFirst`, `NoTaskIsOrphaned` | type and safety of a queue, of `Spec` | `ProcessingTaskQueueProofs` |
| `BatchSelectionFollows`, `BatchEndsAtLastPage` | the selection during and after a batch, of `BatchSpec` | `ProcessingTaskQueueProofs` |
| `QueueImplementsLifecycle` | a queue implements `TaskLifecycle` | `ProcessingTaskQueueProofs` |
| `AlwaysConsistent`, `OnlyCurrentWorkComesBack`, `ShownPageIsSelected`, `BatchIsConserved` | the main window, its queues and its pool agree | `BatchProcessingProofs` |
| `BatchImplementsLifecycle` | the whole main window implements `TaskLifecycle` | `BatchProcessingProofs` |
| `AlwaysSound`, `AlwaysTyped`, `QueuedAlwaysFirst`, `MarkerAlwaysSeparates`, `CountersAlwaysExact`, `CapacityAlwaysRespected` | what the mutex of the cache protects is consistent | `ThumbnailPixmapCacheProofs` |
| `OnlyLoadedEvicted`, `IteratorsAlwaysValid`, `HandlersAlwaysKept`, `NoWakeUpLost` | eviction, raw iterators, requests and wake-ups of the cache | `ThumbnailPixmapCacheProofs` |
| `StaleOnlyForAWhile` | what is in memory is what a file shows, the accepted races apart | `ThumbnailPixmapCacheProofs` |
| `NoConflictIsStored` | no layout on record contradicts the type asked for | `PageSplittingProofs` |
| `HalvesStaySound` | the halves of an image are always a possible set | `PageSplittingProofs` |
| `ShownStaysStored` | what the page split panel shows is on record, and counted in pages | `PageSplittingProofs` |
| `AlwaysSound`, `AggregateStaysLargest`, `SizesFollowBoxes`, `ThumbnailsShowAggregate` | the margins stage: the aggregate size, sizes and boxes, thumbnails drawn | `PageLayoutProofs` |
| `AlwaysSound`, `UpToDateIsAlwaysTrue`, `ChoicesAlwaysKept` | output files are what stored parameters say, and no choice is undone | `OutputStageProofs` |
| `NothingProcessedTwice` | an action property: an undisturbed task leaves its page up to date | `OutputStageProofs` |
| `PixelsKept`, `LayersAlwaysMergeBack`, `DespeckleInputReconstructed`, `EditorAlwaysShowsPictures`, `PathsAlwaysAgree` | of any pixel: layers merge back, despeckling finds its input, the editor shows what will be a picture, both paths agree | `OutputPixelsProofs` |
| `ListAlwaysWellMade`, `SelectionAlwaysSound` | the two orders, the selection, its leader and its flag agree, and the window shows the leader | `ThumbnailSequenceProofs` |
| `SelectionAlwaysKept` | an action property: another stage or order keeps what is selected | `ThumbnailSequenceProofs` |
| `AlwaysInOrder` | the list is in order when it has heard of all changes | `ThumbnailSequenceProofs` |

They hold for all sets of pages or images, any capacity, number of threads, tasks and
user actions, and whatever is found in images. All are of `Spec`, without fairness (the
two of `BatchSpec` apart). For the cache, `Spec` is the program without a change of the
thumbnail size: with one `OnlyLoadedEvicted` is false, and `IteratorsValid` and
`HandlersKept` with it as soon as the cache is full, which is the first finding above.
`loadNow`, which nothing calls, is not in `Spec` either.

Assumptions on the constants (`PageAssumption`, `TasksAssumption`, `SplitAssumption`,
`BatchAssumption`, `CacheAssumption`, `LayoutAssumption`, `OutputAssumption`, `PixelAssumption`, `SequenceAssumption`). `NoPage`, `NoImage`,
`None` stand for nothing; bounds are natural numbers; 0 is a rotation; a layout is found
for each image and rotation, and one page or two are advised; a project has
pages, each once in the order of pages, and its images have different names, none of them
that of an image yet to be inserted; at least one thread works; a cache has room
for one pixmap at least, and its images are finitely many (its counters count); a content
box fits into its page; the pixels looked at are among `AllPixels`, and their options among
`AllOptions`, and `NoFill` is no colour.

**A queue.** `Inv == TypeOK /\ TakenFirst /\ NoOrphans` is inductive. `TakenFirst` must be in it
because `Take` takes the least entry not taken, and `Finish` of a task must find it.
For batches, `BatchInv` adds what makes the selection right:

* `Bookkeeping`: a queued entry carries the page its task was submitted for, and nothing
  finished is queued any more;
* `WhenDoneIsLast`: the page to select at the end is noted once the last task has
  finished, and is the page of that task;
* `SelectionWhileComplete`: nothing is selected before the first task is taken, and
  something is afterwards, while no entry has been removed;
* `SelectionFollows` itself.

One lemma per operation gives the fields of the resulting queue (`AddFields`,
`TakeFields`, ...), one lemma per action its step, and the theorems combine them.
`FirstIsLeast` shows that `First` is well defined on sets of task numbers.

**The refinement.** A state of the queue maps to the status of each task: done if it was
found when it finished, else abandoned if cancelled or no longer queued, else processing
or waiting. `LifeInv` adds to `Inv` that a finished task is not queued. One lemma per
action shows that it is a step of `TaskLifecycle`. The delicate one is `Finish` of a
task that was removed and whose page has meanwhile been queued again: `Found` looks for
the task and not the page, and `NoOrphans` says that what was cancelled is not queued.

**The main window.** A handler calls others half way, when little of what holds between
handlers does. The proofs therefore speak of values `s` of `app` and `ev` of the posted
events: `Sound(s, ev)` (types, pages, queues, pool, and `NoOrphans`: whatever the pool
may bring back is taken from a queue or cancelled) holds throughout, `Current` (the
interactive queue is for the selected page, stage and project) and `Shown` between
handlers. A lemma for each part of a handler says which of them it keeps and which it
restores. `Evolves(s, r)` says what all parts have in common: a task there was is never
queued again, taken back, or no longer cancelled. It is why a result posted before its
task was cancelled is recognised as late, and what the refinement of `TaskLifecycle`
rests on: a task that is neither held nor applied is abandoned, for good.

**The cache.** Both orders are reasoned about by `Before`, which item comes before
which; lemmas say what `Without`, an insertion and `relocate` do to it. `SoundCache` is
kept by each critical section: `Shaped` (types), `Ordered` (each order has each item
once), `QueuedAhead`, `LoadedAhead` (all before the marker are LOADED, none after it; the
item at the marker may be either, because of the special case of `relocate`) and
`Counted`. `QueuedAhead` is what makes it right that the loader looks at the head only,
and `LoadedAhead` that eviction does: a full cache has a LOADED item, so it has one at the
head. `IteratorsHeld` says who holds an iterator outside of the lock: the loader or a
posted result, each to an item IN_PROGRESS of its own, and every such item is held by one
of them unless memory ran out. With it, no item is removed whose iterator is still about:
eviction takes LOADED items, a rewritten image those LOADED or failed, and the answer to an
expired request the item that it held itself.

`StaleOnlyForAWhile` is shown on top of these: by `AllFresh`, the pixmap of an item and
whatever is on its way to an item IN_PROGRESS, from the loader that saves or in a posted
result, is of a version that the image file or its thumbnail shows now. Images that a
worker rewrites, whose thumbnail cannot be written, or that were rewritten while the
loader was at them are excepted: for these the code makes no such promise.

**Page splitting.** None of the properties is inductive. `Inv` says of

* records: each is a record, without conflict (`RecordsClean`). Every write goes through
  `updatePage()` or `conditionalUpdate()`, whatever values the dialog, the options or a
  task bring along, so none of these values has to be constrained;
* pages: each image has a sound set of halves (`PagesSound`). Number and flags are
  changed by different operations (layout changes, removal, bringing back, reopening),
  each of which relies on the others to have kept the number 1 while a half is away;
* the panel and the tasks: the rotations they carry about are rotations there are, and
  what is selected or listed is an image there is. This is needed because the number of
  pages advised depends on a rotation which a task writes back.

`ShownStaysStored` needs more, `Agreed`: only one task is not cancelled, it is for the
selected image, and the panel waits for it; what this task has read, or will show, is on
record, unless another writer overtook it; and setting the number of pages of an image
twice is setting it once, so that what the panel shows again was counted already.

**Margins.** That a largest page exists is proved by well-founded induction over the
subsets of a finite set (`LargestOfFinite`); from it, the first item of the index is the
largest of those to match, or none is (`AggregateStaysLargest`). `ThumbsShowAggregate`
needs to know that whoever changed the aggregate size still tells of it: `DrawnThumbsShow`
states it with the thumbnails being drawn and the tasks that are yet to tell taken out.
`DefinedIsCurrent` needs `SourcesCurrent`: a task, or a thumbnail between its reading and
its writing back, holds the box of now; `Company` ties that to the history of
pages where a cancelled task may come in between; `Present` says that none
of these writes brings back a page that was removed.

**Output.** `StoredTrue` says of each page that stored parameters describe files that hold
what they say. It is stated of the project and of its saved copy, since a crash exchanges
them, and it survives all changes of files, because it is about what was in them when
they were described: it is `UpToDate` that compares with the files of now. To show it at
`Store`, `Undisturbed` follows a task that has its page to itself: what it has read is
what the settings are (`Reads`), and each file it is to write is written or still to do
(`Progresses`, with `Planned` for the order of operations). This also gives
`ProcessedOnce`. `ChoicesKept` needs `Copied`: a copy of the settings that a task is going
to write back has the choice of now, unless the user chose while it was held.

**Pixels.** What is promised is first shown of an image as it is made (`MadeRight`), by
cases along both paths. Two lemmas carry it. `TwoLayersMerge` and `ThreeLayersMerge`
say when masks can be found again from colours alone: white of the foreground, black and
white of the original background must stand for nothing else. `ReservedTypes`,
`FramedTypes` and `FinishedIs` show that the composition leaves them so: what is neither
text nor margin is turned into 1..254 before, and inversion and margins keep it there.
`SpecklesRestore`, with `TextIsContent`, is the same for despeckling. `PathsAlike`
compares the paths: they differ in what they take for content, but only outside of the text,
where it is not seen. The invariant `PixelInv` adds the state: `Remembered` (the mask
kept for the editor is the one the page gives, and rectangles were looked for once) and
`OnlyRectangles` (found zones are rectangles), so that the zones of the next processing
are those the editor shows, whatever was drawn or deleted since.

**The list of thumbnails.** `SelectionSound` says that loops over the selected items, which
stop at the first that is not selected, see all of them. `WellMade` is what makes it so.
Both orders have the same items, each once (`Shaped`): an order without repetitions is
needed for an item, taken out to be put elsewhere, to be gone. What is selected is in
front (`InFront`): every method that selects, deselects, inserts or removes an item moves
it about to keep that up, and there are lemmas for what each of these moves does, and for
`reset`, which builds both orders one page at a time. The leader alone is flagged (`Led`).
`SelectionInvariant` adds what the list owes to the project. Each image is in the project
once (`ProjectSound`), or the list would be given a page twice. Of an image that has one
page left it lists no other half (`HalvesAgree`): the list may lag behind the project, and
without this a change of stage could bring in a half in place of the selected one, which
`SelectionKept` excludes. The window shows the leader (`LeaderIsShown`), but for the
case that `lost` records (section 3).

That it is in order (`SortedUnlessOvertaken`) has an invariant of its own, `OrderInvariant`: unless
a page was put in its place while others had moved, no pages but the unheard ones
are out of order, and an order by split type lists whole images only. `May(p, q)` says that
nothing puts `q` in front of `p`. That a change of one page leaves the rest in order rests on
`unheard` having those that a new mean moves: of any two others it is shown that they compare
as before (`Unmoved`). `precedes` compares deviations as integers, which they are for any
finite number of images (`PagesFinite`, `TotalNatural`, `DeviationInteger`).
In each of the four orders, of two pages one may stand before the
other, by what `precedes` answers (`MayStand`, for completeness too, though it says yes
to pages that are alike), and it is transitive (`MayFollow`), which for split type holds of
whole images only. So an item between two neighbours that it may stand next
to leaves the order (`InsertInOrder`), and `itemInsertPosition` and the sort find such a place.

TLC checks the property that each theorem states on the instance of its run, and each of
these inductive invariants was model-checked before it was proved.

Every invariant and action property that holds in a run of `Spec` is so proved. Only model-checked are the
behaviours of the cache with a change of size or with `loadNow` (`ResizeSpec`, `ApiSpec`),
and all liveness, which is out of this prover's reach, as is `ENABLED`.

## 5. Not modelled

Listed as `not_modelled` in `PROJECT.json`, with the reason. In short: pixels as far as they
are found by numerical algorithms; dialogs and shell; deskew (its settings are of the
same kind as those modelled, with less interaction); project files as XML; file names and relinking;
the background executor; zones and interaction; containers.

Of modelled components: names and sizes of thumbnail files (and with them the copy of
`m_maxThumbSize` read outside of the lock, `core/ThumbnailPixmapCache.cpp:476`), relinking and multi-page
files in `ProjectPages`, guides, the geometry of everything, the marking of deviant thumbnails
(`isDeviant`, read from `DeviationProvider` without the lock under which tasks change it).
Left aside in particular:

* `startBatchProcessing` with nothing to take (`app/MainWindow.cpp:1166`) would dereference a
  null pointer; the user interface disables it without pages.
* Images of multi-page files are numbered on insertion (`app/MainWindow.cpp:1841`).
* The aggregate size shown while a margin is being dragged (`core/filters/page_layout/Settings.cpp:602`):
  nothing is stored until the drag ends.

## 6. Plan

Done: `TaskQueues`, `ProcessingTaskQueue`, `TaskLifecycle` and their proofs;
`ThumbnailPixmapCache`, `BatchProcessing`, `PageSplitting`, `PageLayout`, `OutputStage`,
`OutputPixels`, `ThumbnailSequence` and their proofs.

Left, in order:

1. `ProjectSaving`: the project file is written in place (`core/ProjectWriter.cpp:105`), and
   `AtomicFileOverwriter` is not used for it; `RelinkingModel`.
2. `ThumbnailFiles`: size and name of thumbnail files.
3. Small ones: `OutOfMemoryHandler`, `BackgroundExecutor`, and as pure algorithms
   `PriorityQueue`, `FileNameDisambiguator`, `SmartFilenameOrdering`.
4. An abstract cache (a partial map with promises to answer) implemented by
   `ThumbnailPixmapCache`.
