------------------------ MODULE ThumbnailPixmapCache ------------------------
(***************************************************************************)
(* The in-memory thumbnail cache: core/ThumbnailPixmapCache.cpp, driven by *)
(* the thumbnails on screen (core/ThumbnailBase.cpp), the worker threads   *)
(* that re-create thumbnails of processed pages, and the main window.      *)
(*                                                                         *)
(* Three kinds of threads share the cache:                                 *)
(*   - the GUI thread paints thumbnails (loadRequest), receives load       *)
(*     results (customEvent) and changes settings;                         *)
(*   - one loader thread, started by the first request, loads images and   *)
(*     posts the results back;                                             *)
(*   - worker threads call recreateThumbnail().                            *)
(* Each critical section of m_mutex is one action.                         *)
(*                                                                         *)
(* Abstractions of data.  A pixmap is the version of the thumbnail file it *)
(* was made from.  m_totalLoadAttempts only matters through its difference *)
(* to an item's precedingLoadAttempts, so an item carries that difference, *)
(* its age, which stops growing one past the expiration threshold.         *)
(***************************************************************************)
EXTENDS Integers, Sequences, FiniteSets, SequencesExt

CONSTANTS
  Images,               \* ImageIds that thumbnails are requested for
  Thumbs,               \* ThumbnailBase objects in the thumbnail list
  ImageOf,              \* Thumbs -> Images; two pages may share an image
  Outputs,              \* the images of these that are output files; the
                        \* others are source images, which never change
  Unproduced,           \* output files that do not exist at first
  Unwritable,           \* images whose thumbnail may fail to be saved
  Workers,              \* worker threads, which process pages
  MaxCachedPixmaps,     \* m_maxCachedPixmaps
  ExpirationThreshold,  \* m_expirationThreshold
  None,                 \* m_removeQueue.end(), or no image at all
  MaxVersion,           \* bound: versions of an image, the first is 1
  MaxUserActions        \* bound: scrolls, resizes, relinkings in a behaviour

ASSUME CacheAssumption ==
  /\ IsFiniteSet(Images)
  /\ ImageOf \in [Thumbs -> Images]
  /\ Outputs \subseteq Images
  /\ Unproduced \subseteq Outputs
  /\ Unwritable \subseteq Images
  /\ MaxCachedPixmaps \in Nat \ {0}
  /\ ExpirationThreshold \in Nat
  /\ MaxVersion \in Nat \ {0}
  /\ MaxUserActions \in Nat
  /\ None \notin Images

VARIABLES
  cache,         \* what m_mutex protects: the items, their two orders,
                 \* the end-of-LOADED iterator and the two counters
  loader,        \* control state of the loader thread
  loading,       \* the item the loader holds an iterator to, or None
  loaded,        \* the version of the image it has read
  wakeUp,        \* an event for m_backgroundLoader is posted
  results,       \* LoadResultEvents posted to the GUI thread, in order
  loadingNow,    \* the image the GUI thread is loading in loadNow(), or None
  handler,       \* thumbs whose m_completionHandler is set
  needsPaint,    \* thumbs that are to receive a paint event
  blank,         \* thumbs drawn as an empty sheet for want of an answer
  imageFile,     \* version of each image file, 0: there is none
  thumbFile,     \* version of the image its thumbnail file shows, 0: none
  rewriting,     \* worker -> the output file it has written and whose
                 \* thumbnail it is re-creating: image, version, step
  shuttingDown,  \* m_shuttingDown
  hadOOM,        \* OutOfMemoryHandler was told of a bad_alloc
  userActions    \* user actions so far (bounded)

vars == <<cache, loader, loading, loaded, wakeUp, results, loadingNow,
          handler, needsPaint, blank, imageFile, thumbFile, rewriting,
          shuttingDown, hadOOM, userActions>>

loaderVars == <<loader, loading, loaded, wakeUp>>
thumbVars  == <<handler, needsPaint, blank>>
fileVars   == <<imageFile, thumbFile, rewriting>>
endVars    == <<shuttingDown, hadOOM, userActions>>
-----------------------------------------------------------------------------
(* Items and their queues.                                                 *)

Statuses == {"QUEUED", "IN_PROGRESS", "LOADED", "LOAD_FAILED"}
Results  == {"LOADED", "LOAD_FAILED", "REQUEST_EXPIRED"}
NoPixmap == -1
Versions == 0..MaxVersion
Pixmaps  == {NoPixmap} \cup Versions

\* raced is a history flag: recreateThumbnail() found this item IN_PROGRESS.
Item == [status   : Statuses,
         age      : 0..(ExpirationThreshold + 1),
         handlers : SUBSET Thumbs,
         pixmap   : Pixmaps,
         raced    : BOOLEAN]

NewItem(status, handlers, pixmap) ==
  [status |-> status, age |-> 0, handlers |-> handlers,
   pixmap |-> pixmap, raced |-> FALSE]

EmptyCache == [items |-> [i \in {} |-> None], loadQueue |-> <<>>,
               removeQueue |-> <<>>, endOfLoadedItems |-> None,
               numQueuedItems |-> 0, numLoadedItems |-> 0]

Known(c)      == DOMAIN c.items
Is(c, i, s)   == i \in Known(c) /\ c.items[i].status = s
InStatus(c, s) == {i \in Known(c) : c.items[i].status = s}

\* A sequence without one of its elements; an element's position.
Position(q, i) == CHOOSE k \in DOMAIN q : q[k] = i
Without(q, i)  == RemoveAt(q, Position(q, i))

\* sequenced_index::relocate(pos, it): moves it in front of pos, and does
\* nothing when the two are the same element.
Relocate(q, pos, i) ==
  IF pos = i THEN q
  ELSE LET rest == Without(q, i)
       IN IF pos = None THEN Append(rest, i)
                        ELSE InsertAt(rest, Position(rest, pos), i)

\* ++it on an iterator of the remove queue.
Successor(q, i) ==
  IF Position(q, i) = Len(q) THEN None ELSE q[Position(q, i) + 1]

ToFront(q, i) == <<i>> \o Without(q, i)
ToBack(q, i)  == Append(Without(q, i), i)

-----------------------------------------------------------------------------
(* The private operations, as functions of the protected state.            *)

StaysInPlace(q, i) == q   \* mutant of BehindQueued
BehindQueued(q, i) == ToBack(q, i)

QueuedToInProgress(c, i) ==
  [c EXCEPT !.items[i].status = "IN_PROGRESS",
            !.numQueuedItems  = @ - 1,
            !.loadQueue       = BehindQueued(@, i)]

\* What the removal of an item does to the counter of a status, and to the
\* end-of-LOADED iterator.
Forgotten(c, i, status) == 0   \* mutant of Uncounted
Uncounted(c, i, status) == IF Is(c, i, status) THEN 1 ELSE 0

DanglingMarker(c, i) == c.endOfLoadedItems   \* mutant of MarkerAfterRemoval
MarkerAfterRemoval(c, i) ==
  IF c.endOfLoadedItems = i THEN Successor(c.removeQueue, i)
  ELSE c.endOfLoadedItems

RemoveItemLocked(c, i) ==
  [items            |-> [j \in Known(c) \ {i} |-> c.items[j]],
   loadQueue        |-> Without(c.loadQueue, i),
   removeQueue      |-> Without(c.removeQueue, i),
   endOfLoadedItems |-> MarkerAfterRemoval(c, i),
   numQueuedItems   |-> c.numQueuedItems - Uncounted(c, i, "QUEUED"),
   numLoadedItems   |-> c.numLoadedItems - Uncounted(c, i, "LOADED")]

OverCapacity(c) == c.numLoadedItems > MaxCachedPixmaps   \* mutant of EvictionIsDue
EvictionIsDue(c) == c.numLoadedItems >= MaxCachedPixmaps
RemoveExcessLocked(c) ==
  IF EvictionIsDue(c) THEN RemoveItemLocked(c, Head(c.removeQueue)) ELSE c

AllItems(c) == Known(c)   \* mutant of Droppable
Droppable(c) == InStatus(c, "LOADED")

RemoveLoadedItemsLocked(c) ==
  LET kept == Known(c) \ Droppable(c)
      Keep(q) == SelectSeq(q, LAMBDA i : i \in kept)
  IN IF c.numLoadedItems = 0 THEN c
     ELSE [items            |-> [i \in kept |-> c.items[i]],
           loadQueue        |-> Keep(c.loadQueue),
           removeQueue      |-> Keep(c.removeQueue),
           numQueuedItems   |-> c.numQueuedItems,
           numLoadedItems   |-> 0,
           endOfLoadedItems |-> None]

\* ++m_totalLoadAttempts seen from the items; setThumbDir() raises it far
\* enough to make every one of them expire.
Older(c) ==
  [c EXCEPT !.items = [i \in Known(c) |->
     [c.items[i] EXCEPT !.age = IF @ > ExpirationThreshold THEN @ ELSE @ + 1]]]
AllExpired(c) ==
  [c EXCEPT !.items = [i \in Known(c) |->
     [c.items[i] EXCEPT !.age = ExpirationThreshold + 1]]]

\* thumbnail.save(), by the loader or an overwriter: it may fail.
SaveThumb(i, version) ==
  \/ thumbFile' = [thumbFile EXCEPT ![i] = version]
  \/ i \in Unwritable /\ UNCHANGED thumbFile

NotRewriting == [image |-> None, version |-> 0, step |-> "idle"]
Rewrites(i)  == \E w \in Workers : rewriting[w].image = i

Event(i, status, pixmap) == [image |-> i, status |-> status, pixmap |-> pixmap]
-----------------------------------------------------------------------------
(* GUI thread: ThumbnailBase::paint() and request().                       *)

GuiIdle == loadingNow = None /\ ~shuttingDown

\* A LOADED item is returned and becomes the last candidate for removal.
TouchLoaded(i) ==
  cache' = [cache EXCEPT
              !.removeQueue = Relocate(@, cache.endOfLoadedItems, i)]

RequestLoaded(i) ==
  /\ Is(cache, i, "LOADED")
  /\ TouchLoaded(i)
  /\ UNCHANGED <<loaderVars, handler>>

RequestFailed(i) ==
  /\ Is(cache, i, "LOAD_FAILED")
  /\ UNCHANGED <<cache, loaderVars, handler>>

RequestPending(t, i) ==
  /\ Is(cache, i, "QUEUED") \/ Is(cache, i, "IN_PROGRESS")
  /\ cache' = [cache EXCEPT
                 !.items[i].handlers = @ \cup {t},
                 !.loadQueue = IF Is(cache, i, "QUEUED") THEN ToFront(@, i)
                                                         ELSE @]
  /\ handler' = handler \cup {t}
  /\ UNCHANGED loaderVars

OnlyItem(c) == Known(c) = {}   \* mutant of FirstQueued
FirstQueued(c) == c.numQueuedItems = 0

\* The first QUEUED item starts the loader thread, or wakes it up.
WakeLoader ==
  \/ /\ loader = "unstarted"
     /\ loader' = "scanning"
     /\ UNCHANGED <<loading, loaded, wakeUp>>
  \/ /\ loader # "unstarted"
     /\ wakeUp' = TRUE
     /\ UNCHANGED <<loader, loading, loaded>>

UnmarkedEnd(i) == cache.endOfLoadedItems   \* mutant of EndWithNewItem
EndWithNewItem(i) ==
  IF cache.endOfLoadedItems = None THEN i ELSE cache.endOfLoadedItems

RequestNew(t, i) ==
  /\ i \notin Known(cache)
  /\ cache' = [items            |-> [j \in Known(cache) \cup {i} |->
                                       IF j = i THEN NewItem("QUEUED", {t}, NoPixmap)
                                       ELSE cache.items[j]],
               loadQueue        |-> <<i>> \o cache.loadQueue,
               removeQueue      |-> Append(cache.removeQueue, i),
               endOfLoadedItems |-> EndWithNewItem(i),
               numQueuedItems   |-> cache.numQueuedItems + 1,
               numLoadedItems   |-> cache.numLoadedItems]
  /\ handler' = handler \cup {t}
  /\ IF FirstQueued(cache) THEN WakeLoader ELSE UNCHANGED loaderVars

\* A paint event.  Nothing is requested while an earlier request is pending.
Paint(t) ==
  LET i == ImageOf[t] IN
  /\ GuiIdle
  /\ t \in needsPaint
  /\ needsPaint' = needsPaint \ {t}
  /\ blank' = IF \E s \in {"LOADED", "LOAD_FAILED"} : Is(cache, i, s) /\ t \notin handler
              THEN blank \ {t} ELSE blank \cup {t}
  /\ \/ t \in handler /\ UNCHANGED <<cache, loaderVars, handler>>
     \/ /\ t \notin handler
        /\ \/ RequestLoaded(i)
           \/ RequestFailed(i)
           \/ RequestPending(t, i)
           \/ RequestNew(t, i)
  /\ UNCHANGED <<results, loadingNow, fileVars, endVars>>
-----------------------------------------------------------------------------
(* GUI thread: customEvent() and processLoadResult().                      *)

\* The item of the event at the head of the queue becomes LOADED.  The
\* event without a pixmap is the one cachePixmapLocked() posts: the pixmap
\* is already in the item.
StoreLoaded(c, e) ==
  LET i == e.image
      d == RemoveExcessLocked(c)
  IN [d EXCEPT !.items[i].status   = "LOADED",
               !.items[i].pixmap   = IF e.pixmap = NoPixmap THEN @ ELSE e.pixmap,
               !.items[i].handlers = {},
               !.numLoadedItems    = @ + 1,
               !.removeQueue       = Relocate(@, d.endOfLoadedItems, i),
               !.loadQueue         = ToBack(@, i)]

StoreFailed(c, e) ==
  [c EXCEPT !.items[e.image].status   = "LOAD_FAILED",
            !.items[e.image].pixmap   = e.pixmap,
            !.items[e.image].handlers = {},
            !.loadQueue               = ToBack(@, e.image)]

OnlyLoaded == {"LOADED"}   \* mutant of RepaintedStatuses
RepaintedStatuses == {"LOADED", "REQUEST_EXPIRED"}

NotifyUnlessFailed(thumbs, status) ==   \* mutant of Notify
  /\ handler' = IF status = "LOAD_FAILED" THEN handler ELSE handler \ thumbs
  /\ needsPaint' = IF status \in RepaintedStatuses
                   THEN needsPaint \cup (thumbs \cap handler) ELSE needsPaint
  /\ UNCHANGED blank

\* ThumbnailBase::handleLoadResult() of every handler still alive.
Notify(thumbs, status) ==
  /\ handler' = handler \ thumbs
  /\ blank' = IF status = "LOAD_FAILED" THEN blank \ thumbs ELSE blank
  /\ needsPaint' = IF status \in RepaintedStatuses
                   THEN needsPaint \cup (thumbs \cap handler) ELSE needsPaint

ProcessLoadResult ==
  /\ GuiIdle
  /\ results # <<>>
  /\ LET e == Head(results) IN
       /\ cache' = CASE e.status = "LOADED"      -> StoreLoaded(cache, e)
                     [] e.status = "LOAD_FAILED" -> StoreFailed(cache, e)
                     [] OTHER                    -> RemoveItemLocked(cache, e.image)
       /\ Notify(cache.items[e.image].handlers, e.status)
  /\ results' = Tail(results)
  /\ UNCHANGED <<loaderVars, loadingNow, fileVars, endVars>>
-----------------------------------------------------------------------------
(* The loader thread: run() and backgroundProcessing().                    *)

\* Nothing QUEUED at the front, or shutdown: back to the event loop.
LoaderRests ==
  /\ loader = "scanning"
  /\ \/ shuttingDown
     \/ cache.loadQueue # <<>> => ~Is(cache, Head(cache.loadQueue), "QUEUED")
  /\ loader' = "resting"
  /\ UNCHANGED <<cache, loading, loaded, wakeUp, results, loadingNow, thumbVars,
                 fileVars, endVars>>

LoaderTakes(i) ==
  /\ loader = "scanning"
  /\ ~shuttingDown
  /\ cache.loadQueue # <<>>
  /\ i = Head(cache.loadQueue)
  /\ Is(cache, i, "QUEUED")

Expired(i) == cache.items[i].age > ExpirationThreshold

LoaderExpires ==
  \E i \in Known(cache) :
    /\ LoaderTakes(i)
    /\ Expired(i)
    /\ cache' = QueuedToInProgress(cache, i)
    /\ results' = Append(results, Event(i, "REQUEST_EXPIRED", NoPixmap))
    /\ UNCHANGED <<loaderVars, loadingNow, thumbVars, fileVars, endVars>>

LoaderBegins ==
  \E i \in Known(cache) :
    /\ LoaderTakes(i)
    /\ ~Expired(i)
    /\ cache' = Older(QueuedToInProgress(cache, i))
    /\ loader' = "loading"
    /\ loading' = i
    /\ UNCHANGED <<loaded, wakeUp, results, loadingNow, thumbVars, fileVars,
                   endVars>>

LoaderPosts(status, version) ==
  /\ results' = Append(results, Event(loading, status, version))
  /\ loader' = "scanning"
  /\ loading' = None
  /\ loaded' = 0

\* loadSaveThumbnail(), outside of the lock: the thumbnail file if there is
\* one, else the image, whose thumbnail is yet to be saved.
LoaderReads ==
  /\ loader = "loading"
  /\ \/ /\ thumbFile[loading] > 0
        /\ LoaderPosts("LOADED", thumbFile[loading])
     \/ /\ thumbFile[loading] = 0
        /\ imageFile[loading] = 0
        /\ LoaderPosts("LOAD_FAILED", 0)
     \/ /\ thumbFile[loading] = 0
        /\ imageFile[loading] > 0
        /\ loader' = "saving"
        /\ loaded' = imageFile[loading]
        /\ UNCHANGED <<loading, results>>
  /\ UNCHANGED <<cache, wakeUp, loadingNow, thumbVars, fileVars, endVars>>

LoaderSaves ==
  /\ loader = "saving"
  /\ SaveThumb(loading, loaded)
  /\ LoaderPosts("LOADED", loaded)
  /\ UNCHANGED <<cache, wakeUp, loadingNow, thumbVars, imageFile, rewriting,
                 endVars>>

\* bad_alloc while loading: nothing is posted and the loop goes on.
LoaderRunsOutOfMemory ==
  /\ loader \in {"loading", "saving"}
  /\ loader' = "scanning"
  /\ loading' = None
  /\ loaded' = 0
  /\ hadOOM' = TRUE
  /\ UNCHANGED <<cache, wakeUp, results, loadingNow, thumbVars, fileVars,
                 shuttingDown, userActions>>

\* BackgroundLoader::customEvent().  Several wake-ups may be posted at once;
\* those after the first scan a queue without QUEUED items.
LoaderWakes ==
  /\ loader = "resting"
  /\ wakeUp
  /\ ~shuttingDown
  /\ wakeUp' = FALSE
  /\ loader' = "scanning"
  /\ UNCHANGED <<cache, loading, loaded, results, loadingNow, thumbVars, fileVars,
                 endVars>>
-----------------------------------------------------------------------------
(* Worker threads: ensureThumbnailExists() of a source image, and what the *)
(* output task does with an output file: write it, then recreateThumbnail(). *)
(* A worker inside keeps the cache alive.                                  *)

EnsureThumbnailExists(i) ==
  /\ ~shuttingDown
  /\ i \notin Outputs
  /\ thumbFile[i] = 0
  /\ SaveThumb(i, imageFile[i])
  /\ UNCHANGED <<cache, loaderVars, results, loadingNow, thumbVars, imageFile,
                 rewriting, endVars>>

WriteOutput(w, i) ==
  /\ ~shuttingDown
  /\ rewriting[w] = NotRewriting
  /\ imageFile[i] < MaxVersion
  /\ imageFile' = [imageFile EXCEPT ![i] = @ + 1]
  /\ rewriting' = [rewriting EXCEPT ![w] =
                     [image |-> i, version |-> imageFile[i] + 1, step |-> "write"]]
  /\ UNCHANGED <<cache, loaderVars, results, loadingNow, thumbVars, thumbFile,
                 endVars>>

\* The second half is skipped if the thumbnail could not be written.
RewriteThumb(w) ==
  LET r == rewriting[w] IN
  /\ r.step = "write"
  /\ \/ /\ thumbFile' = [thumbFile EXCEPT ![r.image] = r.version]
        /\ rewriting' = [rewriting EXCEPT ![w].step = "drop"]
     \/ /\ r.image \in Unwritable
        /\ rewriting' = [rewriting EXCEPT ![w] = NotRewriting]
        /\ UNCHANGED thumbFile
  /\ UNCHANGED <<cache, loaderVars, results, loadingNow, thumbVars, imageFile,
                 endVars>>

OnlyLoadedDropped == {"LOADED"}                               \* mutant

\* The statuses in which a rewritten image's item is dropped.
DroppedStatuses    == {"LOADED", "LOAD_FAILED"}

DropRewritten(w) ==
  LET i == rewriting[w].image IN
  /\ rewriting[w].step = "drop"
  /\ cache' = IF \E s \in DroppedStatuses : Is(cache, i, s)
              THEN RemoveItemLocked(cache, i)
              ELSE IF Is(cache, i, "IN_PROGRESS")
              THEN [cache EXCEPT !.items[i].raced = TRUE]
              ELSE cache
  /\ rewriting' = [rewriting EXCEPT ![w] = NotRewriting]
  /\ UNCHANGED <<loaderVars, results, loadingNow, thumbVars, imageFile,
                 thumbFile, endVars>>
-----------------------------------------------------------------------------
(* The user and the main window.                                           *)

UserActs ==
  /\ GuiIdle
  /\ userActions < MaxUserActions
  /\ userActions' = userActions + 1
  /\ UNCHANGED <<shuttingDown, hadOOM>>

\* Scrolled into view or invalidated: update() schedules a paint event.
Expose(t) ==
  /\ UserActs
  /\ needsPaint' = needsPaint \cup {t}
  /\ UNCHANGED <<cache, loaderVars, results, loadingNow, handler, blank, fileVars>>

\* The thumbnail list is rebuilt: the old object takes its handler along
\* (the cache only holds weak pointers), the new one is to be painted.
ReplaceThumb(t) ==
  /\ UserActs
  /\ handler' = handler \ {t}
  /\ needsPaint' = needsPaint \cup {t}
  /\ blank' = blank \cup {t}
  /\ cache' = [cache EXCEPT !.items = [i \in Known(cache) |->
                 [cache.items[i] EXCEPT !.handlers = @ \ {t}]]]
  /\ UNCHANGED <<loaderVars, results, loadingNow, fileVars>>

SetThumbDir ==
  /\ UserActs
  /\ cache' = AllExpired(cache)
  /\ UNCHANGED <<loaderVars, results, loadingNow, thumbVars, fileVars>>

SetMaxThumbSize ==
  /\ UserActs
  /\ cache' = RemoveLoadedItemsLocked(cache)
  /\ UNCHANGED <<loaderVars, results, loadingNow, thumbVars, fileVars>>

\* The destructor: the last reference is gone, so no worker is inside.
Shutdown ==
  /\ GuiIdle
  /\ \A w \in Workers : rewriting[w] = NotRewriting
  /\ shuttingDown' = TRUE
  /\ UNCHANGED <<cache, loaderVars, results, loadingNow, thumbVars, fileVars,
                 hadOOM, userActions>>

WokenWhileQuitting == shuttingDown /\ wakeUp   \* mutant of QuitReceived
QuitReceived == shuttingDown

\* quit() makes the event loop, or the one about to be entered, return.
LoaderFinishes ==
  /\ QuitReceived
  /\ loader = "resting"
  /\ loader' = "finished"
  /\ UNCHANGED <<cache, loading, loaded, wakeUp, results, loadingNow, thumbVars,
                 fileVars, endVars>>

\* The destructor waits for the loader; then the cache is gone.
Destroyed ==
  /\ shuttingDown
  /\ UNCHANGED vars
-----------------------------------------------------------------------------
(* loadNow(): part of the interface, used by no caller in the program.     *)

LoadNow(i) ==
  /\ GuiIdle
  /\ \/ /\ RequestLoaded(i)
        /\ UNCHANGED loadingNow
     \/ /\ ~Is(cache, i, "LOADED") /\ ~Is(cache, i, "LOAD_FAILED")
        /\ loadingNow' = i
        /\ UNCHANGED <<cache, loaderVars, handler>>
  /\ userActions < MaxUserActions
  /\ userActions' = userActions + 1
  /\ UNCHANGED <<results, needsPaint, blank, fileVars, shuttingDown, hadOOM>>

AfterLoaded(d, i) == Relocate(Append(d.removeQueue, i), d.endOfLoadedItems, i)

ExceptLoaded == {"LOADED"}   \* mutant of KeptByCachePixmap
KeptByCachePixmap == {"LOADED", "IN_PROGRESS"}

\* cachePixmapLocked() of a pixmap that is not null.
InsertLoaded(c, i, pixmap) ==
  LET d == RemoveExcessLocked(c)
  IN [d EXCEPT !.items = [j \in Known(d) \cup {i} |->
                            IF j = i THEN NewItem("LOADED", {}, pixmap)
                            ELSE d.items[j]],
               !.loadQueue   = Append(@, i),
               !.removeQueue = AfterLoaded(d, i)]

CachePixmap(i, pixmap) ==
  \/ /\ i \notin Known(cache)
     /\ cache' = InsertLoaded(cache, i, pixmap)
     /\ UNCHANGED results
  \/ /\ \E s \in KeptByCachePixmap : Is(cache, i, s)
     /\ UNCHANGED <<cache, results>>
  \/ /\ \E s \in {"QUEUED", "IN_PROGRESS"} \ KeptByCachePixmap : Is(cache, i, s)
     /\ cache' = [QueuedToInProgress(cache, i) EXCEPT !.items[i].pixmap = pixmap]
     /\ results' = Append(results, Event(i, "LOADED", NoPixmap))
  \/ /\ Is(cache, i, "LOAD_FAILED")
     /\ cache' = [cache EXCEPT
                    !.items[i].status = "LOADED",
                    !.items[i].pixmap = pixmap,
                    !.removeQueue     = Relocate(@, cache.endOfLoadedItems, i),
                    !.numLoadedItems  = @ + 1]
     /\ UNCHANGED results

\* loadSaveThumbnail() in the GUI thread, then cachePixmapUnlocked().
LoadedNow ==
  LET i == loadingNow
  IN /\ i # None
     /\ loadingNow' = None
     /\ \/ /\ thumbFile[i] > 0
           /\ CachePixmap(i, thumbFile[i])
           /\ UNCHANGED thumbFile
        \/ /\ thumbFile[i] = 0
           /\ imageFile[i] > 0
           /\ SaveThumb(i, imageFile[i])
           /\ CachePixmap(i, imageFile[i])
        \/ /\ thumbFile[i] = 0
           /\ imageFile[i] = 0
           /\ UNCHANGED <<cache, results, thumbFile>>
  /\ UNCHANGED <<loaderVars, thumbVars, imageFile, rewriting, endVars>>
-----------------------------------------------------------------------------
Init ==
  /\ cache = EmptyCache
  /\ loader = "unstarted"
  /\ loading = None
  /\ loaded = 0
  /\ wakeUp = FALSE
  /\ results = <<>>
  /\ loadingNow = None
  /\ handler = {}
  /\ needsPaint = Thumbs
  /\ blank = Thumbs
  /\ imageFile = [i \in Images |-> IF i \in Unproduced THEN 0 ELSE 1]
  /\ thumbFile = [i \in Images |-> 0]
  /\ rewriting = [w \in Workers |-> NotRewriting]
  /\ shuttingDown = FALSE
  /\ hadOOM = FALSE
  /\ userActions = 0

Loader == LoaderRests \/ LoaderExpires \/ LoaderBegins \/ LoaderReads
            \/ LoaderSaves \/ LoaderWakes \/ LoaderFinishes

Worker(w) == \/ \E i \in Outputs : WriteOutput(w, i)
             \/ RewriteThumb(w)
             \/ DropRewritten(w)

\* Everything the program does with the cache but changing the size.
Next ==
  \/ \E t \in Thumbs : Paint(t) \/ Expose(t) \/ ReplaceThumb(t)
  \/ ProcessLoadResult
  \/ Loader
  \/ LoaderRunsOutOfMemory
  \/ \E w \in Workers : Worker(w)
  \/ \E i \in Images : EnsureThumbnailExists(i)
  \/ SetThumbDir
  \/ Shutdown
  \/ Destroyed

Spec == Init /\ [][Next]_vars

\* Threads run, the GUI thread returns to its event loop, and running out of
\* memory makes the main window close the project.
Fairness ==
  /\ WF_vars(Loader)
  /\ WF_vars(ProcessLoadResult)
  /\ \A t \in Thumbs : WF_vars(Paint(t))
  /\ \A w \in Workers : WF_vars(RewriteThumb(w) \/ DropRewritten(w))
  /\ SF_vars(hadOOM /\ Shutdown)

FairSpec == Spec /\ Fairness

\* ... with a changed thumbnail size, and with loadNow() as well.
ResizeSpec == Init /\ [][Next \/ SetMaxThumbSize]_vars
ApiSpec == Init /\ [][Next \/ SetMaxThumbSize \/ (\E i \in Images : LoadNow(i))
                            \/ LoadedNow]_vars
-----------------------------------------------------------------------------
(* Properties.                                                             *)

Permutation(q, S) ==
  /\ q \in Seq(S)
  /\ Len(q) = Cardinality(S)
  /\ \A i \in S : \E k \in DOMAIN q : q[k] = i

\* Types: both orders of the container hold every item exactly once.
TypeOK ==
  /\ Known(cache) \subseteq Images
  /\ cache.items \in [Known(cache) -> Item]
  /\ Permutation(cache.loadQueue, Known(cache))
  /\ Permutation(cache.removeQueue, Known(cache))
  /\ cache.endOfLoadedItems \in Known(cache) \cup {None}
  /\ cache.numQueuedItems \in Int
  /\ cache.numLoadedItems \in Int
  /\ loader \in {"unstarted", "scanning", "loading", "saving", "resting",
                 "finished"}
  /\ loading \in Images \cup {None}
  /\ loaded \in Versions
  /\ wakeUp \in BOOLEAN
  /\ results \in Seq([image : Images, status : Results, pixmap : Pixmaps])
  /\ loadingNow \in Images \cup {None}
  /\ handler \subseteq Thumbs
  /\ needsPaint \subseteq Thumbs
  /\ blank \subseteq Thumbs
  /\ imageFile \in [Images -> Versions]
  /\ thumbFile \in [Images -> Versions]
  /\ rewriting \in [Workers -> [image : Images \cup {None}, version : Versions,
                               step : {"idle", "write", "drop"}]]
  /\ shuttingDown \in BOOLEAN
  /\ hadOOM \in BOOLEAN
  /\ userActions \in 0..MaxUserActions

\* "All QUEUED ones precede any others" (m_loadQueue), which is why the
\* loader may stop at the first item that is not QUEUED.
QueuedFirst ==
  \A k \in DOMAIN cache.loadQueue :
    Is(cache, cache.loadQueue[k], "QUEUED") =>
      \A j \in 1..k : Is(cache, cache.loadQueue[j], "QUEUED")

\* "All LOADED ones precede any others" (m_removeQueue), and the marker
\* separates them: what is before it is LOADED, what is after it is not.  The
\* item at the marker itself may be either.
MarkerSeparates ==
  LET q   == cache.removeQueue
      eol == IF cache.endOfLoadedItems = None THEN Len(q) + 1
             ELSE Position(q, cache.endOfLoadedItems)
  IN \A k \in DOMAIN q :
       /\ k < eol => Is(cache, q[k], "LOADED")
       /\ k > eol => ~Is(cache, q[k], "LOADED")

\* The two counters agree with the items, across every path by which an item
\* changes its status or leaves the container.
CountersExact ==
  /\ cache.numQueuedItems = Cardinality(InStatus(cache, "QUEUED"))
  /\ cache.numLoadedItems = Cardinality(InStatus(cache, "LOADED"))

\* "The maximum number of pixmaps to store in memory" is never exceeded.
CapacityRespected == Cardinality(InStatus(cache, "LOADED")) <= MaxCachedPixmaps

\* A LoadResultEvent and the loader keep raw iterators to items outside of
\* the lock.  Nobody may erase such an item, or give it to a second owner:
\* every iterator points to an IN_PROGRESS item and no two are to the same;
\* and an IN_PROGRESS item has an owner, unless memory ran out.
ResultsFor(i) == {k \in DOMAIN results : results[k].image = i}
Owners(i) == Cardinality(ResultsFor(i)) + IF loading = i THEN 1 ELSE 0
IteratorsValid ==
  \A i \in Images :
    /\ Owners(i) <= 1
    /\ Owners(i) = 1 => Is(cache, i, "IN_PROGRESS")
    /\ Is(cache, i, "IN_PROGRESS") => Owners(i) = 1 \/ hadOOM

\* A thumbnail that waits for a result never asks again, so its handler must
\* be registered with an item that will still produce one.
HandlersKept ==
  \A t \in handler :
    \E s \in {"QUEUED", "IN_PROGRESS"} :
      /\ Is(cache, ImageOf[t], s)
      /\ t \in cache.items[ImageOf[t]].handlers

\* Requests post a wake-up only when the first item gets QUEUED; still, no
\* QUEUED item is ever left with a loader that sleeps and will not be woken.
NoLostWakeUp ==
  InStatus(cache, "QUEUED") # {} =>
    loader \in {"scanning", "loading", "saving"} \/ wakeUp \/ shuttingDown

\* An item shows something older than the files on disk, or a failure from
\* before there were any, only while the worker that replaced the image is
\* about to drop it, because its new thumbnail could not be written, or
\* because of the "small race condition" recreateThumbnail() accepts for
\* items IN_PROGRESS.
StaleOnlyByAcceptedRace ==
  \A i \in InStatus(cache, "LOADED") \cup InStatus(cache, "LOAD_FAILED") :
    cache.items[i].pixmap \notin {thumbFile[i], imageFile[i]} =>
      Rewrites(i) \/ i \in Unwritable \/ cache.items[i].raced

\* The assertion of removeExcessLocked(): what it evicts is a LOADED item.
EvictsLoaded ==
  results # <<>> /\ Head(results).status = "LOADED" /\ EvictionIsDue(cache) =>
    Is(cache, Head(cache.removeQueue), "LOADED")

\* Every accepted request is answered: by a result, by an expiration, by the
\* death of the thumbnail, or else the whole cache is going away.
RequestsAnswered ==
  \A t \in Thumbs : t \in handler ~> t \notin handler \/ shuttingDown

\* Once the user leaves it alone, every thumbnail ends up painted with a
\* pixmap or with the placeholder of an image that cannot be loaded, however
\* many of its requests expired on the way.
ThumbsSettle ==
  <>[](shuttingDown \/ (handler = {} /\ needsPaint = {} /\ blank = {}))

\* The destructor does not hang in wait().
ShutdownCompletes == shuttingDown ~> loader \in {"unstarted", "finished"}
=============================================================================
