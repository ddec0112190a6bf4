----------------------------- MODULE OutputStage -----------------------------
(***************************************************************************)
(* Making the output files of pages.  A task (filters/output/Task.cpp)     *)
(* compares what the settings of its page ask for (output/Settings.cpp)    *)
(* with the OutputParams stored when the files were last written, and with *)
(* the sizes of the files; when all agrees it loads the files, otherwise   *)
(* it generates the image, reading the settings a second time and writing  *)
(* what it finds out back to them (OutputGenerator.cpp), writes the files  *)
(* one after the other and stores new OutputParams.                        *)
(*                                                                         *)
(* The user goes on changing settings meanwhile (output/OptionsWidget.cpp),*)
(* and a task that was cancelled goes on until it looks at the flag, which *)
(* it no longer does once the image is generated.  The project is saved    *)
(* now and then; a crash leaves the files as they are.                     *)
(***************************************************************************)
EXTENDS Integers, FiniteSets, Sequences

CONSTANTS
  Whole, Half,      \* the pages of an image before and after it is split
  NoPage,
  Choices,          \* what the user may ask for
  Inverted,         \* pages found to be white on black
  Blank,            \* pages without content, whose margins are filled
  MaxEvents,        \* bound: user actions, restarts and failures to write a file
  MaxTasks          \* bound: tasks there are before a user action

Pages == {Whole, Half}
Kinds == {"out", "fore", "back", "orig", "mask", "speckles"}

\* RenderParams (of a colour mode with its splitting and despeckling options),
\* the shape of pictures and the dewarping mode.
AllChoices == [colour : {"bw", "mixed", "split", "layers"}, shape : {"free", "rect"},
               dewarp : {"off", "auto"}]

ASSUME OutputAssumption ==
  /\ Whole # Half /\ NoPage \notin Pages
  /\ Choices \subseteq AllChoices
  /\ Inverted \subseteq Pages /\ Blank \subseteq Pages
  /\ MaxEvents \in Nat /\ MaxTasks \in Nat

VARIABLES
  project,      \* output::Settings and the split of the image: what is saved
  saved,        \* the project file, with the raced pages of then
  files,        \* output files of each page and kind
  current,      \* the page being edited; NoPage when none is, or in a batch
  pending,      \* a reload is due (m_delayedReloadRequest)
  tasks,        \* by number; those replaced by later ones are cancelled
  raced,        \* history: pages whose OutputParams were stored by a task that
                \* did not have the page and its settings to itself
  chosen,       \* history: what the user chose last for each page
  meddled,      \* history: pages changed by the user between a task's reading
                \* of what was changed and its writing it back
  loads,        \* tasks so far
  events

vars == <<project, saved, files, current, pending, tasks, raced, chosen, meddled,
          loads, events>>
-----------------------------------------------------------------------------
(* Settings, stored OutputParams and files.                                *)

Mixed(c)    == c.colour # "bw"
Layered(c)  == c.colour \in {"split", "layers"}
Original(c) == c.colour = "layers"
Speckled(c) == c.colour = "mixed"

Default   == [choice |-> [colour |-> "mixed", shape |-> "free", dewarp |-> "off"],
              inverted |-> FALSE, model |-> FALSE]
NotFound  == [autoZones |-> FALSE, setByHand |-> FALSE]
NoOutput  == [none |-> TRUE]
Absent    == [is |-> "absent"]
Torn      == [is |-> "torn"]
Opened(t) == [by |-> t]

\* What a file of each kind holds, by what it was made of.  Files are compared
\* by size, and those of different images are taken to differ in size.
Image(params) == [choice |-> params.choice, inverted |-> params.inverted]

\* What the files of a page are to be like, OutputImageParams and zones.
Wanted(params, found, zones) ==
  [choice |-> params.choice, inverted |-> params.inverted, found |-> found,
   model |-> params.model, zones |-> zones]
Matches(stored, wanted) ==
  /\ stored.choice = wanted.choice
  /\ stored.choice.dewarp # "off" => stored.model = wanted.model
  /\ stored.found = wanted.found
  /\ stored.inverted = wanted.inverted
  /\ stored.zones = wanted.zones

\* The files looked at: the merged one only of a page that is not split.
Compared(c, editor) ==
  (IF Layered(c) THEN {"fore", "back"} \cup {k \in {"orig"} : Original(c)} ELSE {"out"})
    \cup {k \in {"mask"} : editor /\ Mixed(c)}
    \cup {k \in {"speckles"} : editor /\ Speckled(c)}
Written(c) ==
  {"out"} \cup {k \in {"fore", "back"} : Layered(c)} \cup {k \in {"orig"} : Original(c)}
    \cup {k \in {"mask"} : Mixed(c)} \cup {k \in {"speckles"} : Speckled(c)}
FilesExist(stored, there, c, editor) ==   \* mutant of FilesMatch
  \A k \in Compared(c, editor) : there[k] # Absent
FilesMatch(stored, there, c, editor) ==
  \A k \in Compared(c, editor) : there[k] # Absent /\ there[k] = stored.files[k]

\* CacheDrivenTask: the thumbnail of the page is not marked as incomplete.
UpToDate(p, editor) ==
  LET stored == project.stored[p]
      wanted == Wanted(project.params[p], project.found[p], project.zones[p])
  IN /\ stored # NoOutput
     /\ Matches(stored, wanted)
     /\ FilesMatch(stored, files[p], wanted.choice, editor)
-----------------------------------------------------------------------------
(* The user.                                                               *)

FewTasks == Cardinality(DOMAIN tasks) <= MaxTasks
Occurs   == events < MaxEvents /\ events' = events + 1
UserActs == FewTasks /\ Occurs

NewTask(p, batch, alone) ==
  [page |-> p, batch |-> batch, pc |-> "start", cancelled |-> FALSE, alone |-> alone,
   first |-> Default, copy |-> Default, found |-> NotFound, zones |-> FALSE,
   model |-> FALSE, image |-> Image(Default), wanted |-> Wanted(Default, NotFound, FALSE),
   todo |-> <<>>, valid |-> TRUE]

PageOf(t)    == tasks[t].page
TasksOf(p)   == {t \in DOMAIN tasks : PageOf(t) = p}
Exists(p)    == p = IF project.halves THEN Half ELSE Whole

\* A task of the page replaces those there are, loadPageInteractive(), or is the
\* only one of a batch.
Load(p, batch) ==
  LET old == [t \in DOMAIN tasks |-> [tasks[t] EXCEPT !.cancelled = TRUE, !.alone = FALSE]]
      n   == loads + 1
  IN /\ loads' = n
     /\ tasks' = [t \in DOMAIN tasks \cup {n} |->
                    IF t = n THEN NewTask(p, batch, DOMAIN tasks = {}) ELSE old[t]]
     /\ current' = IF batch THEN NoPage ELSE p

SelectPage(p) ==
  /\ UserActs
  /\ Exists(p)
  /\ \E batch \in BOOLEAN : Load(p, batch)
  /\ UNCHANGED <<project, saved, files, pending, raced, chosen, meddled>>

\* The timer of a delayed reload has run out.
Reload ==
  /\ pending /\ pending' = FALSE
  /\ FewTasks
  /\ IF current # NoPage THEN Load(current, FALSE)
     ELSE UNCHANGED <<current, tasks, loads>>
  /\ UNCHANGED <<project, saved, files, raced, chosen, meddled, events>>

ChoiceOf(params, found) ==
  [choice |-> params.choice, inverted |-> IF found.setByHand THEN params.inverted ELSE FALSE,
   byHand |-> found.setByHand]

\* A task that has read settings it is going to write back.
Overwrites(t, what) ==
  \/ tasks[t].pc \in {"detect", "save"}
  \/ tasks[t].pc = "zones" /\ what = "inverted"
  \/ tasks[t].pc \in {"zones", "dewarp"} /\ what = "dewarp" /\ tasks[t].copy.choice.dewarp # "off"

\* Most changes are followed by a reload at once, those of sliders by one that is
\* delayed.
Disturbed(p) == [t \in DOMAIN tasks |-> [tasks[t] EXCEPT !.alone = @ /\ PageOf(t) # p]]
Change(p, what, params, found) ==
  /\ UserActs
  /\ project' = [project EXCEPT !.params[p] = params, !.found[p] = found]
  /\ chosen' = [chosen EXCEPT ![p] = ChoiceOf(params, found)]
  /\ meddled' = IF \E t \in TasksOf(p) : Overwrites(t, what) THEN meddled \cup {p}
                ELSE meddled
  /\ UNCHANGED <<saved, files, raced>>

ReloadSoon(p) ==
  /\ pending' = TRUE
  /\ tasks' = Disturbed(p)
  /\ UNCHANGED <<current, loads>>

Choose(c) ==
  LET now == project.params[current].choice IN
  /\ current # NoPage
  /\ \E what \in DOMAIN c :
       /\ {f \in DOMAIN c : c[f] # now[f]} = {what}
       /\ Change(current, what, [project.params[current] EXCEPT !.choice = c],
                 project.found[current])
  /\ \/ c.dewarp = now.dewarp /\ ReloadSoon(current)
     \/ Load(current, FALSE) /\ UNCHANGED pending

ToggleBlackOnWhite ==
  /\ current # NoPage
  /\ Change(current, "inverted", [project.params[current] EXCEPT !.inverted = ~@],
            [project.found[current] EXCEPT !.setByHand = TRUE])
  /\ Load(current, FALSE)
  /\ UNCHANGED pending

\* The image is split, or joined again, in an earlier stage.
PageInstead == IF project.halves THEN Whole ELSE Half
ChangeSplit ==
  /\ UserActs
  /\ project' = [project EXCEPT !.halves = ~@]
  /\ Load(PageInstead, FALSE)
  /\ UNCHANGED <<saved, files, pending, raced, chosen, meddled>>

SaveProject ==
  /\ UserActs
  /\ saved' = [project |-> project, raced |-> raced]
  /\ UNCHANGED <<project, files, current, pending, tasks, loads, raced, chosen, meddled>>

\* The program ends without notice and the project is opened again.
Restarted ==
  /\ project' = saved.project
  /\ raced' = saved.raced
  /\ files' = [p \in Pages |-> [k \in Kinds |->
                 IF \E t \in DOMAIN tasks : files[p][k] = Opened(t) THEN Torn ELSE files[p][k]]]
  /\ tasks' = [t \in {} |-> tasks[t]]
  /\ current' = NoPage /\ pending' = FALSE
  /\ chosen' = [p \in Pages |-> ChoiceOf(saved.project.params[p], saved.project.found[p])]
  /\ meddled' = {}
Crash ==
  /\ UserActs
  /\ Restarted
  /\ UNCHANGED <<saved, loads>>
-----------------------------------------------------------------------------
(* A task.                                                                 *)

Moved(t, change) == tasks' = [tasks EXCEPT ![t] = change]
Ended(t)         == tasks' = [u \in DOMAIN tasks \ {t} |-> tasks[u]]
Others           == <<saved, current, pending, loads, chosen, meddled, events>>

Start(t) ==
  /\ tasks[t].pc = "start" /\ ~tasks[t].cancelled
  /\ Moved(t, [tasks[t] EXCEPT !.first = project.params[PageOf(t)], !.pc = "decide"])
  /\ UNCHANGED <<project, files, raced, Others>>

\* Zones found for another shape are no longer wanted; are the files as the
\* settings want them?
Decide(t) ==
  LET task   == tasks[t]
      p      == task.page
      stored == project.stored[p]
      found  == IF stored # NoOutput /\ stored.choice.shape # task.first.choice.shape
                THEN [project.found[p] EXCEPT !.autoZones = FALSE] ELSE project.found[p]
      wanted == Wanted(task.first, found, project.zones[p])
  IN /\ task.pc = "decide"
     /\ project' = [project EXCEPT !.found[p] = found]
     /\ Moved(t, [task EXCEPT !.wanted = wanted,
          !.pc = IF /\ stored # NoOutput
                    /\ Matches(stored, wanted)
                    /\ FilesMatch(stored, files[p], task.first.choice, ~task.batch)
                 THEN "load" ELSE "generate"])
     /\ UNCHANGED <<files, raced, Others>>

\* The image is read, or merged from those of its layers that can be opened; when
\* a layer of the two that are needed cannot, OutputImageBuilder::build() throws
\* what no one catches.  What is opened but cannot be read is made again.
Readable(p, k) == files[p][k] \notin {Absent, Torn} /\ \A t \in DOMAIN tasks : files[p][k] # Opened(t)
LoadFiles(t) ==
  LET task   == tasks[t]
      p      == task.page
      c      == task.first.choice
      there  == {k \in Kinds : files[p][k] # Absent}
      merges == Layered(c) /\ ~Readable(p, "out")
      layers == {"fore", "back"} \cup {k \in {"orig"} \cap there : Original(c)}
      loaded == /\ IF merges THEN \A k \in layers : Readable(p, k) ELSE Readable(p, "out")
                /\ \A k \in Compared(c, ~task.batch) \cap {"mask", "speckles"} : Readable(p, k)
  IN /\ task.pc = "load"
     /\ IF merges /\ ~({"fore", "back"} \subseteq there)
        THEN Restarted /\ UNCHANGED <<saved, loads, events>>
        ELSE /\ IF loaded THEN Ended(t) ELSE Moved(t, [task EXCEPT !.pc = "generate"])
             /\ UNCHANGED <<project, files, raced, Others>>

\* OutputGenerator reads the settings for itself.  What it finds out about the
\* page it writes back, with all that it has read: updateBlackOnWhite().
Generate(t) ==
  LET task == tasks[t]
      p    == task.page
      read == project.params[p]
      seen == IF project.found[p].setByHand THEN read.inverted ELSE p \in Inverted
  IN /\ task.pc = "generate"
     /\ Moved(t, [task EXCEPT !.copy = read, !.image = Image(read), !.found = project.found[p],
                              !.zones = task.wanted.zones,
                              !.pc = IF p \in Blank THEN "reread"
                                     ELSE IF seen = read.inverted THEN "zones" ELSE "detect"])
     /\ UNCHANGED <<project, files, raced, Others>>

UpdateBlackOnWhite(t) ==
  LET task == tasks[t]
      copy == [task.copy EXCEPT !.inverted = ~@]
  IN /\ task.pc = "detect"
     /\ project' = [project EXCEPT !.params[PageOf(t)] = copy]
     /\ Moved(t, [task EXCEPT !.copy = copy, !.image = Image(copy), !.pc = "zones"])
     /\ UNCHANGED <<files, raced, Others>>

\* processPictureZones(): zones found for a rectangular shape are kept.
FindZones(t) ==
  LET task  == tasks[t]
      p     == task.page
      rect  == task.copy.choice.shape = "rect"
      found == [task.found EXCEPT !.autoZones = rect]
      next  == IF task.copy.choice.dewarp = "off" THEN "reread" ELSE "dewarp"
  IN /\ task.pc = "zones"
     /\ IF Mixed(task.copy.choice) /\ ~(rect /\ task.found.autoZones)
        THEN /\ project' = [project EXCEPT !.zones[p] = rect, !.found[p] = found]
             /\ Moved(t, [task EXCEPT !.zones = rect, !.found = found, !.pc = next])
        ELSE /\ Moved(t, [task EXCEPT !.pc = next])
             /\ UNCHANGED project
     /\ UNCHANGED <<files, raced, Others>>

\* A distortion model is built, and the mode that was read written back.
Dewarp(t) ==
  LET task == tasks[t] IN
  /\ task.pc = "dewarp"
  /\ project' = [project EXCEPT !.params[PageOf(t)].choice.dewarp = task.copy.choice.dewarp]
  /\ Moved(t, [task EXCEPT !.model = TRUE, !.pc = "reread"])
  /\ UNCHANGED <<files, raced, Others>>

\* What was wanted, with all that was found.
OnlyZones(task, model, params, found) ==   \* mutant of Refreshed
  [task.wanted EXCEPT !.zones = task.zones]

\* The settings are read again, to add a model to them.
StaleParams(t) == tasks[t].copy   \* mutant of FreshParams
FreshParams(t) == project.params[PageOf(t)]
Reread(t) ==
  /\ tasks[t].pc = "reread" /\ tasks[t].model
  /\ Moved(t, [tasks[t] EXCEPT !.copy = FreshParams(t), !.pc = "save"])
  /\ UNCHANGED <<project, files, raced, Others>>

\* The files to write and to remove, in this order.
Operations(c) ==
  LET write(k) == [op |-> "write", kind |-> k]
  IN (IF Layered(c) THEN <<write("fore"), write("back")>> ELSE <<>>)
     \o (IF Original(c) THEN <<write("orig")>> ELSE <<>>)
     \o <<[op |-> "remove", kind |-> "layers"], write("out"),
          [op |-> "remove", kind |-> "excluded"]>>
     \o (IF Mixed(c) THEN <<write("mask")>> ELSE <<>>)
     \o (IF Speckled(c) THEN <<write("speckles")>> ELSE <<>>)

\* The image of a blank page has no layers and no mask, nor has one generated
\* without them; the program ends when layers are wanted of such an image.
HasImage(task, k) ==
  LET c == task.image.choice IN
  /\ k \in {"fore", "back", "orig", "mask"} => task.page \notin Blank
  /\ k \in Written(c) \cup {"out", "speckles"}
LacksLayers(task) ==
  \E k \in {"fore", "back", "orig"} \cap Written(task.first.choice) : ~HasImage(task, k)

Refreshed(task, model, params, found) ==
  [task.wanted EXCEPT !.model = @ \/ model, !.inverted = params.inverted, !.found = found,
                      !.zones = task.zones]
Save(t) ==
  LET task   == tasks[t]
      p      == task.page
      model  == task.copy.choice.dewarp # "off" /\ task.model
      params == IF model THEN [task.copy EXCEPT !.model = TRUE] ELSE project.params[p]
  IN /\ task.pc = IF task.model THEN "save" ELSE "reread"
     /\ \/ /\ ~LacksLayers(task)
           /\ project' = [project EXCEPT !.params[p] = params]
           /\ Moved(t, [task EXCEPT !.pc = "write", !.todo = Operations(task.first.choice),
                          !.wanted = Refreshed(task, model, params, project.found[p])])
           /\ UNCHANGED <<files, raced, Others>>
        \/ /\ LacksLayers(task)
           /\ Restarted
           /\ UNCHANGED <<saved, loads, events>>

\* A file is opened, and thereby emptied, then closed.  Where two tasks have it
\* open at once the bytes of both are in it.
Holds(p, k, content) == files' = [files EXCEPT ![p][k] = content]
OpenFile(t) ==
  LET task == tasks[t] IN
  /\ task.pc = "write" /\ task.todo # <<>> /\ Head(task.todo).op = "write"
  /\ HasImage(task, Head(task.todo).kind)
  /\ Holds(task.page, Head(task.todo).kind, Opened(t))
  /\ Moved(t, [task EXCEPT !.pc = "close"])
  /\ UNCHANGED <<project, raced, Others>>
CloseFile(t) ==
  LET task == tasks[t]
      k    == Head(task.todo).kind
      now  == files[task.page][k]
  IN /\ task.pc = "close"
     /\ \E content \in IF now = Absent THEN {Absent} ELSE
                       {tasks[t].image} \cup {c \in {Torn} : now # Opened(t)} :
          Holds(task.page, k, content)
     /\ Moved(t, [task EXCEPT !.pc = "write", !.todo = Tail(@)])
     /\ UNCHANGED <<project, raced, Others>>

\* There is nothing to write, the file cannot be opened, or not be written and
\* is removed.  The background is not tried after the foreground, nor are files
\* of other pages deleted for an image that could not be written.
FailToWrite(t) ==
  LET task == tasks[t]
      op   == Head(task.todo)
      rest == Tail(task.todo)
  IN /\ task.todo # <<>> /\ op.op = "write"
     /\ \/ task.pc = "write" /\ ~HasImage(task, op.kind) /\ UNCHANGED <<files, events>>
        \/ task.pc = "write" /\ Occurs /\ UNCHANGED files
        \/ task.pc = "close" /\ Occurs /\ Holds(task.page, op.kind, Absent)
     /\ Moved(t, [task EXCEPT !.pc = "write", !.valid = FALSE,
                              !.todo = IF op.kind \in {"fore", "out"} THEN Tail(rest) ELSE rest])
     /\ UNCHANGED <<project, raced, saved, current, pending, loads, chosen, meddled>>

\* Layers that are not of the image, and the merged files of the pages the image
\* had before it was split or joined.
RemoveFiles(t) ==
  LET task == tasks[t]
      c    == task.first.choice
      gone(p, k) == IF Head(task.todo).kind = "excluded" THEN p # task.page /\ k = "out"
                    ELSE p = task.page /\ k \in {"fore", "back", "orig"} \ Written(c)
  IN /\ task.pc = "write" /\ task.todo # <<>> /\ Head(task.todo).op = "remove"
     /\ files' = [p \in Pages |-> [k \in Kinds |-> IF gone(p, k) THEN Absent ELSE files[p][k]]]
     /\ Moved(t, [task EXCEPT !.todo = Tail(@)])
     /\ UNCHANGED <<project, raced, Others>>

\* The files are described as they are then.
Store(t) ==
  LET task == tasks[t]
      p    == task.page
      sizes == [k \in Kinds |-> IF k \in Written(task.first.choice) THEN files[p][k] ELSE Absent]
      stored == [choice |-> task.wanted.choice, inverted |-> task.wanted.inverted,
                 model |-> task.wanted.model, found |-> task.wanted.found,
                 zones |-> task.wanted.zones, files |-> sizes]
  IN /\ task.pc = "write" /\ task.todo = <<>>
     /\ project' = [project EXCEPT !.stored[p] = IF task.valid THEN stored ELSE NoOutput]
     /\ raced' = IF task.alone THEN raced \ {p} ELSE raced \cup {p}
     /\ Ended(t)
     /\ UNCHANGED <<files, Others>>

\* The flag is looked at before the page is processed, and all along the
\* generation of its image.
Drop(t) ==
  /\ tasks[t].cancelled
  /\ tasks[t].pc \in {"start", "detect", "zones", "dewarp", "reread"}
  /\ Ended(t)
  /\ UNCHANGED <<project, files, raced, Others>>
-----------------------------------------------------------------------------
\* A page is about to be processed for the first time.
Init ==
  /\ project = [params |-> [p \in Pages |-> Default],
                found  |-> [p \in Pages |-> NotFound],
                zones  |-> [p \in Pages |-> FALSE],
                stored |-> [p \in Pages |-> NoOutput],
                halves |-> FALSE]
  /\ saved = [project |-> project, raced |-> {}]
  /\ files = [p \in Pages |-> [k \in Kinds |-> Absent]]
  /\ current = Whole /\ pending = FALSE
  /\ tasks = [t \in {0} |-> NewTask(Whole, FALSE, TRUE)]
  /\ raced = {} /\ meddled = {}
  /\ chosen = [p \in Pages |-> ChoiceOf(project.params[p], project.found[p])]
  /\ loads = 0 /\ events = 0

User ==
  \/ \E p \in Pages : SelectPage(p)
  \/ \E c \in Choices : Choose(c)
  \/ ToggleBlackOnWhite
  \/ ChangeSplit
  \/ SaveProject
  \/ Crash

Works(t) ==
  \/ Start(t) \/ Decide(t) \/ LoadFiles(t)
  \/ Generate(t) \/ UpdateBlackOnWhite(t) \/ FindZones(t) \/ Dewarp(t)
  \/ Reread(t) \/ Save(t)
  \/ OpenFile(t) \/ CloseFile(t) \/ FailToWrite(t) \/ RemoveFiles(t) \/ Store(t)
  \/ Drop(t)

Next == User \/ Reload \/ \E t \in DOMAIN tasks : Works(t)

Spec == Init /\ [][Next]_vars
-----------------------------------------------------------------------------
(* Properties.                                                             *)

\* When the files of a page agree with the stored OutputParams, and these with
\* the settings, the files hold what the settings ask for, whatever was changed,
\* cancelled, lost or went wrong before, unless tasks raced when these were stored.
UpToDateIsTrue ==
  \A p \in Pages \ raced, editor \in BOOLEAN :
    LET params == project.params[p] IN
    UpToDate(p, editor) => \A k \in Compared(params.choice, editor) : files[p][k] = Image(params)

\* What the user chose for a page is not undone by a task that read the settings
\* before and writes them back after, but for what changes between the two.
ChoicesKept ==
  \A p \in Pages \ meddled : ChoiceOf(project.params[p], project.found[p]) = chosen[p]

\* A task that had its page to itself and could write all files leaves it up to
\* date: the page is not processed again the next time it is shown.
ProcessedOnce ==
  [][ \A p \in Pages, t \in DOMAIN tasks :
        Store(t) /\ p = PageOf(t) /\ tasks[t].alone /\ tasks[t].valid => UpToDate(p, TRUE)' ]_vars
=============================================================================
