------------------------- MODULE OutputStageProofs -------------------------
(***************************************************************************)
(* Proofs about making output files: an output that is taken to be up to   *)
(* date is what the settings ask for, no choice of the user is undone by a *)
(* task, and a task that had its page to itself leaves it up to date.      *)
(***************************************************************************)
EXTENDS OutputStage, SequenceTheorems, TLAPS

Params == [choice : AllChoices, inverted : BOOLEAN, model : BOOLEAN]
Found  == [autoZones : BOOLEAN, setByHand : BOOLEAN]
Images == [choice : AllChoices, inverted : BOOLEAN]
Wish   == [choice : AllChoices, inverted : BOOLEAN, found : Found, model : BOOLEAN,
           zones : BOOLEAN]
Content == {Absent, Torn} \cup {Opened(t) : t \in Nat} \cup Images
Output == [choice : AllChoices, inverted : BOOLEAN, model : BOOLEAN, found : Found,
           zones : BOOLEAN, files : [Kinds -> Content]]
Project == [params : [Pages -> Params], found : [Pages -> Found],
            zones : [Pages -> BOOLEAN], stored : [Pages -> Output \cup {NoOutput}],
            halves : BOOLEAN]
Operation == [op : {"write"}, kind : Kinds]
               \cup [op : {"remove"}, kind : {"layers", "excluded"}]

Generating == {"detect", "zones", "dewarp", "reread", "save"}
Saving     == {"write", "close"}
Task == [page : Pages, batch : BOOLEAN,
         pc : {"start", "decide", "load", "generate"} \cup Generating \cup Saving,
         cancelled : BOOLEAN, alone : BOOLEAN, first : Params, copy : Params,
         found : Found, zones : BOOLEAN, model : BOOLEAN, image : Images,
         wanted : Wish, todo : Seq(Operation), valid : BOOLEAN]

\* The types.
Typed ==
  /\ project \in Project
  /\ saved \in [project : Project, raced : SUBSET Pages]
  /\ files \in [Pages -> [Kinds -> Content]]
  /\ current \in Pages \cup {NoPage}
  /\ DOMAIN tasks \subseteq Nat /\ tasks \in [DOMAIN tasks -> Task]
  /\ raced \subseteq Pages /\ DOMAIN chosen = Pages
  /\ loads \in Nat

\* What is still to be done to files: one open is to be closed, and after those
\* for whose failure a second operation is left out there is a second.
Paired(todo) ==
  \A j \in 1..Len(todo) :
    todo[j].op = "write" /\ todo[j].kind \in {"fore", "out"} => j < Len(todo)
Planned(task) ==
  /\ task.pc = "close" => task.todo # <<>> /\ Head(task.todo).op = "write"
  /\ Paired(task.todo)

\* Stored OutputParams describe files that hold what they say.
StoredTrue(prj, unsure) ==
  \A p \in Pages \ unsure :
    LET o == prj.stored[p]
    IN o # NoOutput => \A k \in Written(o.choice) : o.files[k] = Image(o)

\* The copies a task is going to write back agree with the settings in what
\* the user chooses.
Copied(task) ==
  LET p   == task.page
      now == project.params[p]
  IN /\ task.pc = "dewarp" => task.copy.choice.dewarp # "off"
     /\ p \notin meddled =>
          /\ task.pc \in {"detect", "save"} => task.copy.choice = now.choice
          /\ task.pc = "detect" => ~project.found[p].setByHand
          /\ task.pc = "save" /\ project.found[p].setByHand => task.copy.inverted = now.inverted
          /\ task.pc \in {"detect", "zones"} =>
               task.found.setByHand = project.found[p].setByHand
          /\ task.pc \in {"zones", "dewarp"} /\ task.copy.choice.dewarp # "off" =>
               task.copy.choice.dewarp = now.choice.dewarp

\* What a task read earlier, when nobody came between, is what there is now.
Reads(task) ==
  LET p   == task.page
      now == project.params[p]
  IN /\ task.pc # "start" => task.first.choice = now.choice
     /\ task.pc \notin {"start"} \cup Saving => task.first.model = now.model
     /\ task.pc \notin {"start", "decide"} => task.wanted.choice = now.choice
     /\ task.pc \notin {"start", "decide"} \cup Saving => task.wanted.model = now.model
     /\ task.pc \in {"load", "generate"} => task.wanted.zones = project.zones[p]
     /\ task.pc \in Generating => task.copy = now /\ task.zones = project.zones[p]
     /\ task.pc \in Generating \cup Saving => task.image = Image(now)
     /\ task.pc \in Saving => Matches(task.wanted, Wanted(now, project.found[p], project.zones[p]))

\* Its files are written, or still to be.
ToWrite(todo, k) == \E j \in 1..Len(todo) : todo[j] = [op |-> "write", kind |-> k]
Progresses(t) ==
  LET task == tasks[t]
      here == files[task.page]
  IN task.pc \in Saving =>
       /\ task.pc = "close" => here[Head(task.todo).kind] = Opened(t)
       /\ task.valid => \A k \in Written(task.first.choice) :
                          here[k] = task.image \/ ToWrite(task.todo, k)

Undisturbed(t) ==
  tasks[t].alone => DOMAIN tasks = {t} /\ Reads(tasks[t]) /\ Progresses(t)

Inv ==
  /\ Typed
  /\ StoredTrue(project, raced) /\ StoredTrue(saved.project, saved.raced)
  /\ ChoicesKept
  /\ \A t \in DOMAIN tasks : Planned(tasks[t]) /\ Copied(tasks[t]) /\ Undisturbed(t)
-----------------------------------------------------------------------------
(* Updates of records.                                                     *)

\* Nothing else is what NoOutput is.
LEMMA OutputIsSome == \A o \in Output : o # NoOutput
<1> SUFFICES ASSUME NEW o \in Output PROVE o # NoOutput
  OBVIOUS
<1>1. "zones" \in DOMAIN o
  BY DEF Output
<1>2. DOMAIN NoOutput = {"none"}
  BY DEF NoOutput
<1> QED BY <1>1, <1>2

\* Settings with those of a page changed.
LEMMA ProjectFacts ==
  ASSUME NEW prj \in Project
  PROVE  /\ prj.params \in [Pages -> Params] /\ prj.found \in [Pages -> Found]
         /\ prj.zones \in [Pages -> BOOLEAN]
         /\ prj.stored \in [Pages -> Output \cup {NoOutput}]
         /\ prj.halves \in BOOLEAN
BY DEF Project

\* Only what belongs to a page changes.
LEMMA PutParams ==
  ASSUME NEW prj \in Project, NEW p \in Pages, NEW v \in Params
  PROVE  LET new == [prj EXCEPT !.params[p] = v]
         IN /\ new \in Project
            /\ new.params[p] = v
            /\ \A q \in Pages \ {p} : new.params[q] = prj.params[q]
            /\ new.found = prj.found /\ new.zones = prj.zones /\ new.stored = prj.stored
<1> HIDE DEF Params, Found, Output, NoOutput
<1> QED BY DEF Project

\* What was found of a page is replaced.
LEMMA PutFound ==
  ASSUME NEW prj \in Project, NEW p \in Pages, NEW v \in Found
  PROVE  LET new == [prj EXCEPT !.found[p] = v]
         IN /\ new \in Project
            /\ new.found[p] = v
            /\ \A q \in Pages \ {p} : new.found[q] = prj.found[q]
            /\ new.params = prj.params /\ new.zones = prj.zones /\ new.stored = prj.stored
BY DEF Project

\* The OutputParams stored of a page are replaced.
LEMMA PutStored ==
  ASSUME NEW prj \in Project, NEW p \in Pages, NEW v \in Output \cup {NoOutput}
  PROVE  LET new == [prj EXCEPT !.stored[p] = v]
         IN /\ new \in Project
            /\ new.stored[p] = v
            /\ \A q \in Pages \ {p} : new.stored[q] = prj.stored[q]
            /\ new.params = prj.params /\ new.zones = prj.zones /\ new.found = prj.found
BY DEF Project

\* The fields of a task.
LEMMA TaskFacts ==
  ASSUME NEW task \in Task
  PROVE  /\ task.page \in Pages /\ task.batch \in BOOLEAN
         /\ task.cancelled \in BOOLEAN /\ task.alone \in BOOLEAN
         /\ task.first \in Params /\ task.copy \in Params /\ task.found \in Found
         /\ task.zones \in BOOLEAN /\ task.model \in BOOLEAN /\ task.image \in Images
         /\ task.wanted \in Wish /\ task.todo \in Seq(Operation) /\ task.valid \in BOOLEAN
BY DEF Task
-----------------------------------------------------------------------------
(* What the steps have in common.                                          *)

\* A task that goes on leaves the settings as the user chose them.
ChoicesStay ==
  \A p \in Pages \ meddled :
    /\ project'.params[p].choice = project.params[p].choice
    /\ project'.found[p].setByHand = project.found[p].setByHand
    /\ project.found[p].setByHand => project'.params[p].inverted = project.params[p].inverted

\* It moves, and no other task does.
LEMMA OneMoves ==
  ASSUME Inv, NEW t \in DOMAIN tasks, NEW new \in Task, Moved(t, new)
  PROVE  /\ DOMAIN tasks' = DOMAIN tasks /\ tasks' \in [DOMAIN tasks -> Task]
         /\ tasks'[t] = new
         /\ \A u \in DOMAIN tasks \ {t} : tasks'[u] = tasks[u]
<1> HIDE DEF Task
<1> QED BY DEF Moved, Inv, Typed

\* Then it is enough to look at the one.
LEMMA WorkInv ==
  ASSUME Inv, NEW t \in DOMAIN tasks,
         DOMAIN tasks' = DOMAIN tasks, tasks' \in [DOMAIN tasks -> Task],
         \A u \in DOMAIN tasks \ {t} : tasks'[u] = tasks[u],
         tasks'[t].alone => tasks[t].alone,
         project' \in Project, project'.stored = project.stored,
         files' \in [Pages -> [Kinds -> Content]],
         UNCHANGED <<raced, saved, current, loads, chosen, meddled>>,
         ChoicesStay, Planned(tasks[t])', Copied(tasks[t])',
         tasks[t].alone => Reads(tasks[t])' /\ Progresses(t)'
  PROVE  Inv'
<1> HIDE DEF Task, Project, Content
<1>1. Typed'
  BY DEF Inv, Typed
<1>2. StoredTrue(project, raced)' /\ StoredTrue(saved.project, saved.raced)'
  BY DEF Inv, StoredTrue
<1>3. ChoicesKept'
  BY DEF Inv, ChoicesKept, ChoicesStay, ChoiceOf
<1>4. ASSUME NEW u \in DOMAIN tasks \ {t} PROVE Planned(tasks[u])' /\ Copied(tasks[u])'
  <2>1. tasks'[u] = tasks[u] /\ Planned(tasks[u]) /\ Copied(tasks[u]) /\ tasks[u].page \in Pages
    BY TaskFacts DEF Inv, Typed
  <2> QED BY <2>1 DEF Copied, ChoicesStay
<1>5. ASSUME NEW u \in DOMAIN tasks \ {t} PROVE ~tasks'[u].alone
  BY DEF Inv, Undisturbed
<1>6. Undisturbed(t)'
  <2>1. tasks[t].alone => DOMAIN tasks = {t}
    BY DEF Inv, Undisturbed
  <2> QED BY <2>1 DEF Undisturbed
<1>7. \A u \in DOMAIN tasks' : Planned(tasks[u])' /\ Copied(tasks[u])' /\ Undisturbed(u)'
  BY <1>4, <1>5, <1>6 DEF Undisturbed
<1> QED BY <1>1, <1>2, <1>3, <1>7 DEF Inv

\* A task ends, with what is stored of its page.
LEMMA EndInv ==
  ASSUME Inv, NEW t \in DOMAIN tasks, Ended(t),
         project' \in Project, project'.params = project.params,
         project'.found = project.found,
         raced' \subseteq Pages, StoredTrue(project', raced'),
         UNCHANGED <<files, saved, current, loads, chosen, meddled>>
  PROVE  Inv'
<1> HIDE DEF Task, Project, Content
<1>1. /\ DOMAIN tasks' = DOMAIN tasks \ {t}
      /\ \A u \in DOMAIN tasks' : u \in DOMAIN tasks /\ u # t /\ tasks'[u] = tasks[u]
      /\ tasks' \in [DOMAIN tasks' -> Task]
  BY DEF Ended, Inv, Typed
<1>2. Typed'
  BY <1>1 DEF Inv, Typed
<1>3. StoredTrue(saved.project, saved.raced)' /\ ChoicesKept'
  BY DEF Inv, ChoicesKept
<1>4. ASSUME NEW u \in DOMAIN tasks'
      PROVE  Planned(tasks[u])' /\ Copied(tasks[u])' /\ ~tasks'[u].alone
  <2>1. u \in DOMAIN tasks /\ t # u /\ tasks'[u] = tasks[u]
    BY <1>1
  <2>2. Planned(tasks[u]) /\ Copied(tasks[u]) /\ Undisturbed(u)
    BY <2>1 DEF Inv
  <2>3. ~tasks'[u].alone
    BY <2>1, <2>2 DEF Undisturbed
  <2>4. Planned(tasks[u])'
    BY <2>1, <2>2 DEF Planned
  <2>5. Copied(tasks[u])'
    BY <2>1, <2>2 DEF Copied
  <2> QED BY <2>3, <2>4, <2>5
<1> QED BY <1>2, <1>3, <1>4 DEF Inv, Undisturbed
-----------------------------------------------------------------------------
(* The steps of a task.                                                    *)

\* What holds of a task in every state.
LEMMA TaskInv ==
  ASSUME Inv, NEW t \in DOMAIN tasks
  PROVE  /\ tasks[t] \in Task /\ tasks[t].page \in Pages
         /\ Planned(tasks[t]) /\ Copied(tasks[t])
         /\ tasks[t].alone => Reads(tasks[t]) /\ Progresses(t)
BY TaskFacts DEF Inv, Typed, Undisturbed

\* A task that starts copies the parameters of its page, and changes nothing
\* else.
LEMMA StartInv == ASSUME Inv, NEW t \in DOMAIN tasks, Start(t) PROVE Inv'
<1> DEFINE task == tasks[t]
           new == [task EXCEPT !.first = project.params[task.page], !.pc = "decide"]
<1>1. /\ task \in Task /\ task.page \in Pages
      /\ Planned(task) /\ project \in Project
  BY TaskInv DEF Inv, Typed
<1>2. project.params[task.page] \in Params
  BY <1>1, ProjectFacts
<1>3. new \in Task
  BY <1>1, <1>2 DEF Task
<1>4. /\ new.page = task.page /\ new.alone = task.alone /\ new.pc = "decide"
      /\ new.todo = task.todo /\ new.first = project.params[task.page]
  BY <1>1 DEF Task
<1>5. /\ Moved(t, new)
      /\ UNCHANGED <<project, files, raced, saved, current, loads, chosen, meddled>>
      /\ task.pc = "start"
  BY DEF Start, Others, PageOf
<1> HIDE DEF new
<1>6. /\ DOMAIN tasks' = DOMAIN tasks /\ tasks' \in [DOMAIN tasks -> Task]
      /\ tasks'[t] = new
      /\ \A u \in DOMAIN tasks \ {t} : tasks'[u] = tasks[u]
  BY <1>3, <1>5, OneMoves
<1>7. Planned(tasks[t])'
  BY <1>1, <1>4, <1>5, <1>6 DEF Planned
<1>8. Copied(tasks[t])'
  BY <1>4, <1>6 DEF Copied
<1>9. Reads(tasks[t])' /\ Progresses(t)'
  BY <1>4, <1>5, <1>6 DEF Reads, Progresses, Generating, Saving
<1>10. ChoicesStay
  BY <1>5 DEF ChoicesStay
<1>11. files' \in [Pages -> [Kinds -> Content]] /\ project' \in Project
  BY <1>5 DEF Inv, Typed
<1> QED BY <1>4, <1>5, <1>6, <1>7, <1>8, <1>9, <1>10, <1>11, WorkInv

\* Automatic zones of another shape are forgotten, and a task alone has
\* compared the settings that hold.
LEMMA DecideInv == ASSUME Inv, NEW t \in DOMAIN tasks, Decide(t) PROVE Inv'
<1> DEFINE task   == tasks[t]
           p      == task.page
           stored == project.stored[p]
           found  == IF stored # NoOutput /\ stored.choice.shape # task.first.choice.shape
                     THEN [project.found[p] EXCEPT !.autoZones = FALSE] ELSE project.found[p]
           wanted == Wanted(task.first, found, project.zones[p])
           pc     == IF /\ stored # NoOutput
                        /\ Matches(stored, wanted)
                        /\ FilesMatch(stored, files[p], task.first.choice, ~task.batch)
                     THEN "load" ELSE "generate"
           new    == [task EXCEPT !.wanted = wanted, !.pc = pc]
<1>1. /\ task \in Task /\ p \in Pages
      /\ Planned(task) /\ project \in Project
      /\ task.alone => Reads(task)
  BY TaskInv DEF Inv, Typed
<1>2. found \in Found /\ found.setByHand = project.found[p].setByHand
  <2>1. project.found[p] \in Found
    BY <1>1, ProjectFacts
  <2>2. \A f \in Found : LET g == [f EXCEPT !.autoZones = FALSE]
                         IN g \in Found /\ g.setByHand = f.setByHand
    BY DEF Found
  <2> QED BY <2>1, <2>2
<1>3. /\ task.pc = "decide" /\ project' = [project EXCEPT !.found[p] = found]
      /\ Moved(t, new)
      /\ UNCHANGED <<files, raced, saved, current, loads, chosen, meddled>>
  BY DEF Decide, Others, PageOf
<1> HIDE DEF found
<1>4. /\ wanted \in Wish /\ pc \in {"load", "generate"}
      /\ wanted.choice = task.first.choice /\ wanted.model = task.first.model
      /\ wanted.zones = project.zones[p]
  <2>1. task.first \in Params /\ project.zones[p] \in BOOLEAN
    BY <1>1, TaskFacts, ProjectFacts
  <2> QED BY <1>2, <2>1 DEF Wanted, Wish, Params
<1> HIDE DEF wanted, pc
<1>5. new \in Task
  BY <1>1, <1>4 DEF Task
<1>6. /\ new.page = p /\ new.alone = task.alone /\ new.pc = pc
      /\ new.todo = task.todo /\ new.first = task.first /\ new.wanted = wanted
  BY <1>1 DEF Task
<1> HIDE DEF new
<1>7. /\ DOMAIN tasks' = DOMAIN tasks /\ tasks' \in [DOMAIN tasks -> Task]
      /\ tasks'[t] = new
      /\ \A u \in DOMAIN tasks \ {t} : tasks'[u] = tasks[u]
  BY <1>3, <1>5, OneMoves
<1>8. /\ project' \in Project /\ project'.params = project.params
      /\ project'.zones = project.zones /\ project'.stored = project.stored
      /\ project'.found[p] = found
      /\ \A q \in Pages \ {p} : project'.found[q] = project.found[q]
  BY <1>1, <1>2, <1>3, PutFound
<1>9. Planned(tasks[t])'
  BY <1>1, <1>3, <1>4, <1>6, <1>7 DEF Planned
<1>10. Copied(tasks[t])'
  BY <1>4, <1>6, <1>7 DEF Copied
<1>11. task.alone => Reads(tasks[t])' /\ Progresses(t)'
  <2>1. task.alone => Progresses(t)'
    BY <1>4, <1>6, <1>7 DEF Progresses, Saving
  <2>2. task.alone => Reads(tasks[t])'
    BY <1>1, <1>3, <1>4, <1>6, <1>7, <1>8 DEF Reads, Generating, Saving
  <2> QED BY <2>1, <2>2
<1>12. ChoicesStay
  BY <1>2, <1>8 DEF ChoicesStay
<1>13. files' \in [Pages -> [Kinds -> Content]]
  BY <1>3 DEF Inv, Typed
<1> QED BY <1>3, <1>6, <1>7, <1>8, <1>9, <1>10, <1>11, <1>12, <1>13, WorkInv

\* A task takes the copies of the settings that generation reads.
LEMMA GenerateInv == ASSUME Inv, NEW t \in DOMAIN tasks, Generate(t) PROVE Inv'
<1> DEFINE task == tasks[t]
           p    == task.page
           read == project.params[p]
           seen == IF project.found[p].setByHand THEN read.inverted ELSE p \in Inverted
           pc   == IF p \in Blank THEN "reread"
                   ELSE IF seen = read.inverted THEN "zones" ELSE "detect"
           new  == [task EXCEPT !.copy = read, !.image = Image(read),
                      !.found = project.found[p], !.zones = task.wanted.zones, !.pc = pc]
<1>1. /\ task \in Task /\ p \in Pages
      /\ Planned(task) /\ project \in Project
      /\ task.alone => Reads(task)
  BY TaskInv DEF Inv, Typed
<1>2. /\ task.pc = "generate" /\ Moved(t, new)
      /\ UNCHANGED <<project, files, raced, saved, current, loads, chosen, meddled>>
  BY DEF Generate, Others, PageOf
<1>3. /\ read \in Params /\ project.found[p] \in Found /\ task.wanted.zones \in BOOLEAN
      /\ Image(read) \in Images
  <2>1. task.wanted \in Wish /\ read \in Params /\ project.found[p] \in Found
    BY <1>1, TaskFacts, ProjectFacts
  <2> QED BY <2>1 DEF Wish, Image, Images, Params
<1>4. /\ pc \in {"reread", "zones", "detect"}
      /\ pc = "detect" => ~project.found[p].setByHand
  OBVIOUS
<1> HIDE DEF pc, read
<1>5. new \in Task
  <2> DEFINE image == Image(read)
  <2>1. image \in Images
    BY <1>3
  <2> HIDE DEF Params, Found, Images, image
  <2> QED BY <1>1, <1>3, <1>4, <2>1 DEF Task, Generating, image
<1>6. /\ new.page = p /\ new.alone = task.alone /\ new.pc = pc /\ new.todo = task.todo
      /\ new.first = task.first /\ new.wanted = task.wanted /\ new.copy = read
      /\ new.image = Image(read) /\ new.found = project.found[p]
      /\ new.zones = task.wanted.zones
  BY <1>1 DEF Task
<1> HIDE DEF new
<1>7. /\ DOMAIN tasks' = DOMAIN tasks /\ tasks' \in [DOMAIN tasks -> Task]
      /\ tasks'[t] = new
      /\ \A u \in DOMAIN tasks \ {t} : tasks'[u] = tasks[u]
  BY <1>2, <1>5, OneMoves
<1>8. Planned(tasks[t])'
  BY <1>1, <1>2, <1>4, <1>6, <1>7 DEF Planned
<1>9. Copied(tasks[t])'
  BY <1>2, <1>4, <1>6, <1>7 DEF Copied, read
<1>10. task.alone => Progresses(t)'
  BY <1>4, <1>6, <1>7 DEF Progresses, Saving
<1>11. task.alone => Reads(tasks[t])'
  BY <1>1, <1>2, <1>4, <1>6, <1>7 DEF Reads, Generating, Saving, read
<1>12. ChoicesStay
  BY <1>2 DEF ChoicesStay
<1>13. files' \in [Pages -> [Kinds -> Content]] /\ project' \in Project
  BY <1>2 DEF Inv, Typed
<1> QED BY <1>2, <1>6, <1>7, <1>8, <1>9, <1>10, <1>11, <1>12, <1>13, WorkInv

\* The detected black on white mode is written back with the choice it was
\* copied with.
LEMMA UpdateInv == ASSUME Inv, NEW t \in DOMAIN tasks, UpdateBlackOnWhite(t) PROVE Inv'
<1> DEFINE task == tasks[t]
           p    == task.page
           copy == [task.copy EXCEPT !.inverted = ~@]
           new  == [task EXCEPT !.copy = copy, !.image = Image(copy), !.pc = "zones"]
<1>1. /\ task \in Task /\ p \in Pages
      /\ Planned(task) /\ Copied(task) /\ project \in Project
      /\ task.alone => Reads(task)
  BY TaskInv DEF Inv, Typed
<1>2. /\ task.pc = "detect" /\ Moved(t, new)
      /\ project' = [project EXCEPT !.params[p] = copy]
      /\ UNCHANGED <<files, raced, saved, current, loads, chosen, meddled>>
  BY DEF UpdateBlackOnWhite, Others, PageOf
<1>3. /\ copy \in Params /\ Image(copy) \in Images
      /\ copy.choice = task.copy.choice /\ copy.model = task.copy.model
  <2>1. task.copy \in Params
    BY <1>1, TaskFacts
  <2> QED BY <2>1 DEF Image, Images, Params
<1> HIDE DEF copy
<1>4. new \in Task
  <2> DEFINE image == Image(copy)
  <2>1. image \in Images
    BY <1>3
  <2> HIDE DEF Params, Images, image
  <2> QED BY <1>1, <1>3, <2>1 DEF Task, Generating, image
<1>5. /\ new.page = p /\ new.alone = task.alone /\ new.pc = "zones" /\ new.todo = task.todo
      /\ new.first = task.first /\ new.wanted = task.wanted /\ new.copy = copy
      /\ new.image = Image(copy) /\ new.found = task.found /\ new.zones = task.zones
  BY <1>1 DEF Task
<1> HIDE DEF new
<1>6. /\ DOMAIN tasks' = DOMAIN tasks /\ tasks' \in [DOMAIN tasks -> Task]
      /\ tasks'[t] = new
      /\ \A u \in DOMAIN tasks \ {t} : tasks'[u] = tasks[u]
  BY <1>2, <1>4, OneMoves
<1>7. /\ project' \in Project /\ project'.params[p] = copy
      /\ \A q \in Pages \ {p} : project'.params[q] = project.params[q]
      /\ project'.found = project.found /\ project'.zones = project.zones
      /\ project'.stored = project.stored
  BY <1>1, <1>2, <1>3, PutParams
<1>8. Planned(tasks[t])'
  BY <1>1, <1>2, <1>5, <1>6 DEF Planned
<1>9. Copied(tasks[t])'
  BY <1>1, <1>2, <1>3, <1>5, <1>6, <1>7 DEF Copied
<1>10. task.alone => Progresses(t)'
  BY <1>5, <1>6 DEF Progresses, Saving
<1>11. task.alone => Reads(tasks[t])'
  BY <1>1, <1>2, <1>3, <1>5, <1>6, <1>7 DEF Reads, Generating, Saving
<1>12. ChoicesStay
  <2>1. p \notin meddled => task.copy.choice = project.params[p].choice
                            /\ ~project.found[p].setByHand
    BY <1>1, <1>2 DEF Copied
  <2> QED BY <1>3, <1>7, <2>1 DEF ChoicesStay
<1>13. files' \in [Pages -> [Kinds -> Content]]
  BY <1>2 DEF Inv, Typed
<1> QED BY <1>2, <1>5, <1>6, <1>7, <1>8, <1>9, <1>10, <1>11, <1>12, <1>13, WorkInv

\* The picture zones that were found are stored, the choice stays.
LEMMA FindZonesInv == ASSUME Inv, NEW t \in DOMAIN tasks, FindZones(t) PROVE Inv'
<1> DEFINE task  == tasks[t]
           p     == task.page
           rect  == task.copy.choice.shape = "rect"
           found == [task.found EXCEPT !.autoZones = rect]
           next  == IF task.copy.choice.dewarp = "off" THEN "reread" ELSE "dewarp"
           kept  == [task EXCEPT !.pc = next]
           new   == [task EXCEPT !.zones = rect, !.found = found, !.pc = next]
<1>1. /\ task \in Task /\ p \in Pages
      /\ Planned(task) /\ Copied(task) /\ project \in Project
      /\ task.alone => Reads(task)
  BY TaskInv DEF Inv, Typed
<1>2. /\ task.pc = "zones"
      /\ UNCHANGED <<files, raced, saved, current, loads, chosen, meddled>>
      /\ \/ Moved(t, kept) /\ UNCHANGED project
         \/ Moved(t, new) /\ project' = [project EXCEPT !.zones[p] = rect, !.found[p] = found]
  BY DEF FindZones, Others, PageOf
<1>3. /\ found \in Found /\ found.setByHand = task.found.setByHand
      /\ rect \in BOOLEAN /\ next \in {"reread", "dewarp"}
      /\ next = "dewarp" => task.copy.choice.dewarp # "off"
  <2>1. task.found \in Found
    BY <1>1, TaskFacts
  <2> QED BY <2>1 DEF Found
<1> HIDE DEF rect, found, next
<1>4. files' \in [Pages -> [Kinds -> Content]]
  BY <1>2 DEF Inv, Typed
<1>5. CASE Moved(t, kept) /\ UNCHANGED project
  <2>1. kept \in Task
    BY <1>1, <1>3 DEF Task, Generating
  <2>2. /\ kept.page = p /\ kept.alone = task.alone /\ kept.pc = next
        /\ kept.todo = task.todo /\ kept.first = task.first /\ kept.wanted = task.wanted
        /\ kept.copy = task.copy /\ kept.image = task.image /\ kept.found = task.found
        /\ kept.zones = task.zones
    BY <1>1 DEF Task
  <2> HIDE DEF kept
  <2>3. /\ DOMAIN tasks' = DOMAIN tasks /\ tasks' \in [DOMAIN tasks -> Task]
        /\ tasks'[t] = kept
        /\ \A u \in DOMAIN tasks \ {t} : tasks'[u] = tasks[u]
    BY <1>5, <2>1, OneMoves
  <2>4. Planned(tasks[t])'
    BY <1>1, <1>2, <1>3, <2>2, <2>3 DEF Planned
  <2>5. Copied(tasks[t])'
    BY <1>1, <1>2, <1>3, <1>5, <2>2, <2>3 DEF Copied
  <2>6. task.alone => Progresses(t)'
    BY <1>3, <2>2, <2>3 DEF Progresses, Saving
  <2>7. task.alone => Reads(tasks[t])'
    BY <1>1, <1>2, <1>3, <1>5, <2>2, <2>3 DEF Reads, Generating, Saving
  <2>8. ChoicesStay /\ project' \in Project /\ project'.stored = project.stored
    BY <1>1, <1>5 DEF ChoicesStay
  <2> QED BY <1>2, <1>4, <2>2, <2>3, <2>4, <2>5, <2>6, <2>7, <2>8, WorkInv
<1>6. CASE Moved(t, new) /\ project' = [project EXCEPT !.zones[p] = rect, !.found[p] = found]
  <2>1. new \in Task
    <3> HIDE DEF Found
    <3> QED BY <1>1, <1>3 DEF Task, Generating
  <2>2. /\ new.page = p /\ new.alone = task.alone /\ new.pc = next
        /\ new.todo = task.todo /\ new.first = task.first /\ new.wanted = task.wanted
        /\ new.copy = task.copy /\ new.image = task.image /\ new.found = found
        /\ new.zones = rect
    BY <1>1 DEF Task
  <2> HIDE DEF new
  <2>3. /\ DOMAIN tasks' = DOMAIN tasks /\ tasks' \in [DOMAIN tasks -> Task]
        /\ tasks'[t] = new
        /\ \A u \in DOMAIN tasks \ {t} : tasks'[u] = tasks[u]
    BY <1>6, <2>1, OneMoves
  <2>4. /\ project' \in Project /\ project'.zones[p] = rect /\ project'.found[p] = found
        /\ \A q \in Pages \ {p} : project'.found[q] = project.found[q]
        /\ project'.params = project.params /\ project'.stored = project.stored
    BY <1>1, <1>3, <1>6 DEF Project
  <2>5. Planned(tasks[t])'
    BY <1>1, <1>2, <1>3, <2>2, <2>3 DEF Planned
  <2>6. Copied(tasks[t])'
    BY <1>1, <1>2, <1>3, <2>2, <2>3, <2>4 DEF Copied
  <2>7. task.alone => Progresses(t)'
    BY <1>3, <2>2, <2>3 DEF Progresses, Saving
  <2>8. task.alone => Reads(tasks[t])'
    BY <1>1, <1>2, <1>3, <2>2, <2>3, <2>4 DEF Reads, Generating, Saving
  <2>9. ChoicesStay
    <3>1. p \notin meddled => task.found.setByHand = project.found[p].setByHand
      BY <1>1, <1>2 DEF Copied
    <3> QED BY <1>3, <2>4, <3>1 DEF ChoicesStay
  <2> QED BY <1>2, <1>4, <2>2, <2>3, <2>4, <2>5, <2>6, <2>7, <2>8, <2>9, WorkInv
<1> QED BY <1>2, <1>5, <1>6

\* The distortion model that was found is written back with the choice it was
\* copied with.
LEMMA DewarpInv == ASSUME Inv, NEW t \in DOMAIN tasks, Dewarp(t) PROVE Inv'
<1> DEFINE task == tasks[t]
           p    == task.page
           cur  == project.params[p]
           mode == task.copy.choice.dewarp
           val  == [cur EXCEPT !.choice = [cur.choice EXCEPT !.dewarp = mode]]
           new  == [task EXCEPT !.model = TRUE, !.pc = "reread"]
<1>1. /\ task \in Task /\ p \in Pages
      /\ Planned(task) /\ Copied(task) /\ project \in Project
      /\ task.alone => Reads(task)
  BY TaskInv DEF Inv, Typed
<1>2. /\ task.pc = "dewarp" /\ Moved(t, new)
      /\ project' = [project EXCEPT !.params[p].choice.dewarp = mode]
      /\ UNCHANGED <<files, raced, saved, current, loads, chosen, meddled>>
  BY DEF Dewarp, Others, PageOf
<1>3. mode \in {"off", "auto"} /\ cur \in Params
  BY <1>1, TaskFacts, ProjectFacts DEF Params, AllChoices
<1>4. new \in Task
  BY <1>1 DEF Task, Generating
<1>5. /\ new.page = p /\ new.alone = task.alone /\ new.pc = "reread" /\ new.todo = task.todo
      /\ new.first = task.first /\ new.wanted = task.wanted /\ new.copy = task.copy
      /\ new.image = task.image /\ new.found = task.found /\ new.zones = task.zones
  BY <1>1 DEF Task
<1> HIDE DEF new, mode
<1>6. /\ DOMAIN tasks' = DOMAIN tasks /\ tasks' \in [DOMAIN tasks -> Task]
      /\ tasks'[t] = new
      /\ \A u \in DOMAIN tasks \ {t} : tasks'[u] = tasks[u]
  BY <1>2, <1>4, OneMoves
<1>7. /\ project' \in Project /\ project'.params[p] = val
      /\ \A q \in Pages \ {p} : project'.params[q] = project.params[q]
      /\ project'.found = project.found /\ project'.zones = project.zones
      /\ project'.stored = project.stored
  <2>1. val \in Params
    BY <1>3 DEF Params, AllChoices
  <2>2. project' = [project EXCEPT !.params[p] = val]
    BY <1>2
  <2> HIDE DEF val
  <2> QED BY <1>1, <2>1, <2>2, PutParams

\* Unless the user has changed it, what was read is written.
<1>8. mode = cur.choice.dewarp => val = cur
  BY <1>3 DEF Params, AllChoices
<1>9. /\ p \notin meddled => mode = cur.choice.dewarp
      /\ task.alone => mode = cur.choice.dewarp
  <2>1. p \notin meddled => mode = cur.choice.dewarp
    BY <1>1, <1>2 DEF Copied, mode
  <2>2. ASSUME task.alone PROVE mode = cur.choice.dewarp
    <3>1. task.pc = "dewarp" /\ Reads(task)
      BY <1>1, <1>2, <2>2
    <3>2. task.copy = cur
      BY <3>1 DEF Reads, Generating
    <3> QED BY <3>2 DEF mode
  <2> QED BY <2>1, <2>2
<1> HIDE DEF val
<1>10. Planned(tasks[t])'
  BY <1>1, <1>2, <1>5, <1>6 DEF Planned
<1>11. Copied(tasks[t])'
  BY <1>5, <1>6 DEF Copied
<1>12. task.alone => Progresses(t)'
  BY <1>5, <1>6 DEF Progresses, Saving
<1>13. task.alone => Reads(tasks[t])'
  <2> SUFFICES ASSUME task.alone PROVE Reads(tasks[t])'
    OBVIOUS
  <2>1. project'.params[p] = project.params[p] /\ project'.zones = project.zones
    BY <1>7, <1>8, <1>9
  <2>2. Reads(task) /\ task.pc = "dewarp" /\ tasks'[t] = new
    BY <1>1, <1>2, <1>6
  <2> QED BY <1>5, <2>1, <2>2 DEF Reads, Generating, Saving
<1>14. ChoicesStay
  BY <1>7, <1>8, <1>9 DEF ChoicesStay
<1>15. files' \in [Pages -> [Kinds -> Content]]
  BY <1>2 DEF Inv, Typed
<1> QED BY <1>2, <1>5, <1>6, <1>7, <1>10, <1>11, <1>12, <1>13, <1>14, <1>15, WorkInv

\* The settings are read again after what dewarping wrote back.
LEMMA RereadInv == ASSUME Inv, NEW t \in DOMAIN tasks, Reread(t) PROVE Inv'
<1> DEFINE task == tasks[t]
           p    == task.page
           read == project.params[p]
           new  == [task EXCEPT !.copy = read, !.pc = "save"]
<1>1. /\ task \in Task /\ p \in Pages
      /\ Planned(task) /\ project \in Project
      /\ task.alone => Reads(task)
  BY TaskInv DEF Inv, Typed
<1>2. /\ task.pc = "reread" /\ Moved(t, new)
      /\ UNCHANGED <<project, files, raced, saved, current, loads, chosen, meddled>>
  BY DEF Reread, FreshParams, Others, PageOf
<1>3. read \in Params
  BY <1>1, ProjectFacts
<1> HIDE DEF read
<1>4. new \in Task
  BY <1>1, <1>3 DEF Task, Generating
<1>5. /\ new.page = p /\ new.alone = task.alone /\ new.pc = "save" /\ new.todo = task.todo
      /\ new.first = task.first /\ new.wanted = task.wanted /\ new.copy = read
      /\ new.image = task.image /\ new.found = task.found /\ new.zones = task.zones
  BY <1>1 DEF Task
<1> HIDE DEF new
<1>6. /\ DOMAIN tasks' = DOMAIN tasks /\ tasks' \in [DOMAIN tasks -> Task]
      /\ tasks'[t] = new
      /\ \A u \in DOMAIN tasks \ {t} : tasks'[u] = tasks[u]
  BY <1>2, <1>4, OneMoves
<1>7. Planned(tasks[t])'
  BY <1>1, <1>2, <1>5, <1>6 DEF Planned
<1>8. Copied(tasks[t])'
  BY <1>2, <1>5, <1>6 DEF Copied, read
<1>9. task.alone => Progresses(t)'
  BY <1>5, <1>6 DEF Progresses, Saving
<1>10. task.alone => Reads(tasks[t])'
  BY <1>1, <1>2, <1>5, <1>6 DEF Reads, Generating, Saving, read
<1>11. ChoicesStay
  BY <1>2 DEF ChoicesStay
<1>12. files' \in [Pages -> [Kinds -> Content]] /\ project' \in Project
  BY <1>2 DEF Inv, Typed
<1> QED BY <1>2, <1>5, <1>6, <1>7, <1>8, <1>9, <1>10, <1>11, <1>12, WorkInv

\* A task that was cancelled ends and stores nothing.
LEMMA DropInv == ASSUME Inv, NEW t \in DOMAIN tasks, Drop(t) PROVE Inv'
<1>1. /\ Ended(t)
      /\ UNCHANGED <<project, files, raced, saved, current, loads, chosen, meddled>>
  BY DEF Drop, Others
<1>2. project' \in Project /\ raced' \subseteq Pages /\ StoredTrue(project', raced')
  BY <1>1 DEF Inv, Typed
<1> QED BY <1>1, <1>2, EndInv
-----------------------------------------------------------------------------
(* What is to be done to files.                                            *)

\* Of operations one after the other.
LEMMA ConcatOperations ==
  ASSUME NEW q \in Seq(Operation), NEW r \in Seq(Operation), Paired(q), Paired(r)
  PROVE  /\ q \o r \in Seq(Operation) /\ Paired(q \o r)
         /\ \A k : ToWrite(q, k) \/ ToWrite(r, k) => ToWrite(q \o r, k)
<1> DEFINE s == q \o r
<1>1. /\ Len(q) \in Nat /\ Len(r) \in Nat /\ s \in Seq(Operation) /\ Len(s) = Len(q) + Len(r)
      /\ \A i \in 1..(Len(q) + Len(r)) : s[i] = IF i <= Len(q) THEN q[i] ELSE r[i - Len(q)]
  BY ConcatProperties, LenProperties
<1>2. /\ \A i \in 1..Len(q) : i \in 1..Len(s) /\ s[i] = q[i]
      /\ \A i \in 1..Len(r) : i + Len(q) \in 1..Len(s) /\ s[i + Len(q)] = r[i]
  BY <1>1
<1>3. \A i \in 1..Len(s) : \/ i \in 1..Len(q) /\ s[i] = q[i]
                           \/ i - Len(q) \in 1..Len(r) /\ s[i] = r[i - Len(q)]
  BY <1>1
<1> HIDE DEF s
<1>4. Paired(s)
  BY <1>1, <1>3 DEF Paired
<1>5. \A k : ToWrite(q, k) \/ ToWrite(r, k) => ToWrite(s, k)
  BY <1>2 DEF ToWrite
<1> QED BY <1>1, <1>4, <1>5 DEF s

\* All that is to be written is among the operations.
LEMMA AllOperations ==
  ASSUME NEW c \in AllChoices
  PROVE  /\ Operations(c) \in Seq(Operation) /\ Paired(Operations(c))
         /\ \A k \in Written(c) : ToWrite(Operations(c), k)
<1> DEFINE w(k) == [op |-> "write", kind |-> k]
           layers   == IF Layered(c) THEN <<w("fore"), w("back")>> ELSE <<>>
           orig     == IF Original(c) THEN <<w("orig")>> ELSE <<>>
           merged   == <<[op |-> "remove", kind |-> "layers"], w("out"),
                         [op |-> "remove", kind |-> "excluded"]>>
           mask     == IF Mixed(c) THEN <<w("mask")>> ELSE <<>>
           speckles == IF Speckled(c) THEN <<w("speckles")>> ELSE <<>>
<1>1. \A k \in Kinds : w(k) \in Operation
  BY DEF Operation
<1>2. /\ layers \in Seq(Operation) /\ Paired(layers)
      /\ Layered(c) => ToWrite(layers, "fore") /\ ToWrite(layers, "back")
  BY <1>1 DEF Kinds, Paired, ToWrite
<1>3. orig \in Seq(Operation) /\ Paired(orig) /\ (Original(c) => ToWrite(orig, "orig"))
  BY <1>1 DEF Kinds, Paired, ToWrite
<1>4. merged \in Seq(Operation) /\ Paired(merged) /\ ToWrite(merged, "out")
  BY <1>1 DEF Kinds, Paired, ToWrite, Operation
<1>5. mask \in Seq(Operation) /\ Paired(mask) /\ (Mixed(c) => ToWrite(mask, "mask"))
  BY <1>1 DEF Kinds, Paired, ToWrite
<1>6. /\ speckles \in Seq(Operation) /\ Paired(speckles)
      /\ Speckled(c) => ToWrite(speckles, "speckles")
  BY <1>1 DEF Kinds, Paired, ToWrite
<1>7. Operations(c) = layers \o orig \o merged \o mask \o speckles
  BY DEF Operations
<1> HIDE DEF layers, orig, merged, mask, speckles
<1>8. /\ layers \o orig \in Seq(Operation) /\ Paired(layers \o orig)
      /\ \A k : ToWrite(layers, k) \/ ToWrite(orig, k) => ToWrite(layers \o orig, k)
  BY <1>2, <1>3, ConcatOperations
<1> DEFINE s1 == layers \o orig
           s2 == s1 \o merged
           s3 == s2 \o mask
           s4 == s3 \o speckles
<1>9. s1 \in Seq(Operation) /\ Paired(s1) /\ \A k : ToWrite(layers, k) \/ ToWrite(orig, k) => ToWrite(s1, k)
  BY <1>8
<1> HIDE DEF s1
<1>10. s2 \in Seq(Operation) /\ Paired(s2) /\ \A k : ToWrite(s1, k) \/ ToWrite(merged, k) => ToWrite(s2, k)
  BY <1>9, <1>4, ConcatOperations
<1> HIDE DEF s2
<1>11. s3 \in Seq(Operation) /\ Paired(s3) /\ \A k : ToWrite(s2, k) \/ ToWrite(mask, k) => ToWrite(s3, k)
  BY <1>10, <1>5, ConcatOperations
<1> HIDE DEF s3
<1>12. s4 \in Seq(Operation) /\ Paired(s4) /\ \A k : ToWrite(s3, k) \/ ToWrite(speckles, k) => ToWrite(s4, k)
  BY <1>11, <1>6, ConcatOperations
<1>13. Operations(c) = s4
  BY <1>7 DEF s1, s2, s3
<1> HIDE DEF s4
<1>14. \A k \in Written(c) : ToWrite(s4, k)
  BY <1>2, <1>3, <1>4, <1>5, <1>6, <1>9, <1>10, <1>11, <1>12 DEF Written
<1> QED BY <1>12, <1>13, <1>14

\* One operation less.
LEMMA TailOperations ==
  ASSUME NEW q \in Seq(Operation), q # <<>>, Paired(q)
  PROVE  /\ Tail(q) \in Seq(Operation) /\ Paired(Tail(q)) /\ Head(q) \in Operation
         /\ Head(q).op = "write" /\ Head(q).kind \in {"fore", "out"} => Tail(q) # <<>>
         /\ \A k : ToWrite(q, k) => Head(q) = [op |-> "write", kind |-> k] \/ ToWrite(Tail(q), k)
<1> DEFINE r == Tail(q)
<1>1. /\ Len(q) \in Nat /\ Len(q) > 0 /\ r \in Seq(Operation) /\ Len(r) = Len(q) - 1
      /\ \A i \in 1..Len(r) : r[i] = q[i + 1]
      /\ Head(q) = q[1] /\ q[1] \in Operation
  BY HeadTailProperties, EmptySeq, LenProperties
<1> HIDE DEF r
<1>2. Paired(r)
  <2>1. \A i \in 1..Len(r) : i + 1 \in 1..Len(q) /\ (i + 1 < Len(q) => i < Len(r))
    BY <1>1
  <2> QED BY <1>1, <2>1 DEF Paired
<1>3. Head(q).op = "write" /\ Head(q).kind \in {"fore", "out"} => r # <<>>
  BY <1>1, EmptySeq DEF Paired
<1>4. ASSUME NEW k, NEW j \in 1..Len(q), q[j] = [op |-> "write", kind |-> k], j # 1
      PROVE  ToWrite(r, k)
  <2>1. j - 1 \in 1..Len(r) /\ r[j - 1] = q[j]
    BY <1>1, <1>4
  <2> QED BY <1>4, <2>1 DEF ToWrite
<1>5. \A k : ToWrite(q, k) => Head(q) = [op |-> "write", kind |-> k] \/ ToWrite(r, k)
  BY <1>1, <1>4 DEF ToWrite
<1> QED BY <1>1, <1>2, <1>3, <1>5 DEF r
-----------------------------------------------------------------------------
(* Files and what is stored of them.                                       *)

\* The program ends, and starts from what was saved.
LEMMA RestartInv == ASSUME Inv, Restarted, UNCHANGED <<saved, loads>> PROVE Inv'
<1>1. /\ DOMAIN tasks' = {} /\ project' = saved.project /\ raced' = saved.raced
      /\ meddled' = {} /\ current' = NoPage
      /\ chosen' = [p \in Pages |-> ChoiceOf(saved.project.params[p], saved.project.found[p])]
  BY DEF Restarted
<1>2. tasks' \in [DOMAIN tasks' -> Task]
  BY <1>1 DEF Restarted
<1>3. files' \in [Pages -> [Kinds -> Content]]
  <2>1. \A p \in Pages, k \in Kinds : files[p][k] \in Content
    BY DEF Inv, Typed
  <2>2. Torn \in Content
    BY DEF Content
  <2> HIDE DEF Content
  <2> QED BY <2>1, <2>2 DEF Restarted
<1>4. Typed'
  <2>1. saved.project \in Project /\ saved.raced \subseteq Pages
    BY DEF Inv, Typed
  <2> QED BY <1>1, <1>2, <1>3, <2>1 DEF Inv, Typed
<1>5. ChoicesKept'
  BY <1>1 DEF ChoicesKept
<1>6. StoredTrue(project, raced)' /\ StoredTrue(saved.project, saved.raced)'
  BY <1>1 DEF Inv
<1> QED BY <1>1, <1>4, <1>5, <1>6 DEF Inv

\* A task whose files are good ends, or goes on to generate, or the program ends.
LEMMA LoadFilesInv == ASSUME Inv, NEW t \in DOMAIN tasks, LoadFiles(t) PROVE Inv'
<1> DEFINE task == tasks[t]
           new  == [task EXCEPT !.pc = "generate"]
<1>1. /\ task \in Task /\ task.page \in Pages
      /\ Planned(task) /\ project \in Project
      /\ task.alone => Reads(task)
  BY TaskInv DEF Inv, Typed
<1>2. CASE Restarted /\ UNCHANGED <<saved, loads>>
  BY <1>2, RestartInv
<1>3. SUFFICES ASSUME UNCHANGED <<project, files, raced, saved, current, loads, chosen, meddled>>,
                      task.pc = "load", Ended(t) \/ Moved(t, new)
               PROVE  Inv'
  BY <1>2 DEF LoadFiles, Others
<1>4. CASE Ended(t)
  BY <1>1, <1>3, <1>4, EndInv DEF Inv, Typed
<1>5. CASE Moved(t, new)
  <2>1. new \in Task
    BY <1>1 DEF Task
  <2>2. /\ new.page = task.page /\ new.alone = task.alone /\ new.pc = "generate"
        /\ new.todo = task.todo /\ new.first = task.first /\ new.wanted = task.wanted
    BY <1>1 DEF Task
  <2> HIDE DEF new
  <2>3. /\ DOMAIN tasks' = DOMAIN tasks /\ tasks' \in [DOMAIN tasks -> Task]
        /\ tasks'[t] = new
        /\ \A u \in DOMAIN tasks \ {t} : tasks'[u] = tasks[u]
    BY <1>5, <2>1, OneMoves
  <2>4. Planned(tasks[t])'
    BY <1>1, <1>3, <2>2, <2>3 DEF Planned
  <2>5. Copied(tasks[t])'
    BY <2>2, <2>3 DEF Copied
  <2>6. task.alone => Progresses(t)'
    BY <2>2, <2>3 DEF Progresses, Saving
  <2>7. task.alone => Reads(tasks[t])'
    BY <1>1, <1>3, <2>2, <2>3 DEF Reads, Generating, Saving
  <2>8. ChoicesStay
    BY <1>3 DEF ChoicesStay
  <2>9. files' \in [Pages -> [Kinds -> Content]] /\ project' \in Project
    BY <1>3 DEF Inv, Typed
  <2> QED BY <1>3, <2>2, <2>3, <2>4, <2>5, <2>6, <2>7, <2>8, <2>9, WorkInv
<1> QED BY <1>3, <1>4, <1>5

\* A model is stored with the settings read last, and the operations on the
\* files are laid out; a page without the layers wanted ends the program.
LEMMA SaveInv == ASSUME Inv, NEW t \in DOMAIN tasks, Save(t) PROVE Inv'
<1> DEFINE task   == tasks[t]
           p      == task.page
           model  == task.copy.choice.dewarp # "off" /\ task.model
           params == IF model THEN [task.copy EXCEPT !.model = TRUE] ELSE project.params[p]
           wanted == Refreshed(task, model, params, project.found[p])
           todo   == Operations(task.first.choice)
           new    == [task EXCEPT !.pc = "write", !.todo = todo, !.wanted = wanted]
<1>1. /\ task \in Task /\ p \in Pages
      /\ Copied(task) /\ project \in Project
      /\ task.alone => Reads(task)
  BY TaskInv DEF Inv, Typed
<1>2. /\ task.pc = IF task.model THEN "save" ELSE "reread"
      /\ \/ /\ project' = [project EXCEPT !.params[p] = params]
            /\ Moved(t, new)
            /\ UNCHANGED <<files, raced, saved, current, loads, chosen, meddled>>
         \/ Restarted /\ UNCHANGED <<saved, loads>>
  BY DEF Save, Others, PageOf
<1>3. CASE Restarted /\ UNCHANGED <<saved, loads>>
  BY <1>3, RestartInv
<1>4. CASE /\ project' = [project EXCEPT !.params[p] = params]
           /\ Moved(t, new)
           /\ UNCHANGED <<files, raced, saved, current, loads, chosen, meddled>>
  <2>1. /\ task.copy \in Params /\ project.params[p] \in Params /\ project.found[p] \in Found
        /\ project.zones[p] \in BOOLEAN
        /\ task.wanted \in Wish /\ task.first \in Params /\ task.model \in BOOLEAN
        /\ task.zones \in BOOLEAN /\ task.first.choice \in AllChoices
    BY <1>1, TaskFacts, ProjectFacts DEF Params
  <2>2. /\ params \in Params
        /\ model => /\ params.choice = task.copy.choice /\ params.inverted = task.copy.inverted
                    /\ params.model
        /\ ~model => params = project.params[p]
    <3>1. CASE model
      BY <2>1, <3>1 DEF Params
    <3>2. CASE ~model
      BY <2>1, <3>2
    <3> QED BY <3>1, <3>2
  <2>3. model \in BOOLEAN /\ (model => task.pc = "save" /\ task.copy.choice.dewarp # "off")
    BY <1>2
  <2>4. task.pc \in {"save", "reread"} /\ (task.copy.choice.dewarp # "off" /\ task.pc = "save" => model)
    BY <1>2
  <2> HIDE DEF model, params
  <2>5. /\ wanted \in Wish /\ wanted.choice = task.wanted.choice
        /\ wanted.inverted = params.inverted /\ wanted.found = project.found[p]
        /\ wanted.zones = task.zones /\ wanted.model = (task.wanted.model \/ model)
    BY <2>1, <2>2, <2>3 DEF Refreshed, Wish, Params
  <2>6. /\ todo \in Seq(Operation) /\ Paired(todo)
        /\ \A k \in Written(task.first.choice) : ToWrite(todo, k)
    BY <2>1, AllOperations
  <2> HIDE DEF wanted, todo
  <2>7. new \in Task
    <3> HIDE DEF Wish, Operation
    <3> QED BY <1>1, <2>5, <2>6 DEF Task, Saving
  <2>8. /\ new.page = p /\ new.alone = task.alone /\ new.pc = "write" /\ new.todo = todo
        /\ new.first = task.first /\ new.wanted = wanted /\ new.image = task.image
    BY <1>1 DEF Task
  <2> HIDE DEF new
  <2>9. /\ DOMAIN tasks' = DOMAIN tasks /\ tasks' \in [DOMAIN tasks -> Task]
        /\ tasks'[t] = new
        /\ \A u \in DOMAIN tasks \ {t} : tasks'[u] = tasks[u]
    BY <1>4, <2>7, OneMoves
  <2>10. /\ project' \in Project /\ project'.params[p] = params
         /\ \A q \in Pages \ {p} : project'.params[q] = project.params[q]
         /\ project'.found = project.found /\ project'.zones = project.zones
         /\ project'.stored = project.stored
    BY <1>1, <1>4, <2>2, PutParams
  <2>11. Planned(tasks[t])'
    BY <2>6, <2>8, <2>9 DEF Planned
  <2>12. Copied(tasks[t])'
    BY <2>8, <2>9 DEF Copied
  <2>13. Progresses(t)'
    BY <2>6, <2>8, <2>9 DEF Progresses
  <2>14. ASSUME task.alone PROVE Reads(tasks[t])'
    <3> DEFINE now == project.params[p]
    <3>1. /\ task.first.choice = now.choice /\ task.first.model = now.model
          /\ task.wanted.choice = now.choice /\ task.wanted.model = now.model
          /\ task.copy = now /\ task.zones = project.zones[p] /\ task.image = Image(now)
      BY <1>1, <2>4, <2>14 DEF Reads, Generating, Saving
    <3>2. params.choice = now.choice /\ params.inverted = now.inverted
      BY <2>2, <3>1
    <3>3. Image(params) = Image(now)
      BY <3>2 DEF Image
    <3>4. wanted.model = params.model
      <4>1. CASE model
        BY <2>1, <2>2, <2>5, <4>1 DEF Params, Wish
      <4>2. CASE ~model
        BY <2>1, <2>2, <2>5, <3>1, <4>2 DEF Params, Wish
      <4> QED BY <4>1, <4>2
    <3>5. Matches(wanted, Wanted(params, project.found[p], project.zones[p]))
      BY <2>5, <3>1, <3>2, <3>4 DEF Matches, Wanted
    <3> HIDE DEF now
    <3> QED BY <2>5, <2>8, <2>9, <2>10, <3>1, <3>2, <3>3, <3>5 DEF Reads, Generating, Saving
  <2>15. ChoicesStay
    <3>1. ASSUME p \notin meddled
          PROVE  /\ params.choice = project.params[p].choice
                 /\ project.found[p].setByHand => params.inverted = project.params[p].inverted
      BY <1>1, <2>2, <2>3, <3>1 DEF Copied
    <3> QED BY <2>10, <3>1 DEF ChoicesStay
  <2>16. files' \in [Pages -> [Kinds -> Content]]
    BY <1>4 DEF Inv, Typed
  <2> QED BY <1>4, <2>8, <2>9, <2>10, <2>11, <2>12, <2>13, <2>14, <2>15, <2>16, WorkInv
<1> QED BY <1>2, <1>3, <1>4

\* A task that works on its files changes nothing else.
LEMMA FilesInv ==
  ASSUME Inv, NEW t \in DOMAIN tasks, NEW new \in Task, Moved(t, new),
         tasks[t].pc \in Saving, new.pc \in Saving, new.page = tasks[t].page,
         new.alone = tasks[t].alone, new.first = tasks[t].first,
         new.wanted = tasks[t].wanted, new.image = tasks[t].image, Planned(new),
         UNCHANGED <<project, raced, saved, current, loads, chosen, meddled>>,
         files' \in [Pages -> [Kinds -> Content]],
         tasks[t].alone => Progresses(t)'
  PROVE  Inv'
<1>1. /\ DOMAIN tasks' = DOMAIN tasks /\ tasks' \in [DOMAIN tasks -> Task]
      /\ tasks'[t] = new
      /\ \A u \in DOMAIN tasks \ {t} : tasks'[u] = tasks[u]
  BY OneMoves
<1>2. Planned(tasks[t])'
  BY <1>1 DEF Planned, Paired
<1>3. Copied(tasks[t])'
  BY <1>1 DEF Copied, Saving
<1>4. ASSUME tasks[t].alone PROVE Reads(tasks[t])'
  <2>1. Reads(tasks[t])
    BY <1>4, TaskInv
  <2> QED BY <1>1, <2>1 DEF Reads, Generating, Saving
<1>5. ChoicesStay /\ project' \in Project /\ project'.stored = project.stored
  BY DEF ChoicesStay, Inv, Typed
<1> QED BY <1>1, <1>2, <1>3, <1>4, <1>5, WorkInv

\* The first operation.
LEMMA HeadToWrite ==
  ASSUME NEW q \in Seq(Operation), q # <<>>, Head(q).op = "write"
  PROVE  /\ Head(q).kind \in Kinds
         /\ Head(q) = [op |-> "write", kind |-> Head(q).kind]
         /\ ToWrite(q, Head(q).kind)
<1>1. Head(q) \in Operation /\ Head(q) = q[1] /\ 1 \in 1..Len(q)
  BY HeadTailProperties, EmptySeq, LenProperties
<1>2. Head(q).kind \in Kinds /\ Head(q) = [op |-> "write", kind |-> Head(q).kind]
  BY <1>1 DEF Operation
<1> QED BY <1>1, <1>2 DEF ToWrite

\* A file that is open is not absent.
LEMMA OpenedIsThere == \A t : Opened(t) # Absent
<1> SUFFICES ASSUME NEW t, Opened(t) = Absent PROVE FALSE
  OBVIOUS
<1>1. "by" \in DOMAIN Opened(t) /\ DOMAIN Absent = {"is"}
  BY DEF Opened, Absent
<1> QED BY <1>1

\* One file of a page.
LEMMA PutFile ==
  ASSUME Inv, NEW p \in Pages, NEW k \in Kinds, NEW content \in Content, Holds(p, k, content)
  PROVE  /\ files' \in [Pages -> [Kinds -> Content]]
         /\ files'[p][k] = content
         /\ \A j \in Kinds \ {k} : files'[p][j] = files[p][j]
<1> HIDE DEF Content, Kinds
<1> QED BY DEF Holds, Inv, Typed

\* What a choice writes are files the stage knows.
LEMMA WrittenAreKinds == \A c : Written(c) \subseteq Kinds
BY DEF Written, Kinds

\* A task alone has the file it opens as its next one to close.
LEMMA OpenFileInv == ASSUME Inv, NEW t \in DOMAIN tasks, OpenFile(t) PROVE Inv'
<1> DEFINE task == tasks[t]
           k    == Head(task.todo).kind
           new  == [task EXCEPT !.pc = "close"]
<1>1. /\ task \in Task /\ task.page \in Pages /\ task.todo \in Seq(Operation)
      /\ Planned(task)
      /\ task.alone => Progresses(t)
  BY TaskInv, TaskFacts
<1>2. /\ task.pc = "write" /\ task.todo # <<>> /\ Head(task.todo).op = "write"
      /\ Holds(task.page, k, Opened(t)) /\ Moved(t, new)
      /\ UNCHANGED <<project, raced, saved, current, loads, chosen, meddled>>
  BY DEF OpenFile, Others
<1>3. k \in Kinds /\ ToWrite(task.todo, k)
  BY <1>1, <1>2, HeadToWrite
<1>4. Opened(t) \in Content
  BY DEF Content, Inv, Typed
<1>5. /\ files' \in [Pages -> [Kinds -> Content]]
      /\ files'[task.page][k] = Opened(t)
      /\ \A j \in Kinds \ {k} : files'[task.page][j] = files[task.page][j]
  BY <1>1, <1>2, <1>3, <1>4, PutFile
<1>6. /\ new \in Task
      /\ new.page = task.page /\ new.alone = task.alone /\ new.pc = "close"
      /\ new.todo = task.todo /\ new.first = task.first /\ new.wanted = task.wanted
      /\ new.image = task.image /\ new.valid = task.valid
  BY <1>1 DEF Task, Saving
<1> HIDE DEF new
<1>7. Planned(new)
  BY <1>1, <1>2, <1>6 DEF Planned
<1>8. tasks'[t] = new
  BY <1>2, <1>6, OneMoves
<1>9. ASSUME task.alone PROVE Progresses(t)'
  <2>1. Progresses(t)
    BY <1>1, <1>9
  <2> QED BY <1>2, <1>3, <1>5, <1>6, <1>8, <2>1, WrittenAreKinds DEF Progresses, Saving
<1>10. task.pc \in Saving /\ new.pc \in Saving
  BY <1>2, <1>6 DEF Saving
<1> QED BY <1>2, <1>5, <1>6, <1>7, <1>9, <1>10, FilesInv

\* A file that a task alone closes holds its image.
LEMMA CloseFileInv == ASSUME Inv, NEW t \in DOMAIN tasks, CloseFile(t) PROVE Inv'
<1> DEFINE task == tasks[t]
           k    == Head(task.todo).kind
           now  == files[task.page][k]
           new  == [task EXCEPT !.pc = "write", !.todo = Tail(@)]
<1>1. /\ task \in Task /\ task.page \in Pages /\ task.todo \in Seq(Operation)
      /\ task.image \in Images
      /\ Planned(task)
      /\ task.alone => Progresses(t)
  BY TaskInv, TaskFacts
<1>2. /\ task.pc = "close" /\ Moved(t, new)
      /\ UNCHANGED <<project, raced, saved, current, loads, chosen, meddled>>
  BY DEF CloseFile, Others
<1>3. PICK content \in IF now = Absent THEN {Absent} ELSE
                       {task.image} \cup {c \in {Torn} : now # Opened(t)} :
        Holds(task.page, k, content)
  BY DEF CloseFile
<1>4. task.todo # <<>> /\ Head(task.todo).op = "write"
  BY <1>1, <1>2 DEF Planned
<1>5. /\ k \in Kinds /\ Head(task.todo) = [op |-> "write", kind |-> k]
      /\ Tail(task.todo) \in Seq(Operation) /\ Paired(Tail(task.todo))
      /\ \A j : ToWrite(task.todo, j) => j = k \/ ToWrite(Tail(task.todo), j)
  <2>1. Paired(task.todo)
    BY <1>1 DEF Planned
  <2>2. /\ Head(task.todo).kind \in Kinds
        /\ Head(task.todo) = [op |-> "write", kind |-> Head(task.todo).kind]
    BY <1>1, <1>4, HeadToWrite
  <2>3. /\ Tail(task.todo) \in Seq(Operation) /\ Paired(Tail(task.todo))
        /\ \A j : ToWrite(task.todo, j) => Head(task.todo) = [op |-> "write", kind |-> j]
                                           \/ ToWrite(Tail(task.todo), j)
    BY <1>1, <1>4, <2>1, TailOperations
  <2>4. \A j : [op |-> "write", kind |-> k] = [op |-> "write", kind |-> j] => j = k
    OBVIOUS
  <2> QED BY <2>2, <2>3, <2>4
<1>6. content \in Content
  BY <1>1, <1>3 DEF Content
<1>7. /\ files' \in [Pages -> [Kinds -> Content]]
      /\ files'[task.page][k] = content
      /\ \A j \in Kinds \ {k} : files'[task.page][j] = files[task.page][j]
  BY <1>1, <1>3, <1>5, <1>6, PutFile
<1>8. /\ new \in Task
      /\ new.page = task.page /\ new.alone = task.alone /\ new.pc = "write"
      /\ new.todo = Tail(task.todo) /\ new.first = task.first /\ new.wanted = task.wanted
      /\ new.image = task.image /\ new.valid = task.valid
  <2> DEFINE rest == Tail(task.todo)
  <2>1. new = [task EXCEPT !.pc = "write", !.todo = rest]
    BY <1>1
  <2>2. rest \in Seq(Operation)
    BY <1>5
  <2> HIDE DEF rest, new, Operation
  <2> QED BY <1>1, <2>1, <2>2 DEF Task, Saving, rest
<1> HIDE DEF new
<1>9. Planned(new)
  BY <1>5, <1>8 DEF Planned
<1>10. tasks'[t] = new
  BY <1>2, <1>8, OneMoves
<1>11. ASSUME task.alone PROVE Progresses(t)'
  <2>1. Progresses(t)
    BY <1>1, <1>11
  <2>2. now = Opened(t)
    BY <1>2, <2>1 DEF Progresses, Saving
  <2>3. content = task.image
    BY <1>3, <2>2, OpenedIsThere
  <2> QED BY <1>2, <1>5, <1>7, <1>8, <1>10, <2>1, <2>3, WrittenAreKinds DEF Progresses, Saving
<1>12. task.pc \in Saving /\ new.pc \in Saving
  BY <1>2, <1>8 DEF Saving
<1> QED BY <1>2, <1>7, <1>8, <1>9, <1>11, <1>12, FilesInv

\* A task that failed to write a file is not valid: it stores no OutputParams.
LEMMA FailToWriteInv == ASSUME Inv, NEW t \in DOMAIN tasks, FailToWrite(t) PROVE Inv'
<1> DEFINE task == tasks[t]
           op   == Head(task.todo)
           rest == Tail(task.todo)
           todo == IF op.kind \in {"fore", "out"} THEN Tail(rest) ELSE rest
           new  == [task EXCEPT !.pc = "write", !.valid = FALSE, !.todo = todo]
<1>1. /\ task \in Task /\ task.page \in Pages /\ task.todo \in Seq(Operation)
      /\ Planned(task)
  BY TaskInv, TaskFacts
<1>2. /\ task.todo # <<>> /\ op.op = "write" /\ Moved(t, new)
      /\ task.pc \in Saving
      /\ UNCHANGED <<project, raced, saved, current, loads, chosen, meddled>>
      /\ UNCHANGED files \/ Holds(task.page, op.kind, Absent)
  BY DEF FailToWrite, Saving
<1>3. op.kind \in Kinds
  BY <1>1, <1>2, HeadToWrite
<1>4. todo \in Seq(Operation) /\ Paired(todo)
  <2>1. Paired(task.todo)
    BY <1>1 DEF Planned
  <2>2. /\ rest \in Seq(Operation) /\ Paired(rest)
        /\ op.kind \in {"fore", "out"} => rest # <<>>
    BY <1>1, <1>2, <2>1, TailOperations
  <2> HIDE DEF rest, op
  <2>3. CASE op.kind \in {"fore", "out"}
    BY <2>2, <2>3, TailOperations
  <2>4. CASE op.kind \notin {"fore", "out"}
    BY <2>2, <2>4
  <2> QED BY <2>3, <2>4
<1> HIDE DEF todo
<1>5. files' \in [Pages -> [Kinds -> Content]]
  <2>1. CASE UNCHANGED files
    BY <2>1 DEF Inv, Typed
  <2>2. CASE Holds(task.page, op.kind, Absent)
    <3>1. Absent \in Content
      BY DEF Content
    <3> QED BY <1>1, <1>3, <2>2, <3>1, PutFile
  <2> QED BY <1>2, <2>1, <2>2
<1>6. /\ new \in Task
      /\ new.page = task.page /\ new.alone = task.alone /\ new.pc = "write"
      /\ new.todo = todo /\ new.first = task.first /\ new.wanted = task.wanted
      /\ new.image = task.image /\ ~new.valid
  <2> HIDE DEF Operation
  <2> QED BY <1>1, <1>4 DEF Task, Saving
<1> HIDE DEF new
<1>7. Planned(new)
  BY <1>4, <1>6 DEF Planned
<1>8. tasks'[t] = new
  BY <1>2, <1>6, OneMoves
<1>9. Progresses(t)'
  BY <1>6, <1>8 DEF Progresses
<1>10. new.pc \in Saving
  BY <1>6 DEF Saving
<1> QED BY <1>2, <1>5, <1>6, <1>7, <1>9, <1>10, FilesInv

\* A task alone removes none of the files that its choice writes.
LEMMA RemoveFilesInv == ASSUME Inv, NEW t \in DOMAIN tasks, RemoveFiles(t) PROVE Inv'
<1> DEFINE task == tasks[t]
           c    == task.first.choice
           gone(p, k) == IF Head(task.todo).kind = "excluded" THEN p # task.page /\ k = "out"
                         ELSE p = task.page /\ k \in {"fore", "back", "orig"} \ Written(c)
           rest == Tail(task.todo)
           new  == [task EXCEPT !.todo = rest]
<1>1. /\ task \in Task /\ task.page \in Pages /\ task.todo \in Seq(Operation)
      /\ Planned(task)
      /\ task.alone => Progresses(t)
  BY TaskInv, TaskFacts
<1>2. /\ task.pc = "write" /\ task.todo # <<>> /\ Head(task.todo).op = "remove"
      /\ files' = [p \in Pages |-> [k \in Kinds |-> IF gone(p, k) THEN Absent ELSE files[p][k]]]
      /\ UNCHANGED <<project, raced, saved, current, loads, chosen, meddled>>
  BY DEF RemoveFiles, Others
<1>3. Moved(t, new)
  BY DEF RemoveFiles
<1>4. /\ rest \in Seq(Operation) /\ Paired(rest)
      /\ \A k : ToWrite(task.todo, k) => ToWrite(rest, k)
  <2>1. Paired(task.todo)
    BY <1>1 DEF Planned
  <2>2. /\ rest \in Seq(Operation) /\ Paired(rest)
        /\ \A k : ToWrite(task.todo, k) => Head(task.todo) = [op |-> "write", kind |-> k]
                                           \/ ToWrite(rest, k)
    BY <1>1, <1>2, <2>1, TailOperations
  <2>3. \A k : Head(task.todo) # [op |-> "write", kind |-> k]
    BY <1>2
  <2> QED BY <2>2, <2>3
<1> HIDE DEF rest
<1>5. files' \in [Pages -> [Kinds -> Content]]
  <2>1. Absent \in Content /\ \A p \in Pages, k \in Kinds : files[p][k] \in Content
    BY DEF Content, Inv, Typed
  <2> HIDE DEF Content, gone
  <2> QED BY <1>2, <2>1

\* No file of its own that it has written.
<1>6. \A k \in Written(c) : files'[task.page][k] = files[task.page][k]
  <2>1. \A k \in Written(c) : k \in Kinds /\ ~gone(task.page, k)
    BY WrittenAreKinds
  <2> HIDE DEF gone
  <2> QED BY <1>1, <1>2, <2>1
<1>7. /\ new \in Task
      /\ new.page = task.page /\ new.alone = task.alone /\ new.pc = "write"
      /\ new.todo = rest /\ new.first = task.first /\ new.wanted = task.wanted
      /\ new.image = task.image /\ new.valid = task.valid
  <2>1. task.pc = "write"
    BY <1>2
  <2> HIDE DEF Operation
  <2> QED BY <1>1, <1>4, <2>1 DEF Task, Saving
<1> HIDE DEF new
<1>8. Planned(new)
  BY <1>4, <1>7 DEF Planned
<1>9. tasks'[t] = new
  BY <1>3, <1>7, OneMoves
<1>10. ASSUME task.alone PROVE Progresses(t)'
  <2>1. Progresses(t) /\ task.pc = "write"
    BY <1>1, <1>2, <1>10
  <2> QED BY <1>4, <1>6, <1>7, <1>9, <2>1 DEF Progresses, Saving
<1>11. task.pc \in Saving /\ new.pc \in Saving
  BY <1>2, <1>7 DEF Saving
<1> QED BY <1>2, <1>3, <1>5, <1>7, <1>8, <1>10, <1>11, FilesInv

\* An image is not an absent file.
LEMMA ImageIsThere == \A o : Image(o) # Absent
<1> SUFFICES ASSUME NEW o, Image(o) = Absent PROVE FALSE
  OBVIOUS
<1>1. "choice" \in DOMAIN Image(o) /\ DOMAIN Absent = {"is"}
  BY DEF Image, Absent
<1> QED BY <1>1

\* What a task stores; nobody having disturbed it and all files being written,
\* it is what the settings ask for and what the files hold.
LEMMA StoreFacts ==
  ASSUME Inv, NEW t \in DOMAIN tasks, Store(t)
  PROVE  LET task == tasks[t]
             p    == task.page
             now  == project.params[p]
             o    == project'.stored[p]
         IN /\ p \in Pages /\ project' \in Project
            /\ project'.params = project.params /\ project'.found = project.found
            /\ project'.zones = project.zones
            /\ \A q \in Pages \ {p} : project'.stored[q] = project.stored[q]
            /\ o # NoOutput => task.valid
            /\ task.alone /\ task.valid =>
                 /\ o # NoOutput
                 /\ Matches(o, Wanted(now, project.found[p], project.zones[p]))
                 /\ \A k \in Written(o.choice) : o.files[k] = Image(o) /\ files[p][k] = Image(o)
<1> DEFINE task == tasks[t]
           p    == task.page
           now  == project.params[p]
           sizes == [k \in Kinds |-> IF k \in Written(task.first.choice) THEN files[p][k] ELSE Absent]
           stored == [choice |-> task.wanted.choice, inverted |-> task.wanted.inverted,
                      model |-> task.wanted.model, found |-> task.wanted.found,
                      zones |-> task.wanted.zones, files |-> sizes]
           val  == IF task.valid THEN stored ELSE NoOutput
<1>1. /\ task \in Task /\ p \in Pages /\ project \in Project
      /\ task.wanted \in Wish /\ task.valid \in BOOLEAN
      /\ task.alone => Reads(task) /\ Progresses(t)
  BY TaskInv, TaskFacts DEF Inv, Typed
<1>2. /\ task.pc = "write" /\ task.todo = <<>>
      /\ project' = [project EXCEPT !.stored[p] = val]
  BY DEF Store, PageOf
<1>3. sizes \in [Kinds -> Content]
  <2>1. Absent \in Content /\ \A k \in Kinds : files[p][k] \in Content
    BY <1>1 DEF Content, Inv, Typed
  <2> HIDE DEF Content
  <2> QED BY <2>1
<1>4. /\ \A k \in Written(task.first.choice) : sizes[k] = files[p][k]
  BY WrittenAreKinds
<1> HIDE DEF sizes
<1>5. stored \in Output
  <2>1. /\ task.wanted.choice \in AllChoices /\ task.wanted.inverted \in BOOLEAN
        /\ task.wanted.model \in BOOLEAN /\ task.wanted.found \in Found
        /\ task.wanted.zones \in BOOLEAN
    BY <1>1 DEF Wish
  <2> HIDE DEF AllChoices, Found, Content
  <2> QED BY <1>3, <2>1 DEF Output
<1>6. /\ stored.choice = task.wanted.choice /\ stored.inverted = task.wanted.inverted
      /\ stored.model = task.wanted.model /\ stored.found = task.wanted.found
      /\ stored.zones = task.wanted.zones /\ stored.files = sizes
  OBVIOUS
<1> HIDE DEF stored
<1>7. stored # NoOutput
  BY <1>5, OutputIsSome
<1>8. val \in Output \cup {NoOutput} /\ (task.valid => val = stored) /\ (~task.valid => val = NoOutput)
  BY <1>1, <1>5
<1> HIDE DEF val
<1>9. /\ project' \in Project /\ project'.stored[p] = val
      /\ \A q \in Pages \ {p} : project'.stored[q] = project.stored[q]
      /\ project'.params = project.params /\ project'.zones = project.zones
      /\ project'.found = project.found
  BY <1>1, <1>2, <1>8, PutStored
<1>10. ASSUME task.alone, task.valid
       PROVE  /\ Matches(stored, Wanted(now, project.found[p], project.zones[p]))
              /\ \A k \in Written(stored.choice) :
                   stored.files[k] = Image(stored) /\ files[p][k] = Image(stored)
  <2>1. /\ task.first.choice = now.choice /\ task.wanted.choice = now.choice
        /\ task.image = Image(now)
        /\ Matches(task.wanted, Wanted(now, project.found[p], project.zones[p]))
    <3>1. Reads(task)
      BY <1>1, <1>10
    <3> QED BY <1>2, <3>1 DEF Reads, Generating, Saving
  <2>2. \A k \in Written(task.first.choice) : files[p][k] = task.image
    <3>1. Progresses(t)
      BY <1>1, <1>10
    <3>2. \A k : ~ToWrite(<<>>, k)
      BY DEF ToWrite
    <3> QED BY <1>2, <1>10, <3>1, <3>2 DEF Progresses, Saving
  <2>3. Matches(stored, Wanted(now, project.found[p], project.zones[p]))
    BY <1>6, <2>1 DEF Matches
  <2>4. Image(stored) = Image(now)
    BY <1>6, <2>1 DEF Matches, Wanted, Image
  <2> QED BY <1>4, <1>6, <2>1, <2>2, <2>3, <2>4
<1> QED BY <1>1, <1>7, <1>8, <1>9, <1>10

\* Stored OutputParams describe the files, unless another task was there.
LEMMA StoreInv == ASSUME Inv, NEW t \in DOMAIN tasks, Store(t) PROVE Inv'
<1> DEFINE task == tasks[t]
           p    == task.page
           o    == project'.stored[p]
<1>1. /\ p \in Pages /\ project' \in Project
      /\ project'.params = project.params /\ project'.found = project.found
      /\ \A q \in Pages \ {p} : project'.stored[q] = project.stored[q]
      /\ o # NoOutput => task.valid
      /\ task.alone /\ task.valid => \A k \in Written(o.choice) : o.files[k] = Image(o)
  BY StoreFacts
<1>2. /\ raced' = IF task.alone THEN raced \ {p} ELSE raced \cup {p}
      /\ Ended(t)
      /\ UNCHANGED <<files, saved, current, loads, chosen, meddled>>
  BY DEF Store, Others, PageOf
<1>3. raced' \subseteq Pages
  BY <1>1, <1>2 DEF Inv, Typed
<1>4. ASSUME NEW q \in Pages \ raced', project'.stored[q] # NoOutput,
             NEW k \in Written(project'.stored[q].choice)
      PROVE  project'.stored[q].files[k] = Image(project'.stored[q])
  <2>1. CASE q = p
    BY <1>1, <1>2, <1>4, <2>1
  <2>2. CASE q # p
    BY <1>1, <1>2, <1>4, <2>2 DEF Inv, StoredTrue
  <2> QED BY <2>1, <2>2
<1>5. StoredTrue(project', raced')
  BY <1>4 DEF StoredTrue
<1> QED BY <1>1, <1>2, <1>3, <1>5, EndInv

\* A step of any task.
LEMMA WorksInv == ASSUME Inv, NEW t \in DOMAIN tasks, Works(t) PROVE Inv'
BY StartInv, DecideInv, LoadFilesInv, GenerateInv, UpdateInv, FindZonesInv, DewarpInv,
   RereadInv, SaveInv, OpenFileInv, CloseFileInv, FailToWriteInv, RemoveFilesInv, StoreInv,
   DropInv DEF Works
-----------------------------------------------------------------------------
(* The user.                                                               *)

\* What a task that is cancelled, or has company now, goes on with.
Carried(t) ==
  /\ t \in DOMAIN tasks
  /\ tasks'[t].page = tasks[t].page /\ tasks'[t].pc = tasks[t].pc
  /\ tasks'[t].copy = tasks[t].copy /\ tasks'[t].found = tasks[t].found
  /\ tasks'[t].todo = tasks[t].todo

\* All tasks are those there were, or begin, and the only one that may have its
\* page to itself begins.
Replaced ==
  /\ DOMAIN tasks' \subseteq Nat /\ tasks' \in [DOMAIN tasks' -> Task]
  /\ loads' \in Nat /\ current' \in Pages \cup {NoPage}
  /\ \A t \in DOMAIN tasks' :
       /\ tasks'[t].pc = "start" \/ Carried(t)
       /\ Planned(tasks'[t])
       /\ tasks'[t].alone => tasks'[t].pc = "start" /\ DOMAIN tasks' = {t}

\* The interactive task that loads a page takes the place of the one before.
LEMMA LoadReplaces ==
  ASSUME Inv, NEW p \in Pages, NEW batch \in BOOLEAN, Load(p, batch)
  PROVE  Replaced
<1> DEFINE n     == loads + 1
           old   == [t \in DOMAIN tasks |-> [tasks[t] EXCEPT !.cancelled = TRUE, !.alone = FALSE]]
           begun == NewTask(p, batch, DOMAIN tasks = {})
<1>1. /\ loads' = n /\ current' = IF batch THEN NoPage ELSE p
      /\ tasks' = [t \in DOMAIN tasks \cup {n} |-> IF t = n THEN begun ELSE old[t]]
  BY DEF Load
<1>2. /\ n \in Nat /\ DOMAIN tasks \subseteq Nat
      /\ \A t \in DOMAIN tasks : tasks[t] \in Task /\ Planned(tasks[t])
  BY DEF Inv, Typed
<1>3. /\ begun \in Task /\ begun.pc = "start" /\ begun.todo = <<>>
      /\ begun.alone = (DOMAIN tasks = {})
  <2>1. Default \in Params /\ NotFound \in Found
    BY DEF Default, NotFound, Params, Found, AllChoices
  <2>2. Image(Default) \in Images /\ Wanted(Default, NotFound, FALSE) \in Wish
    BY <2>1 DEF Image, Images, Wanted, Wish, Params
  <2> DEFINE image == Image(Default)
             wanted == Wanted(Default, NotFound, FALSE)
             alone == DOMAIN tasks = {}
  <2>3. begun = [page |-> p, batch |-> batch, pc |-> "start", cancelled |-> FALSE,
                 alone |-> alone, first |-> Default, copy |-> Default, found |-> NotFound,
                 zones |-> FALSE, model |-> FALSE, image |-> image, wanted |-> wanted,
                 todo |-> <<>>, valid |-> TRUE]
    BY DEF NewTask
  <2>4. image \in Images /\ wanted \in Wish /\ alone \in BOOLEAN /\ <<>> \in Seq(Operation)
    BY <2>2, EmptySeq
  <2> HIDE DEF image, wanted, alone, begun, Operation, Default, NotFound, Params, Found, Images, Wish
  <2>5. begun \in Task /\ begun.pc = "start" /\ begun.todo = <<>> /\ begun.alone = alone
    BY <2>1, <2>3, <2>4 DEF Task
  <2> QED BY <2>5 DEF alone
<1>4. \A t \in DOMAIN tasks :
        /\ old[t] \in Task /\ ~old[t].alone
        /\ old[t].page = tasks[t].page /\ old[t].pc = tasks[t].pc
        /\ old[t].copy = tasks[t].copy /\ old[t].found = tasks[t].found
        /\ old[t].todo = tasks[t].todo
  BY <1>2 DEF Task
<1>5. Planned(begun) /\ \A t \in DOMAIN tasks : Planned(old[t])
  <2>1. Paired(<<>>)
    BY DEF Paired
  <2> HIDE DEF old, begun
  <2> QED BY <1>2, <1>3, <1>4, <2>1 DEF Planned
<1> HIDE DEF old, begun, n
<1>6. /\ DOMAIN tasks' = DOMAIN tasks \cup {n} /\ tasks'[n] = begun
      /\ \A t \in DOMAIN tasks \ {n} : tasks'[t] = old[t]
  BY <1>1
<1>7. tasks' \in [DOMAIN tasks' -> Task]
  BY <1>1, <1>3, <1>4
<1>8. ASSUME NEW t \in DOMAIN tasks'
      PROVE  /\ tasks'[t].pc = "start" \/ Carried(t)
             /\ Planned(tasks'[t])
             /\ tasks'[t].alone => tasks'[t].pc = "start" /\ DOMAIN tasks' = {t}
  <2>1. CASE t = n
    BY <1>3, <1>5, <1>6, <2>1
  <2>2. CASE t # n
    BY <1>4, <1>5, <1>6, <2>2 DEF Carried
  <2> QED BY <2>1, <2>2
<1>9. loads' \in Nat /\ current' \in Pages \cup {NoPage}
  BY <1>1, <1>2
<1> QED BY <1>2, <1>6, <1>7, <1>8, <1>9 DEF Replaced

\* Tasks are replaced, and the settings stay.
LEMMA ReplaceInv ==
  ASSUME Inv, Replaced,
         project' \in Project, project'.params = project.params,
         project'.found = project.found, project'.stored = project.stored,
         UNCHANGED <<saved, files, raced, chosen, meddled>>
  PROVE  Inv'
<1>1. Typed'
  BY DEF Inv, Typed, Replaced
<1>2. StoredTrue(project, raced)' /\ StoredTrue(saved.project, saved.raced)' /\ ChoicesKept'
  BY DEF Inv, StoredTrue, ChoicesKept
<1>3. ASSUME NEW t \in DOMAIN tasks'
      PROVE  Planned(tasks[t])' /\ Copied(tasks[t])' /\ Undisturbed(t)'
  <2>1. /\ tasks'[t].pc = "start" \/ Carried(t)
        /\ Planned(tasks'[t])
        /\ tasks'[t].alone => tasks'[t].pc = "start" /\ DOMAIN tasks' = {t}
    BY DEF Replaced
  <2>2. Planned(tasks[t])'
    BY <2>1 DEF Planned, Paired
  <2>3. Copied(tasks[t])'
    <3>1. CASE tasks'[t].pc = "start"
      BY <3>1 DEF Copied
    <3>2. CASE Carried(t)
      <4>1. Copied(tasks[t])
        BY <3>2 DEF Carried, Inv
      <4> QED BY <3>2, <4>1 DEF Carried, Copied
    <3> QED BY <2>1, <3>1, <3>2
  <2>4. Undisturbed(t)'
    BY <2>1 DEF Undisturbed, Reads, Progresses, Generating, Saving
  <2> QED BY <2>2, <2>3, <2>4
<1> QED BY <1>1, <1>2, <1>3 DEF Inv

\* Nothing happens.
LEMMA SameInv ==
  ASSUME Inv, UNCHANGED <<project, saved, files, current, tasks, raced, chosen, meddled, loads>>
  PROVE  Inv'
<1>1. Typed' /\ StoredTrue(saved'.project, saved'.raced) /\ StoredTrue(project', raced')
  BY DEF Inv, Typed
<1>2. ChoicesKept'
  BY DEF Inv, ChoicesKept
<1>3. \A t \in DOMAIN tasks' : Planned(tasks[t])' /\ Copied(tasks[t])' /\ Undisturbed(t)'
  BY DEF Inv, Planned, Paired, Copied, Undisturbed, Reads, Progresses, ToWrite
<1> QED BY <1>1, <1>2, <1>3 DEF Inv

\* Selecting a page loads it.
LEMMA SelectInv == ASSUME Inv, NEW p \in Pages, SelectPage(p) PROVE Inv'
<1>1. Replaced
  BY LoadReplaces DEF SelectPage
<1> QED BY <1>1, ReplaceInv DEF SelectPage, Inv, Typed

\* A page is loaded again after its task ended.
LEMMA ReloadInv == ASSUME Inv, Reload PROVE Inv'
<1>1. CASE current # NoPage
  <2>1. current \in Pages
    BY <1>1 DEF Inv, Typed
  <2>2. Replaced
    BY <1>1, <2>1, LoadReplaces DEF Reload
  <2> QED BY <2>2, ReplaceInv DEF Reload, Inv, Typed
<1>2. CASE current = NoPage
  <2>1. UNCHANGED <<project, saved, files, current, tasks, raced, chosen, meddled, loads>>
    BY <1>2 DEF Reload
  <2> QED BY <2>1, SameInv
<1> QED BY <1>1, <1>2

\* A new layout of the page starts new tasks and changes no settings of theirs.
LEMMA ChangeSplitInv == ASSUME Inv, ChangeSplit PROVE Inv'
<1>1. PageInstead \in Pages /\ Load(PageInstead, FALSE)
  BY DEF ChangeSplit, PageInstead, Pages
<1>2. Replaced
  BY <1>1, LoadReplaces
<1>3. /\ project' \in Project /\ project'.params = project.params
      /\ project'.found = project.found /\ project'.stored = project.stored
  <2>1. project' = [project EXCEPT !.halves = ~@] /\ project \in Project
    BY DEF ChangeSplit, Inv, Typed
  <2> QED BY <2>1 DEF Project
<1> QED BY <1>2, <1>3, ReplaceInv DEF ChangeSplit

\* The project file gets what the settings hold.
LEMMA SaveProjectInv == ASSUME Inv, SaveProject PROVE Inv'
<1>1. /\ saved' = [project |-> project, raced |-> raced]
      /\ UNCHANGED <<project, files, current, tasks, loads, raced, chosen, meddled>>
  BY DEF SaveProject
<1>2. Typed' /\ StoredTrue(saved'.project, saved'.raced) /\ StoredTrue(project', raced')
  BY <1>1 DEF Inv, Typed
<1>3. ChoicesKept'
  BY <1>1 DEF Inv, ChoicesKept
<1>4. \A t \in DOMAIN tasks' : Planned(tasks[t])' /\ Copied(tasks[t])' /\ Undisturbed(t)'
  BY <1>1 DEF Inv, Planned, Paired, Copied, Undisturbed, Reads, Progresses, ToWrite
<1> QED BY <1>2, <1>3, <1>4 DEF Inv

\* The user changes the settings of a page.  The copy of a task that is going to
\* write them back is out of date then, and the page one the user has changed in
\* between; no copy of another task is.
LEMMA ChangeKeeps ==
  ASSUME Inv, NEW p \in Pages, NEW what, NEW params \in Params, NEW found \in Found,
         Change(p, what, params, found),
         what # "dewarp" => params.choice.dewarp = project.params[p].choice.dewarp,
         what # "inverted" => found.setByHand = project.found[p].setByHand,
         \A t \in DOMAIN tasks' : tasks'[t].pc = "start" \/ Carried(t)
  PROVE  /\ project' \in Project /\ DOMAIN chosen' = Pages
         /\ project'.zones = project.zones
         /\ \A q \in Pages \ {p} : project'.params[q] = project.params[q]
                                   /\ project'.found[q] = project.found[q]
         /\ UNCHANGED <<saved, files, raced>>
         /\ StoredTrue(project, raced)' /\ StoredTrue(saved.project, saved.raced)'
         /\ ChoicesKept'
         /\ \A t \in DOMAIN tasks' : Copied(tasks[t])'
<1>1. /\ project' = [project EXCEPT !.params[p] = params, !.found[p] = found]
      /\ chosen' = [chosen EXCEPT ![p] = ChoiceOf(params, found)]
      /\ meddled' = IF \E t \in TasksOf(p) : Overwrites(t, what) THEN meddled \cup {p} ELSE meddled
      /\ UNCHANGED <<saved, files, raced>>
  BY DEF Change
<1>2. project \in Project /\ DOMAIN chosen = Pages
  BY DEF Inv, Typed
<1>3. /\ project' \in Project /\ project'.params[p] = params /\ project'.found[p] = found
      /\ \A q \in Pages \ {p} : project'.params[q] = project.params[q]
                                /\ project'.found[q] = project.found[q]
      /\ project'.zones = project.zones /\ project'.stored = project.stored
  BY <1>1, <1>2 DEF Project
<1>4. DOMAIN chosen' = Pages /\ chosen'[p] = ChoiceOf(params, found)
      /\ \A q \in Pages \ {p} : chosen'[q] = chosen[q]
  BY <1>1, <1>2
<1>5. meddled \subseteq meddled'
  BY <1>1
<1>6. ChoicesKept'
  <2>1. ASSUME NEW q \in Pages \ meddled'
        PROVE  ChoiceOf(project'.params[q], project'.found[q]) = chosen'[q]
    <3>1. CASE q = p
      BY <1>3, <1>4, <3>1
    <3>2. CASE q # p
      BY <1>3, <1>4, <1>5, <2>1, <3>2 DEF Inv, ChoicesKept
    <3> QED BY <3>1, <3>2
  <2> QED BY <2>1 DEF ChoicesKept
<1>7. StoredTrue(project, raced)' /\ StoredTrue(saved.project, saved.raced)'
  BY <1>1, <1>3 DEF Inv, StoredTrue
<1>8. ASSUME NEW t \in DOMAIN tasks' PROVE Copied(tasks[t])'
  <2>1. CASE tasks'[t].pc = "start"
    BY <2>1 DEF Copied
  <2>2. CASE Carried(t)
    <3>1. /\ t \in DOMAIN tasks /\ Copied(tasks[t]) /\ tasks[t].page \in Pages
          /\ tasks'[t].page = tasks[t].page /\ tasks'[t].pc = tasks[t].pc
          /\ tasks'[t].copy = tasks[t].copy /\ tasks'[t].found = tasks[t].found
      BY <2>2, TaskInv DEF Carried
    <3>2. CASE tasks[t].page # p
      BY <1>3, <1>5, <3>1, <3>2 DEF Copied
    <3>3. CASE tasks[t].page = p
      <4>1. CASE p \in meddled'
        BY <3>1, <3>3, <4>1 DEF Copied
      <4>2. CASE p \notin meddled'
        <5>1. ~Overwrites(t, what) /\ p \notin meddled
          BY <1>1, <3>1, <3>3, <4>2 DEF TasksOf, PageOf
        <5>2. /\ tasks[t].pc \notin {"detect", "save"}
              /\ tasks[t].pc = "zones" => what # "inverted"
              /\ tasks[t].pc \in {"zones", "dewarp"} /\ tasks[t].copy.choice.dewarp # "off" =>
                   what # "dewarp"
          BY <5>1 DEF Overwrites
        <5> QED BY <1>3, <3>1, <3>3, <5>1, <5>2 DEF Copied
      <4> QED BY <4>1, <4>2
    <3> QED BY <3>2, <3>3
  <2> QED BY <2>1, <2>2
<1> QED BY <1>1, <1>3, <1>4, <1>6, <1>7, <1>8

\* The page is loaded then.
LEMMA ChangeAndLoadInv ==
  ASSUME Inv, NEW p \in Pages, NEW what, NEW params \in Params, NEW found \in Found,
         Change(p, what, params, found), Load(p, FALSE),
         what # "dewarp" => params.choice.dewarp = project.params[p].choice.dewarp,
         what # "inverted" => found.setByHand = project.found[p].setByHand
  PROVE  Inv'
<1>1. Replaced
  BY LoadReplaces
<1>2. /\ project' \in Project /\ DOMAIN chosen' = Pages
      /\ UNCHANGED <<saved, files, raced>>
      /\ StoredTrue(project, raced)' /\ StoredTrue(saved.project, saved.raced)'
      /\ ChoicesKept'
      /\ \A t \in DOMAIN tasks' : Copied(tasks[t])'
  BY <1>1, ChangeKeeps DEF Replaced
<1>3. Typed'
  BY <1>1, <1>2 DEF Inv, Typed, Replaced
<1>4. \A t \in DOMAIN tasks' : Planned(tasks[t])' /\ Undisturbed(t)'
  BY <1>1 DEF Replaced, Planned, Paired, Undisturbed, Reads, Progresses, Generating, Saving
<1> QED BY <1>2, <1>3, <1>4 DEF Inv

\* Or it will be loaded soon.
LEMMA ChangeForLaterInv ==
  ASSUME Inv, NEW p \in Pages, NEW what, NEW params \in Params, NEW found \in Found,
         Change(p, what, params, found), ReloadSoon(p),
         what # "dewarp" => params.choice.dewarp = project.params[p].choice.dewarp,
         what # "inverted" => found.setByHand = project.found[p].setByHand
  PROVE  Inv'
<1>1. tasks' = [t \in DOMAIN tasks |-> [tasks[t] EXCEPT !.alone = @ /\ PageOf(t) # p]]
      /\ UNCHANGED <<current, loads>>
  BY DEF ReloadSoon, Disturbed
<1>2. ASSUME NEW t \in DOMAIN tasks
      PROVE  /\ tasks'[t] \in Task /\ Carried(t)
             /\ tasks'[t].alone => tasks'[t] = tasks[t] /\ tasks[t].alone /\ tasks[t].page # p
  <2> DEFINE alone == tasks[t].alone /\ PageOf(t) # p
  <2>1. tasks[t] \in Task /\ tasks[t].alone \in BOOLEAN /\ tasks'[t] = [tasks[t] EXCEPT !.alone = alone]
    BY <1>1, TaskInv, TaskFacts
  <2>2. alone \in BOOLEAN /\ (alone => tasks[t].alone /\ tasks[t].page # p)
    BY DEF PageOf
  <2> HIDE DEF alone
  <2>3. tasks'[t] \in Task /\ tasks'[t].alone = alone /\ Carried(t)
    BY <2>1, <2>2 DEF Task, Carried
  <2>4. alone /\ tasks[t].alone => tasks'[t] = tasks[t]
    BY <2>1, <2>2 DEF Task
  <2> QED BY <2>2, <2>3, <2>4
<1>3. DOMAIN tasks' = DOMAIN tasks /\ tasks' \in [DOMAIN tasks' -> Task]
  <2>1. DOMAIN tasks' = DOMAIN tasks
    BY <1>1
  <2>2. tasks' = [t \in DOMAIN tasks |-> tasks'[t]]
    BY <1>1
  <2> QED BY <1>2, <2>1, <2>2
<1>4. /\ project' \in Project /\ DOMAIN chosen' = Pages
      /\ project'.zones = project.zones
      /\ \A q \in Pages \ {p} : project'.params[q] = project.params[q]
                                /\ project'.found[q] = project.found[q]
      /\ UNCHANGED <<saved, files, raced>>
      /\ StoredTrue(project, raced)' /\ StoredTrue(saved.project, saved.raced)'
      /\ ChoicesKept'
      /\ \A t \in DOMAIN tasks' : Copied(tasks[t])'
  BY <1>2, <1>3, ChangeKeeps
<1>5. Typed'
  BY <1>1, <1>3, <1>4 DEF Inv, Typed
<1>6. ASSUME NEW t \in DOMAIN tasks' PROVE Planned(tasks[t])' /\ Undisturbed(t)'
  <2>1. /\ t \in DOMAIN tasks /\ Carried(t)
        /\ tasks'[t].alone => tasks'[t] = tasks[t] /\ tasks[t].alone /\ tasks[t].page # p
    BY <1>2, <1>3
  <2>2. Planned(tasks[t])'
    <3>1. Planned(tasks[t])
      BY <2>1, TaskInv
    <3> QED BY <2>1, <3>1 DEF Planned, Paired, Carried
  <2>3. ASSUME tasks'[t].alone PROVE DOMAIN tasks' = {t} /\ Reads(tasks[t])' /\ Progresses(t)'
    <3>1. /\ tasks'[t] = tasks[t] /\ tasks[t].page \in Pages \ {p}
          /\ DOMAIN tasks = {t} /\ Reads(tasks[t]) /\ Progresses(t)
      BY <2>1, <2>3, TaskInv DEF Inv, Undisturbed
    <3>2. Reads(tasks[t])'
      BY <1>4, <3>1 DEF Reads
    <3>3. Progresses(t)'
      BY <1>4, <3>1 DEF Progresses, ToWrite
    <3> QED BY <1>3, <3>1, <3>2, <3>3
  <2> QED BY <2>2, <2>3 DEF Undisturbed
<1> QED BY <1>4, <1>5, <1>6 DEF Inv

\* The user changes the choice of the current page.
LEMMA ChooseInv == ASSUME Inv, NEW c \in Choices, Choose(c) PROVE Inv'
<1> DEFINE p      == current
           now    == project.params[p].choice
           params == [project.params[p] EXCEPT !.choice = c]
           found  == project.found[p]
<1>1. p \in Pages /\ c \in AllChoices
  BY OutputAssumption DEF OutputAssumption, Choose, Inv, Typed
<1>2. PICK what \in DOMAIN c : /\ {f \in DOMAIN c : c[f] # now[f]} = {what}
                               /\ Change(p, what, params, found)
  BY DEF Choose
<1>3. /\ params \in Params /\ params.choice = c /\ found \in Found
  <2>1. project.params[p] \in Params /\ project.found[p] \in Found
    BY <1>1, ProjectFacts DEF Inv, Typed
  <2> QED BY <1>1, <2>1 DEF Params
<1>4. what # "dewarp" => c.dewarp = now.dewarp
  <2>1. "dewarp" \in DOMAIN c
    BY <1>1 DEF AllChoices
  <2>2. "dewarp" \notin {what} => c["dewarp"] = now["dewarp"]
    BY <1>2, <2>1
  <2> QED BY <2>2
<1>5. ReloadSoon(p) \/ Load(p, FALSE)
  BY DEF Choose
<1> HIDE DEF params, found
<1>6. /\ what # "dewarp" => params.choice.dewarp = project.params[p].choice.dewarp
      /\ what # "inverted" => found.setByHand = project.found[p].setByHand
  BY <1>3, <1>4 DEF found
<1>7. CASE ReloadSoon(p)
  BY <1>1, <1>2, <1>3, <1>6, <1>7, ChangeForLaterInv
<1>8. CASE Load(p, FALSE)
  BY <1>1, <1>2, <1>3, <1>6, <1>8, ChangeAndLoadInv
<1> QED BY <1>5, <1>7, <1>8

\* The user inverts black on white of the current page.
LEMMA ToggleInv == ASSUME Inv, ToggleBlackOnWhite PROVE Inv'
<1> DEFINE p      == current
           params == [project.params[p] EXCEPT !.inverted = ~@]
           found  == [project.found[p] EXCEPT !.setByHand = TRUE]
<1>1. p \in Pages /\ Change(p, "inverted", params, found) /\ Load(p, FALSE)
  BY DEF ToggleBlackOnWhite, Inv, Typed
<1>2. params \in Params /\ params.choice = project.params[p].choice /\ found \in Found
  <2>1. project.params[p] \in Params /\ project.found[p] \in Found
    BY <1>1, ProjectFacts DEF Inv, Typed
  <2> QED BY <2>1 DEF Params, Found
<1> HIDE DEF params, found
<1> QED BY <1>1, <1>2, ChangeAndLoadInv
-----------------------------------------------------------------------------
(* The theorems.                                                           *)

\* A page is about to be processed for the first time.
LEMMA InitInv == Init => Inv
<1> SUFFICES ASSUME Init PROVE Inv
  OBVIOUS
<1>1. Default \in Params /\ NotFound \in Found
  BY DEF Default, NotFound, Params, Found, AllChoices
<1> DEFINE begun == NewTask(Whole, FALSE, TRUE)
<1>2. /\ begun \in Task /\ begun.pc = "start" /\ begun.todo = <<>>
  <2>1. Image(Default) \in Images /\ Wanted(Default, NotFound, FALSE) \in Wish
    BY <1>1 DEF Image, Images, Wanted, Wish, Params
  <2> DEFINE image == Image(Default)
             wanted == Wanted(Default, NotFound, FALSE)
  <2>2. begun = [page |-> Whole, batch |-> FALSE, pc |-> "start", cancelled |-> FALSE,
                 alone |-> TRUE, first |-> Default, copy |-> Default, found |-> NotFound,
                 zones |-> FALSE, model |-> FALSE, image |-> image, wanted |-> wanted,
                 todo |-> <<>>, valid |-> TRUE]
    BY DEF NewTask
  <2>3. image \in Images /\ wanted \in Wish /\ <<>> \in Seq(Operation) /\ Whole \in Pages
    BY <2>1, EmptySeq DEF Pages
  <2> HIDE DEF image, wanted, begun, Operation, Default, NotFound, Params, Found, Images, Wish,
               Pages
  <2> QED BY <1>1, <2>2, <2>3 DEF Task
<1>3. /\ DOMAIN tasks = {0} /\ tasks[0] = begun
      /\ project = [params |-> [p \in Pages |-> Default], found |-> [p \in Pages |-> NotFound],
                    zones |-> [p \in Pages |-> FALSE], stored |-> [p \in Pages |-> NoOutput],
                    halves |-> FALSE]
      /\ saved = [project |-> project, raced |-> {}]
      /\ files = [p \in Pages |-> [k \in Kinds |-> Absent]]
      /\ current = Whole /\ raced = {} /\ meddled = {} /\ loads = 0
      /\ chosen = [p \in Pages |-> ChoiceOf(project.params[p], project.found[p])]
      /\ tasks = [t \in {0} |-> begun]
  BY DEF Init
<1> HIDE DEF begun
<1>4. project \in Project
  <2> HIDE DEF Default, NotFound, NoOutput, Params, Found, Output, Pages
  <2> QED BY <1>1, <1>3 DEF Project
<1>5. Typed
  <2>1. files \in [Pages -> [Kinds -> Content]]
    <3>1. Absent \in Content
      BY DEF Content
    <3> QED BY <1>3, <3>1
  <2>2. tasks \in [DOMAIN tasks -> Task]
    BY <1>2, <1>3
  <2>3. Whole \in Pages
    BY DEF Pages
  <2> QED BY <1>3, <1>4, <2>1, <2>2, <2>3 DEF Typed
<1>6. StoredTrue(project, raced) /\ StoredTrue(saved.project, saved.raced)
  BY <1>3 DEF StoredTrue
<1>7. ChoicesKept
  BY <1>3 DEF ChoicesKept
<1>8. \A t \in DOMAIN tasks : Planned(tasks[t]) /\ Copied(tasks[t]) /\ Undisturbed(t)
  <2> SUFFICES Planned(tasks[0]) /\ Copied(tasks[0]) /\ Undisturbed(0)
    BY <1>3
  <2>1. tasks[0].pc = "start" /\ tasks[0].todo = <<>>
    BY <1>2, <1>3
  <2>2. Paired(<<>>)
    BY DEF Paired
  <2>3. Planned(tasks[0])
    BY <2>1, <2>2 DEF Planned
  <2>4. Copied(tasks[0])
    BY <2>1 DEF Copied
  <2>5. Reads(tasks[0]) /\ Progresses(0)
    BY <2>1 DEF Reads, Progresses, Generating, Saving
  <2> QED BY <1>3, <2>3, <2>4, <2>5 DEF Undisturbed
<1> QED BY <1>5, <1>6, <1>7, <1>8 DEF Inv

\* Every step keeps the invariant.
LEMMA StepInv == Inv /\ [Next]_vars => Inv'
<1> SUFFICES ASSUME Inv, [Next]_vars PROVE Inv'
  OBVIOUS
<1>1. CASE User
  <2>1. CASE Crash
    BY <2>1, RestartInv DEF Crash
  <2> QED BY <1>1, <2>1, SelectInv, ChooseInv, ToggleInv, ChangeSplitInv, SaveProjectInv DEF User
<1>2. CASE Reload
  BY <1>2, ReloadInv
<1>3. CASE \E t \in DOMAIN tasks : Works(t)
  BY <1>3, WorksInv
<1>4. CASE UNCHANGED vars
  BY <1>4, SameInv DEF vars
<1> QED BY <1>1, <1>2, <1>3, <1>4 DEF Next

\* The inductive invariant.
THEOREM AlwaysSound == Spec => []Inv
<1> QED BY InitInv, StepInv, PTL DEF Spec

\* When the files of a page agree with the stored OutputParams, and these with
\* the settings, the files hold what the settings ask for, whatever the user,
\* other tasks, failures and crashes did, unless tasks raced when they were stored.
THEOREM UpToDateIsAlwaysTrue == Spec => []UpToDateIsTrue
<1>1. Inv => UpToDateIsTrue
  <2> SUFFICES ASSUME Inv, NEW p \in Pages \ raced, NEW editor \in BOOLEAN,
                      UpToDate(p, editor),
                      NEW k \in Compared(project.params[p].choice, editor)
               PROVE  files[p][k] = Image(project.params[p])
    BY DEF UpToDateIsTrue
  <2> DEFINE o   == project.stored[p]
             now == project.params[p]
  <2>1. /\ o # NoOutput /\ o.choice = now.choice /\ o.inverted = now.inverted
        /\ files[p][k] = o.files[k]
    BY DEF UpToDate, Matches, Wanted, FilesMatch
  <2>2. k \in Written(now.choice)
    BY DEF Compared, Written, Layered, Original, Mixed, Speckled
  <2>3. o.files[k] = Image(o)
    BY <2>1, <2>2 DEF Inv, StoredTrue
  <2>4. Image(o) = Image(now)
    BY <2>1 DEF Image
  <2> QED BY <2>1, <2>3, <2>4
<1> QED BY <1>1, AlwaysSound, PTL

\* No choice of the user is undone by what a task writes back.
THEOREM ChoicesAlwaysKept == Spec => []ChoicesKept
<1>1. Inv => ChoicesKept
  BY DEF Inv
<1> QED BY <1>1, AlwaysSound, PTL

\* A task that had its page to itself and could write all files leaves it up to
\* date.
THEOREM NothingProcessedTwice == Spec => ProcessedOnce
<1> DEFINE Once == \A p \in Pages, t \in DOMAIN tasks :
             Store(t) /\ p = PageOf(t) /\ tasks[t].alone /\ tasks[t].valid => UpToDate(p, TRUE)'
<1>1. Inv /\ [Next]_vars => [Once]_vars
  <2> SUFFICES ASSUME Inv, NEW p \in Pages, NEW t \in DOMAIN tasks,
                      Store(t), p = PageOf(t), tasks[t].alone, tasks[t].valid
               PROVE  UpToDate(p, TRUE)'
    OBVIOUS
  <2> DEFINE o   == project'.stored[p]
             now == project.params[p]
  <2>1. /\ project'.params = project.params /\ project'.found = project.found
        /\ project'.zones = project.zones
        /\ o # NoOutput
        /\ Matches(o, Wanted(now, project.found[p], project.zones[p]))
        /\ \A k \in Written(o.choice) : o.files[k] = Image(o) /\ files[p][k] = Image(o)
    BY StoreFacts DEF PageOf
  <2>2. files' = files
    BY DEF Store
  <2>3. o.choice = now.choice
    BY <2>1 DEF Matches, Wanted
  <2>4. Compared(now.choice, TRUE) \subseteq Written(now.choice)
    BY DEF Compared, Written, Layered, Original, Mixed, Speckled
  <2>5. \A k \in Compared(now.choice, TRUE) : files'[p][k] # Absent /\ files'[p][k] = o.files[k]
    BY <2>1, <2>2, <2>3, <2>4, ImageIsThere
  <2>6. Wanted(project'.params[p], project'.found[p], project'.zones[p]).choice = now.choice
    BY <2>1 DEF Wanted
  <2> QED BY <2>1, <2>5, <2>6 DEF UpToDate, FilesMatch
<1>2. Spec => [][Once]_vars
  BY <1>1, AlwaysSound, PTL DEF Spec
<1> QED BY <1>2 DEF ProcessedOnce
=============================================================================
