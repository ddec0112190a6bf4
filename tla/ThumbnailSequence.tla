-------------------------- MODULE ThumbnailSequence --------------------------
(***************************************************************************)
(* The list of thumbnails (app/ThumbnailSequence.cpp): which pages it      *)
(* shows, in which order, which are selected and which of those is the     *)
(* selection leader, the page the window shows; and the handlers of        *)
(* app/MainWindow.cpp that change it.  An item remembers whether its       *)
(* thumbnail is incomplete, but an order may also look at the settings of  *)
(* a stage, which tasks change before they tell the list.                  *)
(*                                                                         *)
(* One class of items is in three indices: by id, in display order, and    *)
(* with selected items in front.  Geometry and scrolling are left out.     *)
(***************************************************************************)
EXTENDS Integers, Sequences, FiniteSets, SequencesExt

CONSTANTS
  Images,      \* images of the project when it is opened, in their order
  NewImage,    \* an image that may be inserted when it is not there
  Keys,        \* what pages are ordered by: width, split type, and the value
               \* whose deviation is looked at, from the least there is
  Saved,       \* bound: keys of the pages in a project that is opened
  MaxEvents,   \* bound: steps of a behaviour
  None

Halves == <<"left", "right">>
ImageIds == Range(Images) \cup {NewImage}
Pages  == ImageIds \X {"single", "left", "right"}
NoPage == <<None, "single">>
Unknown == -1   \* the key of a page for which the settings have nothing

ASSUME SequenceAssumption ==
  /\ Images \in Seq(STRING) /\ IsInjective(Images)
  /\ NewImage \in STRING /\ NewImage \notin Range(Images)
  /\ None \notin Range(Images) \cup {NewImage}
  /\ Keys \in SUBSET Nat
  /\ Saved \subseteq [Pages -> Keys \cup {Unknown}]
  /\ MaxEvents \in Nat

VARIABLES
  project,    \* ProjectPages: the images in order, with the halves each has
  stage,      \* its view of images, the order selected, and if it is reversed
  facts,      \* of every page: its key in the settings, and if it is complete
  list,       \* the thumbnails
  current,    \* SelectedPage: what the window takes to be selected
  unheard,    \* history: pages changed since the list was told, and those that
              \* compare differently to one another since a third was changed
  scrambled,  \* history: a page was placed while others were unheard, or inserted
              \* complete, though insert() takes it to be incomplete
  lost,       \* history: the window was last told of a leader whose image had
              \* gone from the project while a page of it was still listed
  events

vars == <<project, stage, facts, list, current, unheard, scrambled, lost, events>>
-----------------------------------------------------------------------------
\* What of s is in A, and what is not, in the order of s.
Among(s, A) ==
  LET upTo[n \in 0..Len(s)] ==
        IF n = 0 THEN <<>>
        ELSE IF s[n] \in A THEN Append(upTo[n - 1], s[n]) ELSE upTo[n - 1]
  IN upTo[Len(s)]
Except(s, A) == Among(s, Range(s) \ A)

(* ProjectPages and the current stage.                                     *)

SubPages(image, view) ==
  IF view = "image" \/ image.halves = {} THEN <<"single">>
  ELSE Among(Halves, image.halves)
PagesOf(image, view) ==
  LET subs == SubPages(image, view) IN [i \in DOMAIN subs |-> <<image.id, subs[i]>>]
PageSequence(images, st) ==
  LET pages == FlattenSeq([i \in DOMAIN images |-> PagesOf(images[i], st.view)])
  IN IF st.reversed THEN Reverse(pages) ELSE pages

\* removePages(): an image goes with its last page.  One that lists the halves
\* of an image with one page now loses that page.
RemovedHalves(image, pages) == {h \in {"left", "right"} : <<image.id, h>> \in pages}
Stays(image, pages) ==
  LET removed == RemovedHalves(image, pages)
  IN /\ <<image.id, "single">> \notin pages
     /\ \/ removed = {}
        \/ image.halves = {"left", "right"} /\ removed # image.halves
RemovedFrom(images, pages) ==
  LET kept == Among(images, {image \in Range(images) : Stays(image, pages)})
  IN [i \in DOMAIN kept |->
        [kept[i] EXCEPT !.halves = @ \ RemovedHalves(kept[i], pages)]]

\* SelectedPage remembers the half while the image is the same.
SetCurrent(p, view) ==
  IF view = "page" \/ p[1] # current[1] THEN p ELSE current
GetCurrent(was, view) == IF view = "page" THEN was ELSE <<was[1], "single">>
-----------------------------------------------------------------------------
(* Orders of pages: does p go before q?                                    *)

Place(image) ==
  LET all == Append(Images, NewImage) IN CHOOSE i \in DOMAIN all : all[i] = image
Older(p, q) ==
  \/ Place(p[1]) < Place(q[1])
  \/ p[1] = q[1] /\ p[2] = "left" /\ q[2] = "right"

\* DeviationProvider: how far the value of a page is from the mean of those that
\* are known, of pages gone from the project too; times their number.
Known(key) == {p \in Pages : key[p] # Unknown}
Total(key) == Cardinality(UNION {{p} \X (1..key[p]) : p \in Known(key)})
Distance(i, j) == IF i < j THEN j - i ELSE i - j
Deviation(key, p) ==
  IF p \notin Known(key) THEN -1
  ELSE Distance(Cardinality(Known(key)) * key[p], Total(key))
Rank(key, order, p) == IF order = "deviation" THEN Deviation(key, p) ELSE key[p]
Alike(was, now, order, p, q) ==
  /\ Rank(was, order, p) > Rank(was, order, q) <=> Rank(now, order, p) > Rank(now, order, q)
  /\ Rank(was, order, q) > Rank(was, order, p) <=> Rank(now, order, q) > Rank(now, order, p)

\* The back is for pages that are incomplete or of unknown width or layout.
Measured(p, pInc) == ~pInc /\ facts.key[p] # Unknown
ByOrder(order, p, pInc, q, qInc) ==
  CASE order = "width" ->
         IF Measured(p, pInc) # Measured(q, qInc) THEN Measured(p, pInc)
         ELSE facts.key[p] < facts.key[q]
    [] order = "split" ->
         IF pInc # qInc THEN qInc
         ELSE IF pInc \/ facts.key[p] = facts.key[q] THEN Older(p, q)
         ELSE IF Unknown \in {facts.key[p], facts.key[q]} THEN facts.key[q] = Unknown
         ELSE facts.key[p] < facts.key[q]
    [] order = "deviation" ->
         IF pInc # qInc THEN pInc
         ELSE Deviation(facts.key, p) > Deviation(facts.key, q)
    [] order = "completeness" -> IF pInc # qInc THEN qInc ELSE TRUE
Precedes(st, p, pInc, q, qInc) ==
  IF st.reversed THEN ByOrder(st.order, q, qInc, p, pInc)
                 ELSE ByOrder(st.order, p, pInc, q, qInc)
Natural(st) == st.order = "natural"

\* itemInsertPosition(): the place in s where p goes, found from hint.
BackFrom(st, incomplete, s, p, pInc, hint) ==
  CHOOSE k \in 1..hint :
    /\ \A j \in k..hint - 1 : Precedes(st, p, pInc, s[j], s[j] \in incomplete)
    /\ k > 1 => ~Precedes(st, p, pInc, s[k - 1], s[k - 1] \in incomplete)
ForwardFrom(st, incomplete, s, p, pInc, start) ==
  CHOOSE k \in start..Len(s) + 1 :
    /\ \A j \in start..k - 1 : Precedes(st, s[j], s[j] \in incomplete, p, pInc)
    /\ k <= Len(s) => ~Precedes(st, s[k], s[k] \in incomplete, p, pInc)
OnlyBack(st, incomplete, s, p, pInc, hint) ==   \* mutant of ItemInsertPosition
  IF Natural(st) THEN hint ELSE BackFrom(st, incomplete, s, p, pInc, hint)
ItemInsertPosition(st, incomplete, s, p, pInc, hint) ==
  IF Natural(st) THEN hint
  ELSE ForwardFrom(st, incomplete, s, p, pInc,
                   BackFrom(st, incomplete, s, p, pInc, hint))

\* orderItems(): a stable merge sort, in which a later page goes in front of those
\* it precedes, so that completeness reverses pages that are alike.
Placed(st, incomplete, s, p) ==
  LET later == {j \in DOMAIN s :
                  Precedes(st, p, p \in incomplete, s[j], s[j] \in incomplete)}
  IN InsertAt(s, IF later = {} THEN Len(s) + 1 ELSE Min(later), p)
Sorted(st, incomplete, s) ==
  LET upTo[n \in 0..Len(s)] ==
        IF n = 0 THEN <<>> ELSE Placed(st, incomplete, upTo[n - 1], s[n])
  IN IF Natural(st) THEN s ELSE upTo[Len(s)]
-----------------------------------------------------------------------------
(* The list.  Its pool is the index of selected items, then unselected     *)
(* ones; the flags of an item say it is selected, or the leader.           *)

EmptyList == [order |-> <<>>, pool |-> <<>>, selected |-> {}, flagged |-> {},
              leader |-> NoPage, incomplete |-> {}]

SetSelected(l, ps, b) ==
  IF b THEN [l EXCEPT !.selected = @ \cup ps]
       ELSE [l EXCEPT !.selected = @ \ ps, !.flagged = @ \ ps]
SetSelectionLeader(l, ps, b) ==
  IF b THEN [l EXCEPT !.selected = @ \cup ps, !.flagged = @ \cup ps]
       ELSE [l EXCEPT !.flagged = @ \ ps]
MoveToSelected(l, p)   == [l EXCEPT !.pool = <<p>> \o Except(@, {p})]
MoveToUnselected(l, p) == [l EXCEPT !.pool = Append(Except(@, {p}), p)]

\* What every loop over selected items sees: the pool up to one that is not.
SelectedItems(l) ==
  {l.pool[i] : i \in {j \in DOMAIN l.pool : \A k \in 1..j : l.pool[k] \in l.selected}}
MultipleItemsSelected(l) ==
  Len(l.pool) > 1 /\ l.pool[1] \in l.selected /\ l.pool[2] \in l.selected

NewLeader(l, p) ==
  MoveToSelected(SetSelectionLeader([l EXCEPT !.leader = p], {p}, TRUE), p)
OldLeader(l) == {l.leader} \ {NoPage}

OthersCleared(l, p) ==
  LET others == SelectedItems(l) \ {p}
  IN [SetSelected(l, others, FALSE) EXCEPT
        !.pool = Except(@, others) \o Among(@, others), !.leader = IF @ \in others THEN NoPage ELSE @]
LeaderReset(l, p) ==
  IF l.leader = p THEN l
  ELSE [SetSelectionLeader(l, OldLeader(l), FALSE) EXCEPT !.leader = NoPage]

\* setSelection() of a page of the list.
SetSelection(l, p, keep) ==
  LET cleared == IF keep THEN LeaderReset(l, p) ELSE OthersCleared(l, p)
  IN IF l.leader = p THEN cleared ELSE NewLeader(cleared, p)

\* A click: plain, with Shift, with Ctrl.
Cleared(l) == [SetSelected(l, SelectedItems(l), FALSE) EXCEPT !.leader = NoPage]
SelectNoModifiers(l, p) == NewLeader(Cleared(l), p)

Position(l, p) == CHOOSE i \in DOMAIN l.order : l.order[i] = p
Between(l, p, q) ==
  LET i == Position(l, p)  j == Position(l, q)
  IN IF i <= j THEN SubSeq(l.order, i, j) ELSE SubSeq(l.order, j, i)
SelectWithShift(l, p) ==
  IF l.leader = NoPage THEN SelectNoModifiers(l, p)
  ELSE IF l.leader = p THEN l
  ELSE LET span == Between(l, l.leader, p)
           all  == SetSelected(l, Range(span), TRUE)
           tops == [all EXCEPT !.pool = Reverse(span) \o Except(@, Range(span))]
       IN [SetSelectionLeader(SetSelectionLeader(tops, {l.leader}, FALSE), {p}, TRUE)
             EXCEPT !.leader = p]

\* The selected item nearest to one just unselected, the one before it first.
Nearest(l, p) ==
  LET i    == Position(l, p)
      far(j) == IF j < i THEN 2 * (i - j) - 1 ELSE 2 * (j - i)
  IN l.order[CHOOSE j \in DOMAIN l.order :
       /\ l.order[j] \in l.selected
       /\ \A k \in DOMAIN l.order : l.order[k] \in l.selected => far(j) <= far(k)]
StillFlagged(l, p) == NewLeader(l, p)   \* mutant of LeaderInstead
LeaderInstead(l, p) == NewLeader(SetSelectionLeader(l, OldLeader(l), FALSE), p)
SelectWithControl(l, p) ==
  IF p \notin l.selected THEN LeaderInstead(l, p)
  ELSE IF ~MultipleItemsSelected(l) THEN l
  ELSE LET without == MoveToUnselected(SetSelected(l, {p}, FALSE), p)
       IN IF l.leader # p THEN without
          ELSE LET next == Nearest(without, p)
               IN [SetSelectionLeader(without, {next}, TRUE) EXCEPT !.leader = next]

\* invalidateThumbnail(): a new thumbnail, and its place in the order.
Invalidated(l, p) ==
  LET inc  == IF p \in facts.complete THEN l.incomplete \ {p} ELSE l.incomplete \cup {p}
      from == Position(l, p)
      rest == RemoveAt(l.order, from)
      at   == ItemInsertPosition(stage, inc, rest, p, p \in inc, from)
  IN [l EXCEPT !.incomplete = inc, !.order = InsertAt(rest, at, p)]

\* invalidateAllThumbnails(), in the order of st.
AllInvalidated(l, st) ==
  LET inc == Range(l.order) \ facts.complete
  IN [l EXCEPT !.incomplete = inc, !.order = Sorted(st, inc, @)]

\* reset(): the selection is that of pages with the same image, for want of
\* the page itself or its other form.
WereSelected(pages, selected) ==
  {p \in pages : \/ p \in selected
                 \/ p[2] # "single" /\ <<p[1], "single">> \in selected
                 \/ p[2] = "single" /\ {<<p[1], "left">>, <<p[1], "right">>} \cap selected # {}}
LastSelected(found, leader) == Last(found)   \* mutant of LeaderAmong
LeaderAmong(found, leader) ==
  LET same == Among(found, {p \in Range(found) : p[1] = leader[1]})
  IN IF leader \in Range(found) THEN leader
     ELSE IF same # <<>> THEN Head(same)
     ELSE Last(found)
Refilled(l, pages, keep) ==
  LET selected == IF keep THEN SelectedItems(l) ELSE {}
      were     == WereSelected(Range(pages), selected)
      found    == Among(pages, were)
      leader   == IF found = <<>> THEN NoPage ELSE LeaderAmong(found, l.leader)
  IN [EmptyList EXCEPT !.order = pages, !.pool = Reverse(found) \o Except(pages, were),
                       !.selected = Range(found), !.leader = leader,
                       !.flagged = {leader} \ {NoPage}]
Reset(l, pages, keep, st) ==
  IF pages = <<>> THEN EmptyList ELSE AllInvalidated(Refilled(l, pages, keep), st)
-----------------------------------------------------------------------------
(* Handlers of the main window.                                            *)

Acts == events < MaxEvents /\ events' = events + 1
Listed == Range(list.order)

\* newSelectionLeader() of p.
Emit(p, view) == current' = SetCurrent(p, view) /\ lost' = FALSE
Untold == UNCHANGED <<current, lost>>

\* A click on the leader with Shift, or one with Ctrl that leaves the leader as
\* it is, is not told to the window.
Click(p, how) ==
  LET new == CASE how = "plain" -> SelectNoModifiers(list, p)
               [] how = "shift" -> SelectWithShift(list, p)
               [] how = "ctrl"  -> SelectWithControl(list, p)
  IN /\ Acts /\ p \in Listed
     /\ list' = new
     /\ IF \/ how = "shift" /\ list.leader = p
           \/ how = "ctrl" /\ new.leader = list.leader /\ new.leader # p
        THEN Untold
        ELSE Emit(new.leader, stage.view)
     /\ UNCHANGED <<project, stage, facts, unheard, scrambled>>

\* goToPage(), of the next selected page with keep; and to follow a batch.
GoToPage(p, keep) ==
  /\ Acts /\ p \in Listed /\ (keep => p \in list.selected)
  /\ list' = SetSelection(list, p, keep)
  /\ Emit(p, stage.view)
  /\ UNCHANGED <<project, stage, facts, unheard, scrambled>>

\* Another stage, another order: reset() with the selection kept.  It tells
\* the window of the leader there was.
Rearrange(st) ==
  /\ Acts /\ st # stage
  /\ stage' = st
  /\ list' = Reset(list, PageSequence(project, st), TRUE, st)
  /\ IF list'.leader = NoPage THEN Untold
     ELSE /\ current' = SetCurrent(list.leader, st.view)
          /\ lost' = \A i \in DOMAIN project : project[i].id # list.leader[1]
  /\ unheard' = {} /\ scrambled' = FALSE
  /\ UNCHANGED <<project, facts>>
SwitchStage == \E view \in {"image", "page"} :
  \E order \in (IF view = "image" THEN {"natural", "split"}
                ELSE {"natural", "width", "deviation", "completeness"}) :
    view # stage.view /\ Rearrange([stage EXCEPT !.view = view, !.order = order])
PageOrderingChanged ==
  \E order \in (IF stage.view = "image" THEN {"natural", "split"}
                ELSE {"natural", "width", "deviation", "completeness"}),
     reversed \in BOOLEAN :
    Rearrange([stage EXCEPT !.order = order, !.reversed = reversed])

\* stopBatchProcessing() at page p, then resetThumbSequence().
Restored(l, p) ==
  LET there == Among(<<p, <<p[1], "left">>, <<p[1], "right">>, <<p[1], "single">>>>,
                     Range(l.order))
  IN IF l.order = <<>> THEN NoPage ELSE Head(there \o l.order)
StopBatchProcessing(p) ==
  LET l == Reset(list, PageSequence(project, stage), FALSE, stage) IN
  /\ Acts /\ p \in Listed
  /\ \E before \in {SetCurrent(p, stage.view)}
                 \cup (IF MultipleItemsSelected(list) THEN {current} ELSE {}) :
       LET at == Restored(l, GetCurrent(before, stage.view))
       IN /\ list' = IF at = NoPage THEN l ELSE SetSelection(l, at, FALSE)
          /\ current' = IF at # NoPage /\ (stage.view = "page" \/ at[1] # before[1])
                        THEN at ELSE before
          /\ lost' = FALSE
  /\ unheard' = {} /\ scrambled' = FALSE
  /\ UNCHANGED <<project, stage, facts>>

\* A task or an option changes the settings of page p, clears them, or completes
\* it; the window hears of it later, but not of the pages whose deviation is
\* another with a new mean.
ChangePage(p) ==
  /\ Acts /\ p \in Listed
  /\ \/ \E k \in (Keys \cup {Unknown}) \ {facts.key[p]} :
          facts' = [facts EXCEPT !.key[p] = k]
     \/ facts' = [facts EXCEPT !.complete =
                    IF p \in @ THEN @ \ {p} ELSE @ \cup {p}]
  /\ LET others == Listed \ {p}
     IN unheard' = unheard \cup {p} \cup
          {q \in others : \E r \in others : ~Alike(facts.key, facts'.key, stage.order, q, r)}
  /\ UNCHANGED <<project, stage, list, current, scrambled, lost>>
InvalidateThumbnail(p) ==
  /\ Acts /\ p \in Listed
  /\ list' = Invalidated(list, p)
  /\ \/ list.leader = p /\ Emit(p, stage.view)   \* if it moved or changed size
     \/ Untold
  /\ unheard' = unheard \ {p}
  /\ scrambled' = (scrambled \/ unheard \ {p} # {})
  /\ UNCHANGED <<project, stage, facts>>
InvalidateAllThumbnails ==
  /\ Acts
  /\ list' = AllInvalidated(list, stage)
  /\ unheard' = {} /\ scrambled' = FALSE
  /\ UNCHANGED <<project, stage, facts, current, lost>>

\* A task finds one page in an image, or two.
SplitImage(i) ==
  /\ Acts /\ i \in DOMAIN project
  /\ project[i].halves \in {{}, {"left", "right"}}
  /\ project' = [project EXCEPT ![i].halves = {"left", "right"} \ @]
  /\ UNCHANGED <<stage, facts, list, current, unheard, scrambled, lost>>

\* insert(), of page p before or after a page of an image, or at the end.  Only
\* an image that is one page is found.
InsertHint(l, side, image) ==
  LET pos  == Position(l, <<image, "single">>)
      next == {k \in pos + 1..Len(l.order) : l.order[k][1] # image} \cup {Len(l.order) + 1}
  IN IF image = None THEN Len(l.order) + 1
     ELSE IF side = "before" THEN pos
     ELSE IF Natural(stage) THEN Min(next) ELSE pos + 1
InsertItem(l, p, side, image) ==
  IF image # None /\ <<image, "single">> \notin Range(l.order) THEN l
  ELSE LET at  == ItemInsertPosition(stage, l.incomplete, l.order, p, TRUE,
                                     InsertHint(l, side, image))
       IN [l EXCEPT !.order = InsertAt(@, at, p), !.pool = Append(@, p),
                    !.incomplete = @ \cup ({p} \ facts.complete)]
InsertAll(l, pages, side, image) ==
  LET first == InsertItem(l, pages[1], side, image)
  IN IF Len(pages) = 1 THEN first ELSE InsertItem(first, pages[2], side, pages[2][1])
InsertImage(side, image, halves) ==
  LET new   == [id |-> NewImage, halves |-> halves]
      at    == {i \in DOMAIN project : project[i].id = image}
      place == IF at = {} THEN Len(project) + 1
               ELSE Min(at) + (IF side = "after" THEN 1 ELSE 0)
      pages == PagesOf(new, stage.view)
  IN /\ Acts
     /\ \A i \in DOMAIN project : project[i].id # NewImage
     /\ \A p \in Listed : p[1] # NewImage
     /\ IF image = None THEN side = "before" ELSE at # {} /\ \E p \in list.selected : p[1] = image
     /\ project' = InsertAt(project, place, new)
     /\ list' = InsertAll(list, IF side = "before" THEN Reverse(pages) ELSE pages,
                          side, image)
     /\ scrambled' = (scrambled \/ unheard # {} \/ Range(pages) \cap facts.complete # {})
     /\ UNCHANGED <<stage, facts, current, unheard, lost>>

\* removeFromProject(), of what is selected.  Who does not want to give up the
\* selection of several pages, when asked, is left without any.
SelectedInstead(pages) ==
  LET first == Min({i \in DOMAIN list.order : list.order[i] \in pages})
      kept  == Except(list.order, pages)
  IN IF kept = <<>> THEN NoPage
     ELSE IF first = 1 THEN Head(kept) ELSE list.order[first - 1]
WithoutItems(l, pages) ==
  [l EXCEPT !.order = Except(@, pages), !.pool = Except(@, pages),
            !.selected = @ \ pages, !.flagged = @ \ pages,
            !.incomplete = @ \ pages, !.leader = IF @ \in pages THEN NoPage ELSE @]
RemoveFromProject ==
  LET pages == SelectedItems(list)
      next  == SelectedInstead(pages)
  IN /\ Acts /\ pages # {}
     /\ project' = RemovedFrom(project, pages)
     /\ \/ /\ next # NoPage
           /\ list' = WithoutItems(SetSelection(list, next, FALSE), pages)
           /\ Emit(next, stage.view)
        \/ /\ next = NoPage \/ MultipleItemsSelected(list)
           /\ list' = WithoutItems(list, pages) /\ Untold
     /\ unheard' = unheard \ pages
     /\ UNCHANGED <<stage, facts, scrambled>>
-----------------------------------------------------------------------------
\* switchToNewProject() shows whole images and selects the first one, if any.
Opened(images, st) ==
  LET pages == PageSequence(images, st)
      shown == [EmptyList EXCEPT !.order = pages, !.pool = pages,
                                 !.incomplete = Range(pages) \ facts.complete]
  IN IF pages = <<>> THEN EmptyList ELSE NewLeader(shown, Head(pages))
Init ==
  /\ \E halves \in [DOMAIN Images -> {{}, {"left", "right"}, {"right"}}] :
       project = [i \in DOMAIN Images |-> [id |-> Images[i], halves |-> halves[i]]]
  /\ stage = [view |-> "image", order |-> "natural", reversed |-> FALSE]
  /\ \E key \in Saved : facts = [key |-> key, complete |-> Known(key)]
  /\ list = Opened(project, stage)
  /\ current = list.leader
  /\ unheard = {} /\ scrambled = FALSE /\ lost = FALSE /\ events = 0

Next ==
  \/ \E p \in Listed :
       \/ \E how \in {"plain", "shift", "ctrl"} : Click(p, how)
       \/ \E keep \in BOOLEAN : GoToPage(p, keep)
       \/ StopBatchProcessing(p) \/ ChangePage(p) \/ InvalidateThumbnail(p)
  \/ SwitchStage \/ PageOrderingChanged \/ InvalidateAllThumbnails \/ RemoveFromProject
  \/ \E i \in DOMAIN project : SplitImage(i)
  \/ \E side \in {"before", "after"}, image \in {None} \cup Range(Images),
        halves \in {{}, {"left", "right"}} : InsertImage(side, image, halves)
Spec == Init /\ [][Next]_vars
-----------------------------------------------------------------------------
(* Properties.                                                             *)

\* Loops over selected items stop at the first that is not: they see them all.
\* If any is selected one of them is the leader, alone to be flagged, as a click
\* with Ctrl relies on without a test; and it is of the image the window shows,
\* unless the window was told of one whose image had left the project.
SelectionSound ==
  /\ SelectedItems(list) = list.selected
  /\ list.flagged = {list.leader} \ {NoPage}
  /\ list.selected # {} => list.leader \in list.selected
  /\ ~lost /\ list.leader # NoPage => current[1] = list.leader[1]

\* Completeness puts each of two equal pages before the other.
Before(st, incomplete, p, q) ==
  /\ ~Natural(st)
  /\ Precedes(st, p, p \in incomplete, q, q \in incomplete)
  /\ ~Precedes(st, q, q \in incomplete, p, p \in incomplete)

\* When the list has heard of every page that compares differently than before,
\* it is in order, unless a page was put in its place while another had moved
\* unheard, as that place is found by comparing with neighbours only, or was
\* inserted as what it is not.  Of the pages that a new mean moves it does not
\* hear by itself: it has to be told to look at all.
SortedUnlessOvertaken ==
  unheard = {} /\ ~scrambled =>
    \A i, j \in DOMAIN list.order :
      i < j => ~Before(stage, list.incomplete, list.order[j], list.order[i])

\* Another stage or order keeps the images that are selected, and the leader, as
\* far as they are still listed, in whole or in halves.
SelectionKept ==
  [][stage' # stage =>
       LET images(ps) == {p[1] : p \in ps}
           listed     == images(Range(list'.order))
       IN /\ images(list'.selected) = images(list.selected) \cap listed
          /\ list.leader[1] \in listed => list'.leader[1] = list.leader[1]
          /\ list.leader \in Range(list'.order) => list'.leader = list.leader]_vars
=============================================================================
