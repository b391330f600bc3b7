------------------------------ MODULE NavLayout ------------------------------
(***************************************************************************)
(* The reader's own sidebar (web: navLayout.ts, NavLayoutEditor.tsx and    *)
(* NewNavPagesNotice.tsx): a saved layout, of this release or an earlier   *)
(* one, is migrated to the pages there are; the editor works on the copy   *)
(* it took when it opened, by buttons and by dragging, and saves it 400 ms *)
(* after the last change; the notice offers the pages the layout never saw.*)
(*                                                                         *)
(* A save is one step that sticks or is undone: Preferences has the rest.  *)
(***************************************************************************)
EXTENDS Integers, Sequences, SequencesExt, FiniteSets

CONSTANTS
  NavItems,     \* the destinations below the dashboard, in their default order
  NavGroups,    \* the built-in groups: a sequence of [id, items]
  AddedIn2,     \* the destinations that arrived with version 2
  Retired,      \* built-in groups a later release took away
  Separators,   \* the separators the reader may add
  SavedBefore,  \* the layouts the preferences may hold at first
  MaxEdits,     \* bound: changes made in the editor
  None

VARIABLES
  saved,   \* preferences.navLayout: [version, groups], or None
  editor,  \* the groups the editor shows, or None while it is closed
  timer,   \* the groups the running save timer will write, or None
  drag,    \* [what, before] while something is dragged, or None
  edits    \* how many changes were made (a bound)

vars == <<saved, editor, timer, drag, edits>>

Destinations == ToSet(NavItems)
NAV_LAYOUT_VERSION == 2

Item(to, hidden) == [of |-> to, hidden |-> hidden]
Group(id, entries) == [id |-> id, own |-> FALSE, hidden |-> FALSE, entries |-> entries]

HasItems(g) == \E i \in DOMAIN g.entries : g.entries[i].of \in Destinations
PagesIn(groups) == {x \in Destinations : \E i \in DOMAIN groups :
                      \E j \in DOMAIN groups[i].entries : groups[i].entries[j].of = x}

defaultNavLayout ==
  [k \in DOMAIN NavGroups |->
     Group(NavGroups[k].id, [j \in DOMAIN NavGroups[k].items |-> Item(NavGroups[k].items[j], FALSE)])]

----------------------------------------------------------------------------
(* Migration. *)

isUnseen(to, layout) == to \in AddedIn2 /\ layout.version < NAV_LAYOUT_VERSION

unseenNavPages(layout) ==
  IF layout = None THEN {}
  ELSE {x \in Destinations : isUnseen(x, layout)} \ PagesIn(layout.groups)

\* One entry of a saved group: kept when it is a separator, or a page not met yet.
Accept(acc, e) ==
  IF e.of \in Separators THEN [acc EXCEPT !.kept = Append(@, e)]
  ELSE IF e.of \in Destinations \ acc.seen
       THEN [seen |-> acc.seen \cup {e.of}, kept |-> Append(acc.kept, e)]
       ELSE acc

Reading(seen, entries) == FoldLeft(Accept, [seen |-> seen, kept |-> << >>], entries)

KeepGroup(acc, g) ==
  LET read == Reading(acc.seen, g.entries)
      mine == [g EXCEPT !.entries = read.kept]
  IN  IF g.id = "settings" \/ (g.id \in Retired /\ ~g.own /\ ~HasItems(mine))
      THEN acc
      ELSE [seen |-> read.seen, groups |-> Append(acc.groups, mine)]
Keeping(groups) == FoldLeft(KeepGroup, [seen |-> {}, groups |-> << >>], groups)

At(groups, id) == SelectInSeq(groups, LAMBDA g : g.id = id)
HomeOf(to) == LET k == SelectInSeq(NavGroups, LAMBDA g : Contains(g.items, to))
              IN  NavGroups[k].id
Push(groups, k, e) == [groups EXCEPT ![k].entries = Append(@, e)]

\* A page in no group goes to its own: hidden, and with its group made for it,
\* when the layout never saw it; else shown, in the first group if its own is gone.
BackFill(layout, groups, to) ==
  IF to \in PagesIn(groups) THEN groups
  ELSE LET k == At(groups, HomeOf(to))
           alone == Group(HomeOf(to), <<Item(to, isUnseen(to, layout))>>)
       IN  IF k > 0 THEN Push(groups, k, Item(to, isUnseen(to, layout)))
           ELSE IF isUnseen(to, layout) \/ groups = << >> THEN Append(groups, alone)
           ELSE Push(groups, 1, Item(to, FALSE))

BackFilled(layout, kept) == FoldLeft(LAMBDA groups, to : BackFill(layout, groups, to), kept, NavItems)

migrateNavLayout(layout) ==
  IF layout = None THEN defaultNavLayout
  ELSE BackFilled(layout, Keeping(layout.groups).groups)

----------------------------------------------------------------------------
\* The ids of groups and the names of entries: built in, the reader's own, and saved
\* by whatever release.
GroupIds == {NavGroups[k].id : k \in DOMAIN NavGroups} \cup {"custom-1", "custom-2"}
  \cup UNION {{l.groups[k].id : k \in DOMAIN l.groups} : l \in SavedBefore \ {None}}
SavedNames == Destinations \cup Separators
  \cup UNION {UNION {{l.groups[k].entries[j].of : j \in DOMAIN l.groups[k].entries} :
                        k \in DOMAIN l.groups} : l \in SavedBefore \ {None}}
SavedEntries == [of : SavedNames, hidden : BOOLEAN]
SavedGroups == [id : GroupIds, own : BOOLEAN, hidden : BOOLEAN, entries : Seq(SavedEntries)]

OwnIds(groups) == \A i, k \in DOMAIN groups : groups[i].id = groups[k].id => i = k

\* A layout as some release saved it: it may miss pages, repeat them and name others.
SavedLayouts == {l \in [version : 1 .. NAV_LAYOUT_VERSION, groups : Seq(SavedGroups)] : OwnIds(l.groups)}

\* One that repeats no page, and keeps none in the old Settings group.
InOrder(l) ==
  \A i, k \in DOMAIN l.groups :
    \A j \in DOMAIN l.groups[i].entries : \A m \in DOMAIN l.groups[k].entries :
      LET x == l.groups[i].entries[j].of
      IN  x \in Destinations =>
            /\ l.groups[i].id # "settings"
            /\ x = l.groups[k].entries[m].of => i = k /\ j = m

SavedInOrder == \A l \in SavedBefore \ {None} : InOrder(l)

\* Of the constants: each page is built into one group, once; and the drags, which
\* take a name alone, cannot mistake a group, a page and a separator for each other.
NavConstants ==
  /\ NavItems \in Seq(Destinations)
  /\ NavGroups \in Seq([id : GroupIds \ {"settings"}, items : Seq(Destinations)]) /\ OwnIds(NavGroups)
  /\ \A x \in Destinations : \E k \in DOMAIN NavGroups : Contains(NavGroups[k].items, x)
  /\ \A k, l \in DOMAIN NavGroups :
       \A i \in DOMAIN NavGroups[k].items : \A j \in DOMAIN NavGroups[l].items :
         NavGroups[k].items[i] = NavGroups[l].items[j] => k = l /\ i = j
  /\ Destinations \cap Separators = {} /\ GroupIds \cap (Destinations \cup Separators) = {}
  /\ MaxEdits \in Nat
  /\ SavedBefore \subseteq SavedLayouts \cup {None} /\ None \notin SavedLayouts \cup Seq(SavedGroups)

----------------------------------------------------------------------------
(* The editor. *)

Layout(groups) == [version |-> NAV_LAYOUT_VERSION, groups |-> groups]

Init == /\ saved \in SavedBefore
        /\ editor = None /\ timer = None /\ drag = None /\ edits = 0

OpenEditor == /\ editor = None
              /\ editor' = migrateNavLayout(saved)
              /\ UNCHANGED <<saved, timer, drag, edits>>

\* Unmounting drops the timer, and the change it was to save.
CloseEditor == /\ editor # None
               /\ editor' = None /\ timer' = None /\ drag' = None
               /\ UNCHANGED <<saved, edits>>

\* A layout is written: it sticks, or the answer is an error and it is undone.
Write(groups) == saved' \in {saved, Layout(groups)}

TimerFires == /\ timer # None
              /\ Write(timer)
              /\ timer' = None
              /\ UNCHANGED <<editor, drag, edits>>

\* apply: shown now, and with save put on the timer, which starts again.
apply(groups, save) ==
  /\ editor' = groups
  /\ timer' = IF save THEN groups ELSE timer

Change(groups) == /\ edits < MaxEdits
                  /\ edits' = edits + 1
                  /\ apply(groups, TRUE)
                  /\ UNCHANGED <<saved, drag>>

newGroupId(groups) == CHOOSE id \in {"custom-1", "custom-2"} : At(groups, id) = 0

addGroup == /\ At(editor, "custom-1") = 0 \/ At(editor, "custom-2") = 0
            /\ Change(Append(editor, [Group(newGroupId(editor), << >>) EXCEPT !.own = TRUE]))

deleteGroup(k) == ~HasItems(editor[k]) /\ Change(RemoveAt(editor, k))

reset == Change(defaultNavLayout)

renameGroup(k) == ~editor[k].own /\ Change([editor EXCEPT ![k].own = TRUE])
toggleGroupHidden(k) == Change([editor EXCEPT ![k].hidden = ~@])

addSeparator(k) ==
  \E s \in Separators :
    /\ \A i \in DOMAIN editor : \A j \in DOMAIN editor[i].entries : editor[i].entries[j].of # s
    /\ Change(Push(editor, k, Item(s, FALSE)))

\* Only a separator has the button.
removeEntry(k, i) == /\ editor[k].entries[i].of \in Separators
                     /\ Change([editor EXCEPT ![k].entries = RemoveAt(@, i)])

toggleEntryHidden(k, i) == /\ editor[k].entries[i].of \in Destinations
                           /\ Change([editor EXCEPT ![k].entries[i].hidden = ~@])

\* What a group's card and an entry's row offer.
GroupCard(k) == deleteGroup(k) \/ renameGroup(k) \/ toggleGroupHidden(k) \/ addSeparator(k)
EntryRow(k, i) == removeEntry(k, i) \/ toggleEntryHidden(k, i)

Buttons == \/ addGroup
           \/ reset
           \/ \E k \in DOMAIN editor : GroupCard(k) \/ \E i \in DOMAIN editor[k].entries : EntryRow(k, i)

----------------------------------------------------------------------------
(* Dragging. What is dragged, and what it is over, is a group's id or an   *)
(* entry's name: the droppables of the page.                               *)

EntryNames(groups) == {x \in Destinations \cup Separators : \E i \in DOMAIN groups :
                         \E j \in DOMAIN groups[i].entries : groups[i].entries[j].of = x}
Droppables(groups) == {groups[i].id : i \in DOMAIN groups} \cup EntryNames(groups)

Find(entries, name) == SelectInSeq(entries, LAMBDA e : e.of = name)
containerOf(groups, name) ==
  SelectInSeq(groups, LAMBDA g : g.id = name \/ Find(g.entries, name) > 0)
arrayMove(s, i, j) == InsertAt(RemoveAt(s, i), j, s[i])

onDragStart == /\ drag = None /\ edits < MaxEdits
               /\ \E what \in Droppables(editor) : drag' = [what |-> what, before |-> editor]
               /\ edits' = edits + 1
               /\ UNCHANGED <<saved, editor, timer>>

\* (Mutant: the entry is put in the other group and stays in its own.)
MovedOverCopied(groups, what, over) ==
  LET from == containerOf(groups, what)
      to   == containerOf(groups, over)
      e    == groups[from].entries[Find(groups[from].entries, what)]
  IN  Push(groups, to, e)

\* An entry over another group moves there at once, unsaved.
MovedOver(groups, what, over) ==
  LET from == containerOf(groups, what)
      to   == containerOf(groups, over)
      e    == groups[from].entries[Find(groups[from].entries, what)]
      oi   == Find(groups[to].entries, over)
      at   == IF oi = 0 THEN Len(groups[to].entries) + 1 ELSE oi
  IN  [groups EXCEPT ![from].entries = RemoveAt(@, Find(@, what)),
                     ![to].entries   = InsertAt(@, at, e)]

onDragOver(over) ==
  /\ drag.what \in EntryNames(editor)
  /\ containerOf(editor, drag.what) # containerOf(editor, over)
  /\ apply(MovedOver(editor, drag.what, over), FALSE)
  /\ UNCHANGED <<saved, drag, edits>>

\* A group drops on another group or on an entry of one.
EndGroup(over) ==
  LET from == At(editor, drag.what)
      to   == containerOf(editor, over)
  IN  apply(IF from # to THEN arrayMove(editor, from, to) ELSE drag.before, TRUE)

\* An entry drops in the group it is in by now.
EndEntry(over) ==
  LET k    == containerOf(editor, drag.what)
      from == Find(editor[k].entries, drag.what)
      oi   == Find(editor[k].entries, over)
      to   == IF oi = 0 THEN Len(editor[k].entries) ELSE oi
  IN  apply([editor EXCEPT ![k].entries = arrayMove(@, from, to)], TRUE)

onDragEnd(over) ==
  /\ IF drag.what \in EntryNames(editor) THEN EndEntry(over) ELSE EndGroup(over)
  /\ drag' = None
  /\ UNCHANGED <<saved, edits>>

\* Escape, or let go over nothing.
onDragCancel == /\ apply(drag.before, FALSE)
                /\ drag' = None
                /\ UNCHANGED <<saved, edits>>

Dragging == \/ \E over \in Droppables(editor) : onDragOver(over) \/ onDragEnd(over)
            \/ onDragCancel

----------------------------------------------------------------------------
(* The notice, and the other tabs. *)

\* Either answer saves the migrated layout, with the pages shown or hidden.
decide(show) ==
  /\ unseenNavPages(saved) # {} /\ edits < MaxEdits
  /\ edits' = edits + 1
  /\ LET new == unseenNavPages(saved)
         shown(g) == [g EXCEPT !.entries = [j \in DOMAIN @ |->
                        IF @[j].of \in new THEN [@[j] EXCEPT !.hidden = FALSE] ELSE @[j]]]
         groups == migrateNavLayout(saved)
     IN  Write(IF show THEN [k \in DOMAIN groups |-> shown(groups[k])] ELSE groups)
  /\ UNCHANGED <<editor, timer, drag>>

\* Another tab saves one of the layouts it could hold.
AnotherTab == /\ edits < MaxEdits
              /\ edits' = edits + 1
              /\ \E l \in SavedBefore : saved' = Layout(migrateNavLayout(l))
              /\ UNCHANGED <<editor, timer, drag>>

Next == \/ OpenEditor \/ CloseEditor \/ TimerFires
        \/ editor # None /\ drag = None /\ (Buttons \/ onDragStart)
        \/ drag # None /\ Dragging
        \/ \E show \in BOOLEAN : decide(show)
        \/ AnotherTab

Spec == Init /\ [][Next]_vars

----------------------------------------------------------------------------

Layouts == {migrateNavLayout(saved)} \cup ({editor, timer} \ {None})
             \cup (IF drag = None THEN {} ELSE {drag.before})

\* Types: the editor and what waits in it go together.
TypeOK ==
  /\ saved = None \/ saved.version \in 1 .. NAV_LAYOUT_VERSION
  /\ editor = None => timer = None /\ drag = None
  /\ drag # None => drag.what \in Droppables(editor)
  /\ edits \in 0 .. MaxEdits

\* Where a page is: the group, and the place in it.
Places(groups, x) ==
  {p \in UNION {{i} \X DOMAIN groups[i].entries : i \in DOMAIN groups} :
     groups[p[1]].entries[p[2]].of = x}

\* No migration, button or drag loses a page of the menu or shows it twice, in
\* what is saved, shown, about to be saved or put back when a drag is dropped;
\* and no two groups share the id the drags and the buttons find them by.
EveryPageOnce ==
  \A groups \in Layouts :
    /\ \A x \in Destinations : Cardinality(Places(groups, x)) = 1
    /\ OwnIds(groups)

\* Is page x hidden in these groups (by itself)?
HiddenIn(groups, x) == \E i \in DOMAIN groups : Contains(groups[i].entries, Item(x, TRUE))

\* Migration keeps what the reader chose: a page of the saved layout is hidden
\* or shown as it was, one the layout never saw is hidden, one it should have
\* had is shown, and migrating what was migrated changes nothing.
ChoicesSurviveMigration ==
  saved # None =>
    LET groups == migrateNavLayout(saved)
    IN  /\ \A x \in Destinations :
             HiddenIn(groups, x) <=> IF x \in PagesIn(saved.groups) THEN HiddenIn(saved.groups, x)
                                                                   ELSE x \in unseenNavPages(saved)
        /\ migrateNavLayout(Layout(groups)) = groups

=============================================================================
