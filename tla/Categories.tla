----------------------------- MODULE Categories ------------------------------
(***************************************************************************)
(* Categories (web: CategoriesPage.tsx and categories/: categoryTree.ts,    *)
(* CategorySheet, CategoryModals, CategoryViews; server: internal/category):*)
(* the tree of groups and subcategories, its two sections and their         *)
(* filters, the sheet that renames, moves and retypes, merging and deleting.*)
(* Another tab edits the same tree, and the page's list and its figures are *)
(* answers read at different times.  A name is <<word, spelling>>; `hidden' *)
(* stands for the two switches, which are kept alike.                       *)
(***************************************************************************)
EXTENDS Integers, FiniteSets, FiniteSetsExt, Functions

CONSTANTS
  AtFirst,   \* what it may start with: [rows: id -> [name, parent, income, hidden], lines: line -> category]
  LinesOf,   \* what each line holds: line -> [amount, recent]
  Names,     \* what the reader types
  Overlap,   \* another tab's request is served between two statements of this one's
  MaxCalls, MaxEdits, MaxOthers, \* bounds
  None

VARIABLES
  rows, lines, next,   \* the server's: the tree, line -> category or None, the next id
  seen, held,          \* the page's copies: the list, and category -> [count, amount]
  filter, folded,      \* [kind, word, unusedOnly]; the groups folded
  phone, view,         \* a phone's list; "rows" or "index"
  sheet, form,         \* [open, editing, preset]; [name, parent, income, hidden]
  merging, deleting, target,  \* the dialogs' categories, and the one chosen in them
  call, made, edits, others,
  ended, strays, placed \* history: ids ended as asked; subcategories that came with another
                       \* kind; where the last save put its category

catVars == <<rows, lines, next, seen, held, filter, folded, phone, view, sheet, form, merging, deleting,
             target, call, made, edits, others, ended, strays, placed>>
look == <<filter, folded, phone, view>>
server == <<rows, lines, next, ended, strays, placed>>
page == <<look, sheet, form, merging, deleting, target>>

(* The server. *)
Level(c, p) == {x \in DOMAIN c : c[x].parent = p}
Point(f, from, to) == [x \in DOMAIN f |-> IF f[x] = from THEN to ELSE f[x]]
Duplicate(c, except, p, name) == \E x \in Level(c, p) \ {except} : c[x].name[1] = name[1]
\* The constraints of the table: a parent that is there, no name twice under one.
Accepts(c) == /\ \A x \in DOMAIN c : c[x].parent \in DOMAIN c \cup {None}
              /\ \A x, y \in DOMAIN c :
                   x # y /\ c[x].parent = c[y].parent /\ c[x].parent # None => c[x].name # c[y].name
\* Where a request puts its category: without a parent of its own it stays.
Place(c, in) == IF in.id = None \/ in.moves THEN in.parent ELSE c[in.id].parent
Checks(c, in) ==
  /\ in.id \in DOMAIN c \cup {None}
  /\ LET p == Place(c, in)
     IN /\ p # None => /\ p # in.id /\ p \in DOMAIN c /\ c[p].parent = None
                       /\ in.id # None /\ c[in.id].parent = None => Level(c, in.id) = {}
        /\ ~Duplicate(c, in.id, p, in.name)
Row(c, in) == LET p == Place(c, in)
              IN [name |-> in.name, parent |-> p, hidden |-> in.hidden,
                  income |-> IF p = None THEN in.income ELSE c[p].income]
SetChildrenIncome(c, id) ==
  [x \in DOMAIN c |-> IF c[x].parent = id THEN [c[x] EXCEPT !.income = c[id].income] ELSE c[x]]
MergeChecks(c, s, t) == s # t /\ {s, t} \subseteq DOMAIN c /\ (Level(c, s) # {} => c[t].parent = None)
DeleteChecks(c, s, t) == s \in DOMAIN c /\ (Level(c, s) # {} => t \in Level(c, None))
ReparentChildren(c, s, t) ==
  [x \in DOMAIN c |-> IF c[x].parent = s THEN [c[x] EXCEPT !.parent = t] ELSE c[x]]
\* DELETE takes the subcategories that still name it.
DeleteCategory(c, s) == [x \in DOMAIN c \ ({s} \cup Level(c, s)) |-> c[x]]
Tree(s, t) == DeleteCategory(ReparentChildren(rows, s, t), s)
\* One transaction: none of it when the database refuses a name or a target.
reassignAndDelete(s, t) ==
  LET moved == Point(lines, s, t)
  IN IF /\ Accepts(ReparentChildren(rows, s, t)) /\ s \in DOMAIN rows
        /\ \A l \in DOMAIN moved : moved[l] \in DOMAIN Tree(s, t) \cup {None}
     THEN /\ rows' = Tree(s, t) /\ lines' = moved
          /\ ended' = ended \cup {s}
          /\ strays' = (strays \cup (IF t = None THEN {} ELSE Level(rows, s))) \ {s}
     ELSE UNCHANGED <<rows, lines, ended, strays>>

(* The page's list (categoryTree.ts). *)
CategoryActivity ==
  [c \in DOMAIN rows |->
     LET its == {l \in DOMAIN lines : lines[l] = c /\ LinesOf[l].recent}
     IN [count |-> Cardinality(its), amount |-> MapThenSumSet(LAMBDA l : LinesOf[l].amount, its)]]
Own(c) == IF c \in DOMAIN held THEN held[c] ELSE [count |-> 0, amount |-> 0]
Figure(cs, f) == MapThenSumSet(LAMBDA c : Own(c)[f], cs)
\* By kind: each group with its subcategories, and the figures of them all.
buildSections ==
  [k \in BOOLEAN |->
     LET gs == {g \in Level(seen, None) : seen[g].income = k}
         all == gs \cup UNION {Level(seen, g) : g \in gs}
     IN [groups |-> [g \in gs |-> Level(seen, g)],
         count |-> Figure(all, "count"), total |-> Figure(all, "amount")]]
isUnused(c) == Own(c).count = 0 /\ (seen[c].parent # None \/ Level(seen, c) = {})
All(groups) == DOMAIN groups \cup UNION Range(groups)
unusedCount == Cardinality({c \in All(buildSections[FALSE].groups) \cup All(buildSections[TRUE].groups) : isUnused(c)})
Hit(c) == filter.word = None \/ seen[c].name[1] = filter.word
\* "Unused" filters nothing once none is: its chip is gone.
unusedOnly == filter.unusedOnly /\ unusedCount > 0
\* A group that matches keeps its subcategories; another stays for those that match.
filterSections ==
  [k \in (IF filter.kind = None THEN BOOLEAN ELSE {filter.kind}) |->
     LET groups == buildSections[k].groups
         subs(g) == {c \in groups[g] : (Hit(g) \/ Hit(c)) /\ (unusedOnly => isUnused(c))}
     IN [g \in {g \in DOMAIN groups : \/ Hit(g) /\ (unusedOnly => isUnused(g))
                                      \/ subs(g) # {}} |-> subs(g)]]
shown == UNION {All(filterSections[k]) : k \in DOMAIN filterSections}
\* A search shows every match, whatever was folded.
drawn == {c \in shown : seen[c].parent = None \/ filter.word # None \/ seen[c].parent \notin folded}

(* The sheet. *)
Empty == [name |-> None, parent |-> None, income |-> FALSE, hidden |-> FALSE]
Closed == [open |-> FALSE, editing |-> None, preset |-> None]
Snap(c) == [id |-> c, name |-> seen[c].name, parent |-> seen[c].parent,
            income |-> seen[c].income, hidden |-> seen[c].hidden]
\* Filled as it opens, from the row as it was pressed.
Opened(editing, preset) ==
  /\ sheet' = [open |-> TRUE, editing |-> editing, preset |-> preset]
  /\ form' = IF editing # None
             THEN [name |-> editing.name, parent |-> editing.parent, income |-> editing.income, hidden |-> editing.hidden]
             ELSE IF preset # None THEN [Empty EXCEPT !.parent = preset.id, !.income = preset.income]
             ELSE Empty
EditedId == IF sheet.editing = None THEN None ELSE sheet.editing.id
tops == Level(seen, None) \ {EditedId}
hasSubs == sheet.editing # None /\ Level(seen, EditedId) # {}
\* The group chosen, while the list has it.
parent == IF form.parent \in tops THEN form.parent ELSE None
kindIncome == IF parent # None THEN seen[parent].income ELSE form.income
duplicate == Duplicate(seen, EditedId, parent, form.name)
\* An edit moves its category only when its group changed.
Moves == sheet.editing = None \/ sheet.editing.parent # parent
body == [id |-> EditedId, name |-> form.name, income |-> kindIncome, hidden |-> form.hidden,
         moves |-> Moves, parent |-> parent]

Idle == [kind |-> None, step |-> "idle"]
Init == /\ \E w \in AtFirst :
             /\ rows = w.rows /\ lines = w.lines /\ next = Max(DOMAIN w.rows) + 1
        /\ seen = rows /\ held = CategoryActivity
        /\ filter = [kind |-> None, word |-> None, unusedOnly |-> FALSE] /\ folded = {} /\ phone \in BOOLEAN /\ view = "rows"
        /\ sheet = Closed /\ form = Empty /\ merging = None /\ deleting = None /\ target = None
        /\ call = Idle /\ made = 0 /\ edits = 0 /\ others = 0
        /\ ended = {} /\ strays = {} /\ placed = None

rest == ~sheet.open /\ merging = None /\ deleting = None
Edit == edits < MaxEdits /\ edits' = edits + 1 /\ UNCHANGED <<server, seen, held, call, made, others>>
Send(kind, arg) == /\ made < MaxCalls /\ made' = made + 1 /\ call.kind = None
                   /\ call' = [kind |-> kind, step |-> "sent", arg |-> arg]
                   /\ UNCHANGED <<server, seen, held, edits, others>>

Filter == /\ Edit /\ rest /\ UNCHANGED <<folded, phone, view, sheet, form, merging, deleting, target>>
          /\ \/ \E k \in BOOLEAN \cup {None} : filter' = [filter EXCEPT !.kind = k]
             \/ \E w \in {n[1] : n \in Names} \cup {None} : filter' = [filter EXCEPT !.word = w]
             \/ unusedCount > 0 /\ filter' = [filter EXCEPT !.unusedOnly = ~@]
openAdd == Edit /\ rest /\ Opened(None, None) /\ UNCHANGED <<look, merging, deleting, target>>
onOpen(c) == Opened(Snap(c), None) /\ UNCHANGED <<merging, deleting, target>>
onAddSub(g) == g.parent = None /\ Opened(None, g) /\ UNCHANGED <<merging, deleting, target>>
\* Merge and Delete shut the sheet; their choice starts empty.
onMerge(c) == merging' = c /\ target' = None /\ sheet' = [sheet EXCEPT !.open = FALSE] /\ UNCHANGED <<form, deleting>>
onDelete(c) == deleting' = c /\ target' = None /\ sheet' = [sheet EXCEPT !.open = FALSE] /\ UNCHANGED <<form, merging>>
toggle == /\ ~phone /\ view = "rows" /\ Edit /\ rest
          /\ \E k \in DOMAIN filterSections : \E g \in DOMAIN filterSections[k] :
               filterSections[k][g] # {} /\ folded' = (IF g \in folded THEN folded \ {g} ELSE folded \cup {g})
          /\ UNCHANGED <<filter, phone, view, sheet, form, merging, deleting, target>>
setView == /\ ~phone /\ Edit /\ rest /\ view' \in {"rows", "index"} \ {view}
           /\ UNCHANGED <<filter, folded, phone, sheet, form, merging, deleting, target>>
RowMenu(c) == onOpen(c) \/ onAddSub(Snap(c)) \/ onMerge(Snap(c)) \/ onDelete(Snap(c))
CategoryRows == /\ ~phone /\ view = "rows" /\ Edit /\ rest /\ UNCHANGED look
                /\ \E c \in drawn : RowMenu(c)
CategoryIndex == /\ ~phone /\ view = "index" /\ Edit /\ rest /\ UNCHANGED look
                 /\ \E c \in shown : onOpen(c) \/ onAddSub(Snap(c))
CategoryPhoneList == /\ phone /\ Edit /\ rest /\ UNCHANGED look
                     /\ \E c \in shown : onOpen(c)
SheetMenu == /\ Edit /\ sheet.open /\ sheet.editing # None /\ UNCHANGED look
             /\ onAddSub(sheet.editing) \/ onMerge(sheet.editing) \/ onDelete(sheet.editing)
\* The group is locked while it has subcategories; the kind is asked of a group only.
CategorySheet ==
  /\ Edit /\ sheet.open /\ UNCHANGED <<look, sheet, merging, deleting, target>>
  /\ \/ \E n \in Names : form' = [form EXCEPT !.name = n]
     \/ ~hasSubs /\ \E p \in tops \cup {None} : form' = [form EXCEPT !.parent = p]
     \/ parent = None /\ form' = [form EXCEPT !.income = ~@]
     \/ form' = [form EXCEPT !.hidden = ~@]
save == /\ sheet.open /\ form.name # None /\ ~duplicate /\ UNCHANGED page
        /\ Send("save", [in |-> body, gone |-> form.parent # parent, was |-> IF sheet.editing = None THEN None ELSE sheet.editing.parent])
Close == /\ ~rest /\ sheet' = [sheet EXCEPT !.open = FALSE] /\ merging' = None /\ deleting' = None
         /\ UNCHANGED <<server, seen, held, look, form, target, call, made, edits, others>>
MergeModal == \/ /\ merging # None /\ Edit /\ target' \in DOMAIN seen \ {merging.id}
                 /\ UNCHANGED <<look, sheet, form, merging, deleting>>
              \/ /\ merging # None /\ target # None /\ UNCHANGED page
                 /\ Send("merge", [from |-> merging.id, to |-> target])
hasChildren == Level(seen, deleting.id) # {}
DeleteCategoryModal ==
  \/ /\ deleting # None /\ Edit /\ hasChildren /\ target' \in Level(seen, None) \ {deleting.id}
     /\ UNCHANGED <<look, sheet, form, merging, deleting>>
  \/ /\ deleting # None /\ (hasChildren => target # None) /\ UNCHANGED page
     /\ Send("remove", [from |-> deleting.id, to |-> target])

(* The server takes the call: its checks, then what it writes. *)
Allowed == CASE call.kind = "save" -> Checks(rows, call.arg.in)
             [] call.kind = "merge" -> MergeChecks(rows, call.arg.from, call.arg.to)
             [] OTHER -> DeleteChecks(rows, call.arg.from, call.arg.to)
Check == /\ call.step = "sent" /\ UNCHANGED <<server, seen, held, page, made, edits, others>>
         /\ call' = IF ~Allowed THEN [call EXCEPT !.step = "refused"]
                    ELSE IF call.kind = "save"
                    THEN [kind |-> "save", step |-> "checked", arg |-> call.arg, row |-> Row(rows, call.arg.in)]
                    ELSE [call EXCEPT !.step = "checked"]
Write == /\ call.step = "checked" /\ call.kind = "save" /\ UNCHANGED <<lines, ended, seen, held, page, made, edits, others>>
         /\ LET id == IF call.arg.in.id = None THEN next ELSE call.arg.in.id
                there == id = next \/ id \in DOMAIN rows
                after == IF there THEN [x \in DOMAIN rows \cup {id} |-> IF x = id THEN call.row ELSE rows[x]] ELSE rows
            IN IF ~Accepts(after)
               THEN call' = [call EXCEPT !.step = "refused"] /\ UNCHANGED <<rows, next, strays, placed>>
               ELSE /\ rows' = after /\ next' = Max({next, id + 1})
                    /\ strays' = (strays \ {id}) \cup (IF call.row.parent = None THEN Level(rows, id) ELSE {})
                    /\ placed' = IF id = next \/ ~there THEN None
                                ELSE [was |-> call.arg.was, gone |-> call.arg.gone, shown |-> call.arg.in.parent,
                                      from |-> rows[id].parent, to |-> call.row.parent]
                    /\ call' = [call EXCEPT !.step = IF ~there THEN "refused"
                                                    ELSE IF call.arg.in.id # None /\ call.row.parent = None THEN "written"
                                                    ELSE "ok"]
\* A group's kind goes down to its subcategories in a statement of its own.
Cascade == /\ call.step = "written" /\ UNCHANGED <<lines, next, ended, placed, seen, held, page, made, edits, others>>
           /\ LET id == call.arg.in.id
              IN IF id \in DOMAIN rows
                 THEN /\ rows' = SetChildrenIncome(rows, id) /\ strays' = strays \ Level(rows, id)
                      /\ call' = [call EXCEPT !.step = "ok"]
                 ELSE call' = [call EXCEPT !.step = "refused"] /\ UNCHANGED <<rows, strays>>
End == /\ call.step = "checked" /\ call.kind \in {"merge", "remove"}
       /\ reassignAndDelete(call.arg.from, call.arg.to)
       /\ call' = [call EXCEPT !.step = IF call.arg.from \in DOMAIN rows' THEN "refused" ELSE "ok"]
       /\ UNCHANGED <<next, placed, seen, held, page, made, edits, others>>
\* The request or its answer is lost: what it has written stays.
Stop == /\ call.step \in {"sent", "checked", "written", "ok"} /\ call' = [call EXCEPT !.step = "refused"]
        /\ UNCHANGED <<server, seen, held, page, made, edits, others>>
\* A save that was taken shuts the sheet, a merge and a deletion their dialog.
Answer == /\ call.step \in {"ok", "refused"} /\ call' = Idle
          /\ LET ok(k) == call.step = "ok" /\ call.kind = k
             IN /\ sheet' = IF ok("save") THEN [sheet EXCEPT !.open = FALSE] ELSE sheet
                /\ merging' = IF ok("merge") THEN None ELSE merging
                /\ deleting' = IF ok("remove") THEN None ELSE deleting
          /\ UNCHANGED <<server, seen, held, look, form, target, made, edits, others>>

\* The page's two queries, read again after a change, on a focus or at a reconnection.
Refetch == \/ seen # rows /\ seen' = rows /\ UNCHANGED held
           \/ held # CategoryActivity /\ held' = CategoryActivity /\ UNCHANGED seen
ReadAgain == Refetch /\ UNCHANGED <<server, page, call, made, edits, others>>

\* Another tab's request, served whole.
Other == /\ others < MaxOthers /\ others' = others + 1
         /\ Overlap \/ call.step \notin {"checked", "written"}
         /\ UNCHANGED <<seen, held, page, call, made, edits, placed>>
         /\ \/ \E c \in DOMAIN rows : \E p \in DOMAIN rows \cup {None} : \E i \in BOOLEAN :
                 LET in == [id |-> c, name |-> rows[c].name, income |-> i, hidden |-> rows[c].hidden,
                            moves |-> TRUE, parent |-> p]
                     after == [rows EXCEPT ![c] = Row(rows, in)]
                 IN /\ Checks(rows, in) /\ Row(rows, in) # rows[c] /\ Accepts(after)
                    /\ rows' = SetChildrenIncome(after, c) /\ strays' = strays \ ({c} \cup Level(rows, c))
                    /\ UNCHANGED <<lines, next, ended>>
            \/ \E s \in DOMAIN rows : \E t \in DOMAIN rows \cup {None} :
                 /\ IF t = None THEN DeleteChecks(rows, s, t) ELSE MergeChecks(rows, s, t)
                 /\ reassignAndDelete(s, t) /\ UNCHANGED next

Next == \/ Filter \/ toggle \/ setView \/ openAdd \/ CategoryRows \/ CategoryIndex \/ CategoryPhoneList \/ SheetMenu \/ CategorySheet \/ save \/ Close
        \/ MergeModal \/ DeleteCategoryModal
        \/ Check \/ Write \/ Cascade \/ End \/ Stop \/ Answer \/ ReadAgain \/ Other
Spec == Init /\ [][Next]_catVars

-----------------------------------------------------------------------------
\* A line is of a category that is there or of none, a parent is there too, and
\* the figures are of categories that were.
TypeOK == /\ Accepts(rows) /\ \A l \in DOMAIN lines : lines[l] \in DOMAIN rows \cup {None}
          /\ DOMAIN rows \cup DOMAIN seen \cup DOMAIN held \subseteq 1 .. next - 1
          /\ call.step \in {"idle", "sent", "checked", "written", "ok", "refused"}

\* However the tree is moved, merged and deleted from two tabs, no category goes but
\* by its own merge or deletion, and the page has each one of its list in one
\* place of one section, whose figures are all its categories' (category/service.go,
\* categoryTree.ts).
EveryCategoryOnce ==
  /\ DOMAIN rows = 1 .. next - 1 \ ended
  /\ \A c \in DOMAIN seen :
       Cardinality({<<k, g>> \in BOOLEAN \X DOMAIN seen :
                      LET groups == buildSections[k].groups
                      IN g \in DOMAIN groups /\ (g = c \/ c \in groups[g])}) = 1
  /\ buildSections[FALSE].total + buildSections[TRUE].total = Figure(DOMAIN seen, "amount")

\* A filter never empties the page with nothing left to press: with every kind and no
\* search, a list that is not empty shows something, and "Unused", pressed, as
\* many unused ones as its chip counts (categoryTree.ts, CategoriesPage.tsx:91-103).
NeverStuck ==
  filter.kind = None /\ filter.word = None /\ DOMAIN seen # {} =>
    /\ shown # {}
    /\ filter.unusedOnly => Cardinality({c \in shown : isUnused(c)}) = unusedCount

\* A save puts its category in the group the reader chose, and leaves it where it has
\* got to when they chose none, whatever another tab has made of it since the
\* sheet was opened.  Not when the group it was opened with has left the list: the
\* save then makes it a group (CategorySheet.tsx:119-132).
MovesAreChosen ==
  placed # None /\ ~placed.gone =>
    placed.to = IF placed.shown = placed.was THEN placed.from ELSE placed.shown

\* A subcategory has its group's kind, unless a merge or a deletion brought it there
\* from a group of the other kind, or the statement that hands the kind down was
\* never run (category/service.go, Create and Update).
KindsFollow ==
  \A c \in DOMAIN rows \ strays : rows[c].parent # None => rows[c].income = rows[rows[c].parent].income
=============================================================================
