------------------------------ MODULE Dashboard ------------------------------
(***************************************************************************)
(* The overview's widgets (web: DashboardPage.tsx, GridDashboard.tsx and   *)
(* dashboard/layout.ts): the stored layout, of this model or the earlier   *)
(* one, is migrated and kept twice - by the page, which saves it half a    *)
(* second after the last change, and by the grid library, which owns the   *)
(* positions on screen and reports every change of them.                   *)
(***************************************************************************)
EXTENDS Integers, Sequences, SequencesExt, FiniteSets, FiniteSetsExt

CONSTANTS
  WIDGET_SIZES,   \* type -> [w, h, minW]
  DefaultTypes,   \* the types of the default layout, in order
  SavedLayouts,   \* what the preferences may hold at first
  Heights,        \* the heights a widget's content can have
  Presets,        \* the widths the size buttons ask for
  MaxMoves,       \* bound: changes made or reported
  MaxWidgets,     \* bound: widgets placed at once
  None

VARIABLES
  stored,    \* preferences.dashboardLayout
  layout,    \* the widgets of the page, or None while it is closed
  grid,      \* the grid's own positions in all its columns: id -> box
  wide,      \* does the window have room for the columns?
  pending,   \* the widgets the running save timer will write, or None
  editing,   \* is the layout being edited?
  moves

dashVars == <<stored, layout, grid, wide, pending, editing, moves>>

COLUMNS == 12
Types == DOMAIN WIDGET_SIZES

Ids(widgets) == {widgets[i].id : i \in DOMAIN widgets}
Box(p) == [x |-> p.x, y |-> p.y, w |-> p.w, h |-> p.h]
Boxes(widgets) == [id \in Ids(widgets) |-> Box(widgets[SelectInSeq(widgets, LAMBDA p : p.id = id)])]

----------------------------------------------------------------------------
(* The layouts. *)

\* The next size goes right of the last one, or starts a row below the highest of this.
NextRow(at, s) ==
  IF at.x + s.w > COLUMNS THEN [x |-> s.w, y |-> at.y + at.row, row |-> s.h,
                                out |-> Append(at.out, [x |-> 0, y |-> at.y + at.row])]
  ELSE [x |-> at.x + s.w, y |-> at.y, row |-> Max({at.row, s.h}),
        out |-> Append(at.out, [x |-> at.x, y |-> at.y])]

pack(sizes) == FoldLeft(NextRow, [x |-> 0, y |-> 0, row |-> 0, out |-> << >>], sizes).out

Placed(types, sizes) ==
  [i \in DOMAIN types |->
     [id |-> <<types[i], 1>>, type |-> types[i], x |-> pack(sizes)[i].x, y |-> pack(sizes)[i].y,
      w |-> sizes[i].w, h |-> sizes[i].h, config |-> None]]

DefaultSizes(types) == [i \in DOMAIN types |-> WIDGET_SIZES[types[i]]]
defaultLayout == Placed(DefaultTypes, DefaultSizes(DefaultTypes))

\* What s has in the places I, as the order before has them.
Arranged(s, I, before) ==
  LET p == CHOOSE p \in [1 .. Cardinality(I) -> I] :
             \A j, k \in DOMAIN p : j < k => <<p[j], p[k]>> \in before
  IN  [n \in DOMAIN p |-> s[p[n]]]
Those(s, I) == Arranged(s, I, {q \in I \X I : q[1] < q[2]})

\* Widgets in one place stay in the order they came in.
ReadingOrder(p, q) == p.y < q.y \/ (p.y = q.y /\ p.x < q.x)
Reads(widgets, i, k) == \/ ReadingOrder(widgets[i], widgets[k])
                        \/ ~ReadingOrder(widgets[k], widgets[i]) /\ i < k

tidyLayout(widgets) ==
  LET places  == DOMAIN widgets
      ordered == Arranged(widgets, places, {q \in places \X places : Reads(widgets, q[1], q[2])})
      sizes   == [i \in DOMAIN ordered |-> [w |-> Min({ordered[i].w, COLUMNS}), h |-> ordered[i].h]]
  IN  [i \in DOMAIN ordered |-> [ordered[i] EXCEPT !.w = sizes[i].w, !.x = pack(sizes)[i].x,
                                                   !.y = pack(sizes)[i].y]]

spanToWidth(span) == CASE span = "half" -> 6 [] span = "third" -> 4 [] OTHER -> 12

\* The earlier model: an order, with what it lacks of the default after it, each type
\* once, the hidden ones left out and a width for each span, if it has any.
FromLegacy(old) ==
  LET order == old.order \o DefaultTypes
      types == Those(order, {i \in DOMAIN order : /\ order[i] \in Types \ old.hidden
                                                 /\ \A k \in 1 .. i - 1 : order[k] # order[i]})
      Width(t) == IF old.spans = None THEN WIDGET_SIZES[t].w ELSE spanToWidth(old.spans[t])
  IN  Placed(types, [i \in DOMAIN types |-> [w |-> Width(types[i]), h |-> WIDGET_SIZES[types[i]].h]])

\* A layout of this model loses the types this release does not know.
migrateLayout(old) ==
  IF old = None THEN defaultLayout
  ELSE IF old.version = 1 THEN FromLegacy(old)
  ELSE LET known == Those(old.widgets, {i \in DOMAIN old.widgets : old.widgets[i].type \in Types})
       IN  IF known = << >> THEN defaultLayout ELSE known

V2(widgets) == [version |-> 2, widgets |-> widgets]
sameLayout(widgets, old) == V2(widgets) = old

newInstanceId(type, widgets) ==
  <<type, CHOOSE n \in 1 .. Len(widgets) + 1 :
            /\ <<type, n>> \notin Ids(widgets)
            /\ \A m \in 1 .. n - 1 : <<type, m>> \in Ids(widgets)>>

----------------------------------------------------------------------------
(* The grid library: it keeps its items packed upward, in one column on a  *)
(* narrow window. Packing them in some order stands for what it can show.  *)

Shown(widgets) ==
  IF wide THEN Boxes(tidyLayout(widgets))
  ELSE LET rows == pack([i \in DOMAIN widgets |-> [w |-> COLUMNS, h |-> widgets[i].h]])
       IN  Boxes([i \in DOMAIN widgets |-> [widgets[i] EXCEPT !.x = 0, !.y = rows[i].y, !.w = 1]])

\* The widgets of the page where the grid has them.
AsShown == [i \in DOMAIN layout |->
              LET b == grid[layout[i].id]
              IN  [layout[i] EXCEPT !.x = b.x, !.y = b.y, !.w = b.w, !.h = b.h]]

----------------------------------------------------------------------------

\* Widgets fit when each is inside the grid and at least its least width, and no two
\* share an id or overlap.
Apart(p, q) == p.x + p.w <= q.x \/ q.x + q.w <= p.x \/ p.y + p.h <= q.y \/ q.y + q.h <= p.y
Fit(widgets) ==
  /\ \A i \in DOMAIN widgets : /\ widgets[i].x + widgets[i].w <= COLUMNS
                               /\ widgets[i].w >= WIDGET_SIZES[widgets[i].type].minW
  /\ \A i, k \in DOMAIN widgets :
       i # k => widgets[i].id # widgets[k].id /\ Apart(widgets[i], widgets[k])

\* A widget on the page; its id is of its type.
PlacedWidgets ==
  {p \in [id : Types \X (Nat \ {0}), type : Types, x : Nat, y : Nat, w : Nat, h : Nat,
          config : {None, "set"}] : p.id[1] = p.type}

\* A layout as some release saved it: what it has of today's types fits.
IsSaved(old) ==
  \/ old.version = 1 /\ old.order \in Seq(ToSet(old.order))
  \/ /\ old.version = 2 /\ old.widgets \in Seq(ToSet(old.widgets))
     /\ LET known == {i \in DOMAIN old.widgets : old.widgets[i].type \in Types}
        IN  /\ \A i \in known : old.widgets[i] \in PlacedWidgets
            /\ Fit([i \in known |-> old.widgets[i]])

\* Of the constants: every type has a size that fits, and half and a third of the
\* grid are wide enough for any; the default has each type once.
DashConstants ==
  /\ \A t \in Types : LET size == WIDGET_SIZES[t]
                      IN  size.minW \in 1 .. 4 /\ size.w \in size.minW .. COLUMNS /\ size.h \in Nat
  /\ DefaultTypes \in Seq(Types)
  /\ \A i, k \in DOMAIN DefaultTypes : DefaultTypes[i] = DefaultTypes[k] => i = k
  /\ Heights \subseteq Nat /\ Presets \subseteq Nat /\ MaxMoves \in Nat /\ MaxWidgets \in Nat
  /\ \A old \in SavedLayouts \ {None} : IsSaved(old)

----------------------------------------------------------------------------
(* The page. *)

Init == /\ stored \in SavedLayouts
        /\ layout = None /\ grid = << >> /\ pending = None
        /\ wide \in BOOLEAN /\ editing = FALSE /\ moves = 0

Open == /\ layout = None
        /\ layout' = migrateLayout(stored)
        /\ grid' = Boxes(migrateLayout(stored))
        /\ UNCHANGED <<stored, wide, pending, editing, moves>>

\* Leaving drops the timer, and the change it was to save.
Leave == /\ layout # None
         /\ layout' = None /\ grid' = << >> /\ pending' = None /\ editing' = FALSE
         /\ UNCHANGED <<stored, wide, moves>>

commitLayout(widgets) == layout' = widgets /\ pending' = widgets

\* Only a layout that differs from the stored one is written; the write sticks,
\* or is undone, and the page says nothing of it.
TimerFires ==
  /\ pending # None
  /\ stored' \in {stored, IF sameLayout(pending, stored) THEN stored ELSE V2(pending)}
  /\ pending' = None
  /\ UNCHANGED <<layout, grid, wide, editing, moves>>

Counted == moves < MaxMoves /\ moves' = moves + 1

ToggleEditing == /\ layout # None
                 /\ editing' = ~editing
                 /\ UNCHANGED <<stored, layout, grid, wide, pending, moves>>

\* The items are built again only when the set of ids changes.
Rebuilt(widgets) == grid' = IF Ids(widgets) = Ids(layout) THEN grid ELSE Boxes(widgets)

Commit(widgets) == /\ Counted
                   /\ commitLayout(widgets)
                   /\ Rebuilt(widgets)
                   /\ UNCHANGED <<stored, wide, editing>>

tidy == Commit(tidyLayout(layout))
resetToDefault == Commit(defaultLayout)

\* A new instance goes on a row of its own below everything.
addWidget(type) ==
  /\ Len(layout) < MaxWidgets
  /\ LET bottom == Max({layout[i].y + layout[i].h : i \in DOMAIN layout} \cup {0})
     IN  Commit(Append(layout,
           [id |-> newInstanceId(type, layout), type |-> type, x |-> 0, y |-> bottom,
            w |-> WIDGET_SIZES[type].w, h |-> WIDGET_SIZES[type].h, config |-> None]))

removeWidget(id) == Commit(Those(layout, {i \in DOMAIN layout : layout[i].id # id}))

\* A widget's own settings: the positions are the page's, whatever the grid shows.
setConfig(id, c) == Commit([i \in DOMAIN layout |->
                              IF layout[i].id = id THEN [layout[i] EXCEPT !.config = c] ELSE layout[i]])

\* What the grid reports of its positions, when any of them is not the page's.
applyGridChange(boxes) ==
  IF \A i \in DOMAIN layout : Box(layout[i]) = boxes[layout[i].id]
  THEN UNCHANGED <<layout, pending>>
  ELSE commitLayout([i \in DOMAIN layout |->
         LET b == boxes[layout[i].id]
         IN  [layout[i] EXCEPT !.x = b.x, !.y = b.y, !.w = b.w, !.h = b.h]])

\* The "change" event: not from the one-column reflow.
Report(boxes) == IF wide THEN applyGridChange(boxes) ELSE UNCHANGED <<layout, pending>>

GridMoves(widgets) == /\ Counted
                      /\ grid' = IF wide THEN Shown(widgets) ELSE grid
                      /\ Report(Shown(widgets))
                      /\ UNCHANGED <<stored, wide, editing>>

\* Dragged past another widget, or sized by hand or by its buttons.
Drag == editing /\ \E i \in 1 .. Len(layout) - 1 :
          LET y == AsShown[i].y
          IN  GridMoves([AsShown EXCEPT ![i].y = AsShown[i + 1].y, ![i + 1].y = y,
                                        ![i].x = AsShown[i + 1].x, ![i + 1].x = AsShown[i].x])
sizePresets(type) == {Min({Max({w, WIDGET_SIZES[type].minW}), COLUMNS}) : w \in Presets}
resizeWidget == editing /\ \E i \in DOMAIN layout : \E w \in sizePresets(layout[i].type) :
                  GridMoves([AsShown EXCEPT ![i].w = w])
\* A widget's content has come, or grown: its height follows it.
resizeToContent == \E i \in DOMAIN layout : \E h \in Heights :
                     GridMoves([AsShown EXCEPT ![i].h = h])

\* The window crosses the breakpoint: the grid reflows, keeping its positions.
Reflow == /\ wide' = ~wide
          /\ UNCHANGED <<stored, layout, grid, pending, editing, moves>>

WidgetFrame(i) == editing /\ removeWidget(layout[i].id)
Toolbar == editing /\ (tidy \/ resetToDefault \/ \E type \in Types : addWidget(type))

Page == \/ Toolbar \/ Drag \/ resizeWidget \/ resizeToContent
        \/ \E i \in DOMAIN layout : WidgetFrame(i) \/ setConfig(layout[i].id, "set")

Next == \/ Open \/ Leave \/ TimerFires \/ ToggleEditing \/ Reflow
        \/ layout # None /\ Page

Spec == Init /\ [][Next]_dashVars

----------------------------------------------------------------------------

\* Types: what the grid holds is what the page placed.
TypeOK ==
  /\ stored = None \/ stored.version \in {1, 2}
  /\ wide \in BOOLEAN /\ editing \in BOOLEAN /\ moves \in 0 .. MaxMoves
  /\ IF layout = None THEN grid = << >> /\ pending = None /\ ~editing
     ELSE DOMAIN grid = Ids(layout) /\ Len(layout) <= MaxWidgets

\* In a layout that is shown, stored or about to be stored no two widgets
\* overlap or share an id, and each is inside the grid and at least its least
\* width: tidying, migrating, adding and removing, on a phone as on a desktop.
WidgetsFit ==
  \A widgets \in {migrateLayout(stored)} \cup ({layout, pending} \ {None}) : Fit(widgets)

=============================================================================
