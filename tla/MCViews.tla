------------------------------ MODULE MCViews -------------------------------
(* How the reader set the app up to look, in small: the sidebar, the overview,  *)
(* the reports and the categories.  A behaviour is of one of the four.          *)
EXTENDS Integers, Sequences

CONSTANTS
  Parts,   \* those this instance runs
  LastDay,   \* of the reports
  None

VARIABLES
  part,   \* the one this behaviour is of
  saved, editor, timer, drag, edits, stored, layout, grid, wide, pending, editing,
  moves, url, views, today, phone, picked, expanded, picking, steps,
  rows, lines, next, seen, held, filter, folded, view, sheet, form, merging, deleting,
  target, call, made, others, ended, strays, placed

\* The sidebar, never customised; an older one with bank pages and a hidden page;
\* one whose groups are the reader's own, with a page missing.
Items == <<"/accounts", "/goals", "/tags", "/payees">>
BuiltIn == << [id |-> "money", items |-> <<"/accounts">>],
              [id |-> "planning", items |-> <<"/goals">>],
              [id |-> "wallet", items |-> <<"/payees", "/tags">>] >>
Older(gs) == [version |-> 1, groups |-> gs]
Entry(to, hidden) == [of |-> to, hidden |-> hidden]
Group(id, own, es) == [id |-> id, own |-> own, hidden |-> FALSE, entries |-> es]
Sidebars == {None,
  Older(<<Group("banking", FALSE, <<Entry("/review", FALSE)>>),
          Group("money", FALSE, <<Entry("/accounts", FALSE), Entry("s1", FALSE)>>),
          Group("wallet", FALSE, <<Entry("/tags", TRUE), Entry("/goals", FALSE)>>),
          Group("settings", FALSE, <<Entry("/settings", FALSE)>>)>>),
  Older(<<Group("custom-1", TRUE, <<Entry("/tags", FALSE), Entry("/accounts", TRUE)>>),
          Group("banking", TRUE, <<Entry("/review", FALSE)>>)>>)}

\* The overview, never arranged; of the earlier model; of this one, with a widget
\* that is no more.
Sizes == [bills |-> [w |-> 6, h |-> 4, minW |-> 3], kpi |-> [w |-> 3, h |-> 2, minW |-> 2]]
At(id, x, y, w, h) == [id |-> <<id, 1>>, type |-> id, x |-> x, y |-> y, w |-> w, h |-> h, config |-> None]
Overviews == {None,
  [version |-> 1, order |-> <<"kpi", "gone">>, hidden |-> {}, spans |-> [bills |-> "", kpi |-> "half"]],
  [version |-> 1, order |-> <<"kpi", "kpi">>, hidden |-> {"gone"}, spans |-> None],
  [version |-> 2, widgets |-> <<At("bills", 0, 2, 6, 4), At("kpi", 8, 0, 4, 2), At("gone", 0, 0, 6, 2)>>]}

\* The reports, from the end of January 2024: a category with a child, a split, a
\* transfer and an income.
One(c, a) == { [n |-> 1, category |-> c, amount |-> a] }
Txn(id, date, account, amount, ls, payee, tags, transfer) ==
  [id |-> id, date |-> date, account |-> account, amount |-> amount, lines |-> ls,
   payee |-> payee, tags |-> tags, transfer |-> transfer]
Parents == [food |-> None, bread |-> "food", home |-> None, pay |-> None, fun |-> None]
Moved ==
  { Txn(1, -5, "cash", -3, One("bread", -3), "baker", {"a"}, FALSE),
    Txn(2, 8, "cash", -5, One("bread", -5), "baker", {"a", "b"}, FALSE),
    Txn(3, 29, "bank", -7, { [n |-> 1, category |-> "food", amount |-> -9],
                             [n |-> 2, category |-> "pay", amount |-> 2] }, "shop", {}, FALSE),
    Txn(4, 30, "bank", -11, One("home", -11), "shop", {"b"}, FALSE),
    Txn(5, 30, "bank", 40, One("pay", 40), None, {}, FALSE),
    Txn(7, 20, "cash", -1, One("fun", -1), "club", {"c"}, FALSE),
    Txn(6, 12, "bank", -20, One(None, -20), None, {}, TRUE) }
Controls ==
  [transfers |-> {"all", "only", "none"}, categoryId |-> {"bread"}, tags |-> {{"a"}},
   amountMax |-> {None}, hideFuture |-> BOOLEAN]
OldViews ==
  { [tab |-> "trend", name |-> "old", groupBy |-> "subcategory",
      filters |-> [transfers |-> "all"]] }

\* The categories: a group with a line and an unused subcategory, and an income.
Category(name, in, income) == [name |-> name, parent |-> in, income |-> income, hidden |-> FALSE]
Trees == { [rows |-> <<Category(<<"food", 1>>, None, FALSE), Category(<<"bread", 1>>, 1, FALSE),
                       Category(<<"pay", 1>>, None, TRUE)>>,
            lines |-> <<1, 2, 3>>] }
Lines == <<[amount |-> -3, recent |-> TRUE], [amount |-> -5, recent |-> FALSE],
           [amount |-> 7, recent |-> TRUE]>>

-----------------------------------------------------------------------------
N == INSTANCE NavLayout
  WITH NavItems <- Items, NavGroups <- BuiltIn, AddedIn2 <- {"/payees"},
       Retired <- {"banking"}, Separators <- {"s1"}, SavedBefore <- Sidebars,
       MaxEdits <- 2
D == INSTANCE Dashboard
  WITH WIDGET_SIZES <- Sizes, DefaultTypes <- <<"bills", "kpi">>,
       SavedLayouts <- Overviews, Heights <- {2, 5}, Presets <- {4, 12}, MaxMoves <- 3,
       MaxWidgets <- 3
R == INSTANCE Reports
  WITH Movements <- Moved, ParentOf <- Parents, Offered <- Controls,
       Accounts <- {"cash", "bank"}, Vehicles <- <<"car", "van">>, Names <- {"mine"},
       AtFirst <- OldViews, TopRows <- 1, FirstToday <- 30, LastToday <- LastDay,
       MaxSteps <- 3
C == INSTANCE Categories
  WITH AtFirst <- Trees, LinesOf <- Lines, Names <- {<<"bread", 2>>}, Overlap <- FALSE,
       MaxCalls <- 1, MaxEdits <- 2, MaxOthers <- 1

\* Variables a part does not have are None in its behaviours.
categoryVars == <<rows, lines, next, seen, held, filter, folded, view, sheet, form, merging,
    deleting, target, call, made, others, ended, strays, placed>>
sidebarVars == <<saved, editor, timer, drag>>
overviewVars == <<stored, layout, grid, wide, pending, editing, moves>>
reportVars == <<url, views, today, picked, expanded, picking, steps>>
NoSidebar ==
  /\ saved = None /\ editor = None /\ timer = None /\ drag = None
NoOverview ==
  /\ stored = None /\ layout = None /\ grid = None /\ wide = None
  /\ pending = None /\ editing = None /\ moves = None
NoReports ==
  /\ url = None /\ views = None /\ today = None /\ picked = None
  /\ expanded = None /\ picking = None /\ steps = None
NoCategories ==
  /\ rows = None /\ lines = None /\ next = None /\ seen = None
  /\ held = None /\ filter = None /\ folded = None /\ view = None
  /\ sheet = None /\ form = None /\ merging = None /\ deleting = None
  /\ target = None /\ call = None /\ made = None /\ others = None
  /\ ended = None /\ strays = None /\ placed = None
PartsInit ==
  /\ part \in Parts
  /\ \/ /\ part = "sidebar" /\ N!Init
        /\ phone = None /\ NoOverview /\ NoReports /\ NoCategories
     \/ /\ part = "overview" /\ D!Init
        /\ phone = None /\ edits = None /\ NoSidebar /\ NoReports /\ NoCategories
     \/ /\ part = "reports" /\ R!Init
        /\ edits = None /\ NoSidebar /\ NoOverview /\ NoCategories
     \/ /\ part = "categories" /\ C!Init
        /\ NoSidebar /\ NoOverview /\ NoReports

PartsNext ==
  /\ UNCHANGED part
  /\ \/ /\ part = "sidebar" /\ N!Next
        /\ UNCHANGED <<phone, overviewVars, reportVars, categoryVars>>
     \/ /\ part = "overview" /\ D!Next
        /\ UNCHANGED <<phone, edits, sidebarVars, reportVars, categoryVars>>
     \/ /\ part = "reports" /\ R!Next
        /\ UNCHANGED <<edits, sidebarVars, overviewVars, categoryVars>>
     \/ /\ part = "categories" /\ C!Next
        /\ UNCHANGED <<sidebarVars, overviewVars, reportVars>>

partsVars == <<part, phone, edits, sidebarVars, overviewVars, reportVars, categoryVars>>

PartsSpec == PartsInit /\ [][PartsNext]_partsVars

ASSUME ViewsConstants == R!ReportConstants /\ N!NavConstants /\ N!SavedInOrder /\ D!DashConstants

-----------------------------------------------------------------------------
\* Whatever release a layout was saved by and whatever is done to it, every page is
\* in the sidebar once, what was hidden stays hidden, and the widgets of the
\* overview lie side by side (navLayout.ts, dashboard/layout.ts).
LayoutsAreWhole ==
  /\ part = "sidebar" => N!TypeOK /\ N!EveryPageOnce /\ N!ChoicesSurviveMigration
  /\ part = "overview" => D!TypeOK /\ D!WidgetsFit
  /\ part = "categories" => /\ C!TypeOK /\ C!EveryCategoryOnce /\ C!NeverStuck
                            /\ C!MovesAreChosen /\ C!KindsFollow

\* The rows of a report add up to its total, a saved view opened again shows what
\* was saved, and a step of the period goes to the one next to it (ReportsPage.tsx,
\* report/service.go).
FiguresAddUp ==
  part = "reports" =>
    R!TypeOK /\ R!FiguresAddUp /\ R!ReopeningShowsTheSame /\ R!StepsGoNextDoor
=============================================================================
