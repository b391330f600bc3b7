------------------------------- MODULE Budget -------------------------------
(***************************************************************************)
(* The budget (web: BudgetPage.tsx and budget/: budgetList.ts, BudgetTable, *)
(* BudgetSheet; server: internal/budget): plans kept for every year or for  *)
(* one, read back month by month, the lines they are set against, and the   *)
(* sheet that writes them, in one or two calls.                             *)
(* A year has MONTHS months and a month DAYS days; dates are day numbers.   *)
(***************************************************************************)
EXTENDS Integers, Sequences, FiniteSets, FiniteSetsExt

CONSTANTS
  Categories, Income,  \* the categories, and those that are income
  Parent,              \* each one's parent, or None
  Movements,           \* what is entered: [cat, day, amount], signed
  MONTHS, DAYS, Today,
  Typed,               \* the amounts the reader types, 0 for a field left empty
  AtFirst,             \* the plans it may start with: a set of sets of [cat, year, month, amount]
  Proposed,            \* the AI's rows: category -> amount
  FIVE,                \* what a suggestion is rounded to
  Early,               \* the sheet may open, or be opened again, before answers came
  Fails,               \* the calls that may fail
  MaxEdits, MaxCalls,  \* bounds
  None

VARIABLES
  plans,                   \* the server's: category -> year (0: every year) -> month (0: the same) -> amount, 0 for no row
  every, thisYear, lines,  \* the page's copies, or None: the plans, those of the year shown, the report's
  stale, period,           \* the copies to read again; [kind, year, month]
  opened, target, form,    \* the sheet: open or not, what it opened on, what it holds
  link, rows,              \* the row to apply from another page; the AI's rows still to do
  call, calls, edits,      \* the write in flight, or None; how many were made; what was typed
  kept                     \* the last plan the sheet said it saved: [cat, scope, year, months], or None

budgetVars == <<plans, every, thisYear, lines, stale, period, opened, target, form, link, rows, call, calls, edits, kept>>
copies == <<every, thisYear, lines, stale>>
sheet == <<opened, target, form, link>>

Months == 1 .. MONTHS
sign(c) == IF c \in Income THEN 1 ELSE -1
Mag(n) == IF n < 0 THEN -n ELSE n

(* budgetList.ts *)
monthNo(p) == p.year * MONTHS + p.month - 1
\* A month, a year, or the year of months that ends with a month.
firstMonth(p) == CASE p.kind = "month" -> monthNo(p) [] p.kind = "year" -> p.year * MONTHS
                   [] p.kind = "twelve" -> monthNo(p) - (MONTHS - 1)
lastMonth(p) == IF p.kind = "year" THEN p.year * MONTHS + MONTHS - 1 ELSE monthNo(p)
from(p) == firstMonth(p) * DAYS
to(p) == (lastMonth(p) + 1) * DAYS - 1
periodOf(kind, year, month) == [kind |-> kind, year |-> year, month |-> month]
MonthAt(day) == [m |-> ((day \div DAYS) % MONTHS) + 1, y |-> day \div (DAYS * MONTHS)]
periodAt(kind, day) == periodOf(kind, MonthAt(day).y, MonthAt(day).m)
shiftPeriod(p, delta) == IF p.kind = "year" THEN [p EXCEPT !.year = @ + delta]
                         ELSE LET i == monthNo(p) + delta IN [p EXCEPT !.year = i \div MONTHS, !.month = (i % MONTHS) + 1]
paceOf(p) == IF Today < from(p) \/ Today >= to(p) THEN None
             ELSE ((Today + 1 - from(p)) * 100) \div (to(p) + 1 - from(p))
daysLeft(p) == IF Today < from(p) \/ Today > to(p) THEN None ELSE to(p) - Today

(* The server *)
NoPlan == [m \in 0 .. MONTHS |-> 0]
\* A year's plan as it is listed: every category with a row that year.
List(ps, y) == [c \in {x \in Categories : ps[x][y] # NoPlan} |->
                  [mode |-> IF ps[c][y][0] # 0 THEN "same" ELSE "monthly", same |-> ps[c][y][0],
                   monthly |-> [m \in Months |-> ps[c][y][m]]]]
Years == 0 .. 2
\* The most specific entry wins, a month of the year before the year's own, before every year's.
OrElse(a, b) == IF a # 0 THEN a ELSE b
OfYear(p, y, m) == OrElse(p[y][m], p[y][0])
budgetForPeriodYear(p, y, m) == OrElse(OfYear(p, y, m), OfYear(p, 0, m))
coveredCells(p) == {[y |-> n \div MONTHS, m |-> (n % MONTHS) + 1] : n \in firstMonth(p) .. lastMonth(p)}
PlanIn(ps, c, p) == MapThenSumSet(LAMBDA cell : budgetForPeriodYear(ps[c], cell.y, cell.m), coveredCells(p))
\* The line a category counts in: its own plan, else its parent's.
lineOf(ps, c, p) == IF PlanIn(ps, c, p) = 0 /\ Parent[c] # None /\ PlanIn(ps, Parent[c], p) # 0 THEN Parent[c] ELSE c
Within(p) == {x \in Movements : from(p) <= x.day /\ x.day <= to(p)}
Actual(ps, c, p, later) ==
  MapThenSumSet(LAMBDA x : x.amount, {x \in Within(p) : lineOf(ps, x.cat, p) = c /\ (later => x.day > Today)})
\* budgetList's lines, as magnitudes.
Report(ps, p) ==
  {[id |-> c, income |-> c \in Income, budgeted |-> PlanIn(ps, c, p) # 0, plan |-> sign(c) * PlanIn(ps, c, p),
    spent |-> sign(c) * (Actual(ps, c, p, FALSE) - Actual(ps, c, p, TRUE)), coming |-> sign(c) * Actual(ps, c, p, TRUE)] :
     c \in {x \in Categories : PlanIn(ps, x, p) # 0 \/ Actual(ps, x, p, FALSE) # 0}}
leftOf(l) == l.plan - l.spent - l.coming
isOver(l) == ~l.income /\ l.budgeted /\ leftOf(l) < 0
Totals(ls) == LET of(f(_)) == MapThenSumSet(f, ls)
              IN [plan |-> of(LAMBDA l : l.plan), spent |-> of(LAMBDA l : l.spent), coming |-> of(LAMBDA l : l.coming)]
viewOf(ls) ==
  LET spending == {l \in ls : l.budgeted /\ ~l.income}
      loose == {l \in ls : ~l.budgeted /\ ~l.income /\ l.spent + l.coming > 0}
  IN [spending |-> spending, loose |-> loose, income |-> {l \in ls : l.budgeted /\ l.income},
      total |-> Totals(spending), looseTotal |-> Totals(loose).spent, over |-> Cardinality({l \in spending : isOver(l)})]
\* The bar: what has gone, then what is coming, scaled to the plan or to what runs past it.
BudgetBar(l) == LET scale == Max({l.plan, l.spent + l.coming, 1})
                    gone == Min({Max({l.spent, 0}), scale})
                IN [gone |-> gone, coming |-> Min({Max({l.coming, 0}), scale - gone}),
                    over |-> ~l.income /\ l.plan > 0 /\ l.spent + l.coming > l.plan]
\* What a line's tick says: the share of the plan gone against the share of the period.
paceVerdict(l, at) == IF l.income THEN "income" ELSE IF l.spent > l.plan THEN "past"
                      ELSE IF l.spent * 100 > at * l.plan THEN "ahead" ELSE "under"
\* The complete months before today's, and what they suggest.
lastTwelve == LET now == Today \div DAYS IN now - MONTHS .. now - 1
\* A category's history holds its own movements and those of the subcategories that have no plan
\* of any year.
CountsFor(x, c) == x = c \/ (Parent[x] = c /\ \A y \in Years : plans[x][y] = NoPlan)
MonthAmount(c, n) == MapThenSumSet(LAMBDA x : x.amount, {x \in Movements : CountsFor(x.cat, c) /\ x.day \div DAYS = n})
RoundedMean(total) == ((2 * total + FIVE * MONTHS) \div (2 * FIVE * MONTHS)) * FIVE
historyStats(c) == LET total == MapThenSumSet(LAMBDA n : sign(c) * MonthAmount(c, n), lastTwelve)
                   IN [total |-> total, suggestion |-> RoundedMean(total)]
planFor(f, m) == IF f.mode = "same" THEN f.same ELSE f.monthly[m]

Blank == [cat |-> None, mode |-> "same", same |-> 0, monthly |-> [m \in Months |-> 0], scope |-> "every"]
NoTarget == [cat |-> None, amount |-> 0, ai |-> FALSE]
Amounts(r) == IF r = {} THEN 0 ELSE (CHOOSE x \in r : TRUE).amount
Init == /\ \E rs \in AtFirst : plans = [c \in Categories |-> [y \in Years |-> [m \in 0 .. MONTHS |->
                                 Amounts({x \in rs : x.cat = c /\ x.year = y /\ x.month = m})]]]
        /\ every = None /\ thisYear = None /\ lines = None /\ stale = {"every", "year", "lines"}
        /\ period = periodAt("month", Today)
        /\ opened = FALSE /\ target = NoTarget /\ form = Blank /\ link \in DOMAIN Proposed \cup {None}
        /\ rows = DOMAIN Proposed /\ call = None /\ calls = 0 /\ edits = 0 /\ kept = None

\* What the theorem about the plans needs of the constants: amounts are whole numbers, today
\* is in a year the page can show, and None is no write.
Calls == [kind: {"save", "remove"}, cat: Categories, scope: {"every", "year"}, year: Years,
          left: UNION {{<<>>, <<0>>, <<y>>, <<0, y>>} : y \in Years}, rows: [0 .. MONTHS -> Int],
          months: [Months -> Int]]
BudgetConstants == /\ MONTHS \in Nat /\ MonthAt(Today).y \in Years \ {0} /\ None \notin Calls
                   /\ Typed \subseteq Int /\ \A rs \in AtFirst : \A x \in rs : x.amount \in Int
                   /\ DOMAIN Proposed \subseteq Categories /\ \A c \in DOMAIN Proposed : Proposed[c] \in Int

Entries(copy) == IF copy = None THEN <<>> ELSE copy
Loaded == every # None /\ thisYear # None /\ lines # None /\ stale = {}
noBudgets == every # None /\ thisYear # None /\ DOMAIN every = {} /\ DOMAIN thisYear = {}

\* A copy is read: the budgets, those of the year on the page, or the report.
Read(what) == /\ what \in stale /\ stale' = stale \ {what}
              /\ every' = IF what = "every" THEN List(plans, 0) ELSE every
              /\ thisYear' = IF what = "year" THEN List(plans, period.year) ELSE thisYear
              /\ lines' = IF what = "lines" THEN Report(plans, period) ELSE lines
              /\ UNCHANGED <<plans, period, sheet, rows, call, calls, edits, kept>>
\* Another period: behind an open sheet the page cannot be reached.
PeriodBar == /\ ~opened /\ period' \in {shiftPeriod(period, 1), shiftPeriod(period, -1)}
                                       \cup {periodOf(k, period.year, period.month) : k \in {"month", "year"}}
             /\ period'.year \in Years \ {0} /\ period' # period
             /\ lines' = None
             /\ IF period'.year # period.year THEN thisYear' = None /\ stale' = stale \cup {"year", "lines"}
                ELSE UNCHANGED thisYear /\ stale' = stale \cup {"lines"}
             /\ UNCHANGED <<plans, every, sheet, rows, call, calls, edits, kept>>

entryOf(c) == IF c \in DOMAIN Entries(thisYear) THEN thisYear[c] ELSE IF c \in DOMAIN Entries(every) THEN every[c] ELSE None
ofYear(c) == c \in DOMAIN Entries(thisYear)
\* What the sheet holds when it opens: the year's own plan before every year's, and an AI's amount before both.
Seeded(t) == LET b == entryOf(t.cat)
                 proposed == t.ai /\ t.amount # 0
             IN [cat |-> t.cat, mode |-> IF proposed \/ b = None THEN "same" ELSE b.mode,
                 same |-> IF proposed THEN t.amount ELSE IF b # None THEN Mag(b.same) ELSE t.amount,
                 monthly |-> [m \in Months |-> IF b = None THEN 0 ELSE Mag(b.monthly[m])],
                 scope |-> IF ofYear(t.cat) /\ ~proposed THEN "year" ELSE "every"]
KeyOf(t) == <<t.cat, t.amount>>
open(t) == /\ Early \/ (Loaded /\ call = None /\ ~opened)
           /\ opened' = TRUE /\ target' = t
           /\ form' = IF opened /\ KeyOf(t) = KeyOf(target) THEN form ELSE Seeded(t)
           /\ UNCHANGED <<plans, copies, period, rows, call, calls, edits, kept>>
\* A line, budgeted or not, or Add.
BudgetTable == /\ ~opened /\ ~noBudgets /\ UNCHANGED link
               /\ \/ lines # None /\ \E l \in lines : open([NoTarget EXCEPT !.cat = l.id])
                  \/ open(NoTarget)
\* Nothing planned: where the money went, as suggestions (of the four largest; there are no more here).
lastYear == [shiftPeriod(periodAt("month", Today), -1) EXCEPT !.kind = "twelve"]
suggestions == {s \in {[cat |-> l.id, amount |-> RoundedMean(l.spent)] : l \in viewOf(Report(plans, lastYear)).loose} :
                  s.amount \in Nat \ {0}}
BudgetEmpty == /\ ~opened /\ noBudgets /\ UNCHANGED link
               /\ \E s \in suggestions : open([cat |-> s.cat, amount |-> s.amount, ai |-> FALSE])
applyRow(c) == open([cat |-> c, amount |-> Proposed[c], ai |-> TRUE])
BudgetProposal == ~opened /\ UNCHANGED link /\ \E c \in rows : applyRow(c)
\* ?apply= opens its row once.
FollowLink == link # None /\ link' = None /\ IF link \in rows THEN applyRow(link)
                                             ELSE UNCHANGED <<plans, copies, period, opened, target, form, rows, call, calls, edits, kept>>
closeSheet == opened /\ opened' = FALSE /\ UNCHANGED <<plans, copies, period, target, form, link, rows, call, calls, edits, kept>>

switchMode(next) == [form EXCEPT !.mode = next,
  !.monthly = IF next = "monthly" THEN [m \in Months |-> form.same] ELSE @,
  !.same = IF next = "same" THEN LET first == {m \in Months : form.monthly[m] # 0 /\ \A n \in 1 .. m - 1 : form.monthly[n] = 0}
                                 IN IF first = {} THEN 0 ELSE form.monthly[CHOOSE m \in first : TRUE]
           ELSE @]
choices == Categories \ (DOMAIN Entries(every) \cup DOMAIN Entries(thisYear))
\* The fields: the category of a new budget, the plan, the years, the average as a plan.
BudgetSheet ==
  /\ opened /\ edits < MaxEdits /\ edits' = edits + 1
  /\ \/ target.cat = None /\ \E c \in choices : form' = [form EXCEPT !.cat = c]
     \/ \E next \in {"same", "monthly"} \ {form.mode} : form' = switchMode(next)
     \/ form.mode = "same" /\ \E a \in Typed : form' = [form EXCEPT !.same = a]
     \/ form.mode = "monthly" /\ \E m \in Months, a \in Typed : form' = [form EXCEPT !.monthly[m] = a]
     \/ \E s \in {"every", "year"} \ {form.scope} : form' = [form EXCEPT !.scope = s]
     \/ /\ form.cat # None /\ historyStats(form.cat).suggestion \in Nat \ {0}
        /\ form' = [form EXCEPT !.mode = "same", !.same = historyStats(form.cat).suggestion]
  /\ UNCHANGED <<plans, copies, period, opened, target, link, rows, call, calls, kept>>

Empty(f) == \A m \in Months : planFor(f, m) = 0
\* (Mutant: the year's own plan stays.)
SetOnly(f, y) == <<IF f.scope = "year" THEN y ELSE 0>>
\* The years a save writes, in order: back to every year, the year's own plan would hide it.
Writes(f, y) == IF f.scope = "year" THEN <<y>> ELSE IF ofYear(f.cat) THEN <<0, y>> ELSE <<0>>
Rows(f) == [m \in 0 .. MONTHS |-> IF (m = 0) = (f.mode = "same") THEN sign(f.cat) * (IF m = 0 THEN f.same ELSE f.monthly[m]) ELSE 0]
mutate(kind, c, scope, years, rs, ms) == /\ call = None /\ calls < MaxCalls /\ calls' = calls + 1 /\ kept' = None
                              /\ call' = [kind |-> kind, cat |-> c, scope |-> scope, year |-> period.year,
                                        left |-> years, rows |-> rs, months |-> ms]
save == /\ opened /\ form.cat # None /\ ~Empty(form)
        /\ mutate("save", form.cat, form.scope, Writes(form, period.year), Rows(form), [m \in Months |-> planFor(form, m)])
        /\ UNCHANGED <<plans, copies, period, sheet, rows, edits>>
\* From a line's menu or the sheet's; the sheet closes before the question.
removeBudget == \E c \in (IF opened THEN {form.cat} \ {None} ELSE IF lines = None THEN {} ELSE {l.id : l \in {x \in lines : x.budgeted}}) :
  /\ Early \/ Loaded
  /\ opened => entryOf(c) # None
  /\ opened' = FALSE
  /\ mutate("remove", c, "every", IF ofYear(c) THEN <<0, period.year>> ELSE <<0>>, NoPlan, [m \in Months |-> 0])
  /\ UNCHANGED <<plans, copies, period, target, form, link, rows, edits>>

\* One call of the write: the rows of a year replaced by the new ones, then what hides them cleared.
SetCategoryBudget(c, y, rs) == plans' = [plans EXCEPT ![c][y] = rs]
Serve == /\ call # None /\ call.left # <<>>
         /\ SetCategoryBudget(call.cat, Head(call.left), call.rows)
         /\ call' = [call EXCEPT !.left = Tail(@), !.rows = NoPlan]
         /\ UNCHANGED <<copies, period, sheet, rows, calls, edits, kept>>
\* It fails, at the first call or at the second; the sheet stays as it is.
Refuse == /\ call # None /\ call.left # <<>> /\ call.kind \in Fails /\ call' = None
          /\ UNCHANGED <<plans, copies, period, sheet, rows, calls, edits, kept>>
\* Everything about budgets is read again; a row of the AI's saved here is done.
saved == rows' = IF call.kind = "save" /\ target.ai /\ target.cat # None THEN rows \ {target.cat} ELSE rows
Answer == /\ call # None /\ call.left = <<>> /\ call' = None
          /\ kept' = [cat |-> call.cat, scope |-> call.scope, year |-> call.year, months |-> call.months]
          /\ stale' = {"every", "year", "lines"} /\ saved
          /\ opened' = (opened /\ call.kind # "save")
          /\ UNCHANGED <<plans, every, thisYear, lines, period, target, form, link, calls, edits>>

Next == \/ \E what \in stale : Read(what)
        \/ PeriodBar \/ BudgetTable \/ BudgetEmpty \/ BudgetProposal \/ FollowLink \/ closeSheet \/ BudgetSheet
        \/ save \/ removeBudget \/ Serve \/ Refuse \/ Answer

Spec == Init /\ [][Next]_budgetVars

----------------------------------------------------------------------------

\* Types: the period after starts the day after this one ends; the report is of every
\* movement once, in the line that answers for it; the figures are those of its lines.
TypeOK == /\ from(shiftPeriod(period, 1)) = to(period) + 1 /\ to(shiftPeriod(period, -1)) = from(period) - 1
          /\ (paceOf(period) # None => paceOf(period) \in 1 .. 99 /\ daysLeft(period) > 0)
          /\ lines # None =>
               LET v == viewOf(lines) IN
               /\ MapThenSumSet(LAMBDA l : sign(l.id) * (l.spent + l.coming), lines) = MapThenSumSet(LAMBDA x : x.amount, Within(period))
               /\ v.looseTotal >= 0 /\ v.over <= Cardinality(v.spending)
               /\ \A l \in v.spending :
                    /\ l.plan > 0 => (BudgetBar(l).over <=> isOver(l))
                    /\ BudgetBar(l).gone + BudgetBar(l).coming <= Max({l.plan, l.spent + l.coming, 1})
                    /\ (paceOf(period) # None /\ l.coming >= 0) => (paceVerdict(l, paceOf(period)) = "past" => isOver(l))
               /\ v.over = 0 => leftOf(v.total) >= 0
          /\ form.cat \in Categories \cup {None} /\ link \in DOMAIN Proposed \cup {None}

\* A plan the sheet said it saved is what each month of the page's year is counted against
\* (BudgetSheet.tsx: "Back to every year: this year's own plan would hide it"; pages.md:
\* "Month by month is twelve", "Every year, or only the year on the page"). A month left
\* empty in a plan of one year has no row: every year's plan is in force there.
SavedIsInForce == kept # None => \A m \in Months :
  budgetForPeriodYear(plans[kept.cat], kept.year, m) =
    IF kept.scope = "year" /\ kept.months[m] = 0 THEN OfYear(plans[kept.cat], 0, m) ELSE sign(kept.cat) * kept.months[m]

\* A budget removed is gone from every year (en.json:358: "Its plan goes, for every year").
RemovedForEveryYear == (kept # None /\ \A m \in Months : kept.months[m] = 0) =>
  \A y \in Years, m \in Months : budgetForPeriodYear(plans[kept.cat], y, m) = 0
=============================================================================
