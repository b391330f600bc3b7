-------------------------------- MODULE Reports --------------------------------
(***************************************************************************)
(* The reports (web: ReportsPage.tsx and components/reports/; server:      *)
(* internal/report).  Everything the page shows is in its address: the     *)
(* tab, the period, the filters and each tab's choices; a saved view is an *)
(* address under a name.  The ranked list, its drill-down, the bars of the *)
(* cash flow and the axis of the balances are worked out from the rows the *)
(* server keeps for the period and the filters.                            *)
(*                                                                         *)
(* A date is a day number of Recurrence; a bar's key is its first day.     *)
(***************************************************************************)
EXTENDS Recurrence, Sequences, SequencesExt, FiniteSetsExt

CONSTANTS
  Movements,   \* the wallet's transactions; a split has more than one line
  ParentOf,    \* category -> its parent, or None
  Offered,     \* facet -> the values its control can set
  Accounts,    \* the accounts Balances can add up
  Vehicles,    \* the vehicles, oldest first
  Names,       \* the names a view is saved under
  AtFirst,     \* the views saved by earlier versions, a set
  TopRows,     \* SHOWN: rows listed before the rest are lumped
  FirstToday, LastToday,
  MaxSteps,    \* bound: what the reader does
  None         \* no value

VARIABLES
  url,       \* the query string: key -> value
  views,     \* preferences.reportViews, a set: their order is only shown
  today,     \* the reader's civil date
  phone,     \* the screen is narrow
  picked,    \* Spending: the row whose transactions were asked for
  expanded,  \* Spending: the rest of the rows is listed
  picking,   \* Balances: the accounts are being picked
  steps

reportVars == <<url, views, today, phone, picked, expanded, picking, steps>>

----------------------------------------------------------------------------
(* The state and the address (reportState.ts). *)

REPORT_TABS   == {"spending", "cashflow", "balances", "vehicle"}
PERIOD_KINDS  == {"month", "quarter", "half", "year", "all"}
FLOW_BUCKETS  == {"week", "month", "quarter"}

\* The reports leave transfers out unless asked.
REPORT_TRANSFERS == "none"

initialFilters ==
  [transfers |-> REPORT_TRANSFERS, categoryId |-> None, tags |-> {},
   amountMax |-> None, hideFuture |-> FALSE]

initialReportState ==
  [tab |-> "spending", period |-> None, at |-> None, filters |-> initialFilters,
   type |-> "expense", by |-> "category", bucket |-> None, accounts |-> {},
   vehicle |-> None]

defaultPeriod(tab) == IF tab = "spending" THEN "month" ELSE "year"

effectivePeriod(s) == IF s.period = None THEN defaultPeriod(s.tab) ELSE s.period

defaultBucket(kind) ==
  CASE kind \in {"month", "quarter"} -> "week"
    [] kind = "all"                  -> "quarter"
    [] OTHER                         -> "month"

\* A value of the address, or what its absence stands for.
Get(p, key, absent) == IF key \in DOMAIN p THEN p[key] ELSE absent

parseReportState(p) ==
  [tab |-> Get(p, "tab", "spending"), period |-> Get(p, "p", None), at |-> Get(p, "at", None),
   filters |-> [transfers |-> Get(p, "xf", REPORT_TRANSFERS), categoryId |-> Get(p, "fc", None),
                tags |-> Get(p, "ft", {}), amountMax |-> Get(p, "amax", None),
                hideFuture |-> Get(p, "hf", FALSE)],
   type |-> Get(p, "ty", "expense"), by |-> Get(p, "by", "category"),
   bucket |-> Get(p, "b", None), accounts |-> Get(p, "acc", {}), vehicle |-> Get(p, "v", None)]

\* The value a key is left out for.
Absent ==
  [tab |-> "spending", p |-> None, at |-> None, xf |-> REPORT_TRANSFERS, fc |-> None, ft |-> {},
   amax |-> None, hf |-> FALSE, ty |-> "expense", by |-> "category", b |-> None,
   acc |-> {}, v |-> None]

\* Only what differs from the defaults is written.
reportStateToParams(s) ==
  LET full == [tab |-> s.tab, p |-> s.period, at |-> s.at, xf |-> s.filters.transfers,
               fc |-> s.filters.categoryId, ft |-> s.filters.tags, amax |-> s.filters.amountMax,
               hf |-> s.filters.hideFuture, ty |-> s.type, by |-> s.by, b |-> s.bucket,
               acc |-> s.accounts, v |-> s.vehicle]
  IN  [ k \in { x \in DOMAIN full : full[x] # Absent[x] } |-> full[k] ]

state == parseReportState(url)

----------------------------------------------------------------------------
(* Periods. *)

MonthsOf(kind) == CASE kind = "month" -> 1 [] kind = "quarter" -> 3
                    [] kind = "half" -> 6 [] kind = "year" -> 12

\* The period of this kind that starts in month k; both ends belong to it.
From(kind, k) == [kind |-> kind, from |-> FirstDay(k), to |-> FirstDay(k + MonthsOf(kind)) - 1]

periodOf(kind, at, now) ==
  LET m == MonthOf(IF at = None THEN now ELSE at) IN
  IF kind = "all" THEN [kind |-> kind, from |-> None, to |-> None]
  ELSE From(kind, m - (m % MonthsOf(kind)))

\* The period just before, of the same kind; None before "all".
previousPeriod(p) == IF p.kind = "all" THEN None ELSE periodOf(p.kind, p.from - 1, 0)

isCurrentPeriod(p, now) == p.from = None \/ (p.from <= now /\ now <= p.to)

\* The day the neighbouring period is named by: its first, or None for the one
\* today is in.
shiftPeriod(kind, at, dir, now) ==
  IF kind = "all" THEN None
  ELSE LET day == FirstDay(MonthOf(periodOf(kind, at, now).from) + dir * MonthsOf(kind))
       IN  IF isCurrentPeriod(periodOf(kind, day, now), now) THEN None ELSE day

period == periodOf(effectivePeriod(state), state.at, today)

Earliest(a, b) == IF a = None \/ a > b THEN b ELSE a

\* The filters and a period as the report endpoints take them: "hide future"
\* ends the span today.
reportApiParams(filters, p) ==
  [filters EXCEPT !.hideFuture = FALSE]
  @@ [from |-> p.from, to |-> IF filters.hideFuture THEN Earliest(p.to, today) ELSE p.to]

params == reportApiParams(state.filters, period)

----------------------------------------------------------------------------
(* The server's figures (report/statistics.go). *)

CategoryIds(c) == {c} \cup { k \in DOMAIN ParentOf : ParentOf[k] = c }

\* conds: what a transaction passes whatever it is grouped by.
conds(q, t) ==
  /\ q.from # None => t.date >= q.from
  /\ q.to # None => t.date <= q.to
  /\ q.amountMax # None => t.amount <= q.amountMax
  /\ q.transfers = "only" => t.transfer
  /\ q.transfers = "none" => ~t.transfer
  /\ q.tags # {} => q.tags \cap t.tags # {}

\* The category on the transaction itself; a split's are on its lines.
OwnCategory(t) == IF Cardinality(t.lines) = 1 THEN (CHOOSE l \in t.lines : TRUE).category ELSE None

Sign(type, amount) == IF type = "expense" THEN amount < 0 ELSE amount > 0

GroupOf(c) == IF ParentOf[c] = None THEN c ELSE ParentOf[c]

\* What a transaction adds to the groups: a line to its category's parent, the
\* whole amount to its payee or to each of its tags.
PartsOf(q, by, type, t) ==
  IF ~conds(q, t) THEN {}
  ELSE IF by = "category"
    THEN { [id |-> t.id, n |-> l.n, key |-> GroupOf(l.category), amount |-> l.amount] :
             l \in { x \in t.lines : /\ x.category # None
                                     /\ Sign(type, x.amount)
                                     /\ q.categoryId # None => x.category \in CategoryIds(q.categoryId) } }
  ELSE IF \/ ~Sign(type, t.amount)
          \/ q.categoryId # None /\ OwnCategory(t) \notin CategoryIds(q.categoryId)
    THEN {}
  ELSE { [id |-> t.id, n |-> 1, key |-> k, amount |-> t.amount] :
           k \in IF by = "payee" THEN {t.payee} ELSE t.tags }

buildStatsQuery(q, by, type) == UNION { PartsOf(q, by, type, t) : t \in Movements }

Magnitude(n) == IF n < 0 THEN 0 - n ELSE n
SumOf(parts) == FoldSet(LAMBDA p, acc : acc + p.amount, 0, parts)

\* The largest first, those of one size in some order.
SortedGroups(groups) ==
  CHOOSE list \in [1 .. Cardinality(groups) -> groups] :
    /\ \A i, j \in DOMAIN list : i < j => list[i].amount >= list[j].amount
    /\ \A g \in groups : \E i \in DOMAIN list : list[i] = g

\* The groups, the largest first.
Statistics(q, by, type) ==
  LET parts == buildStatsQuery(q, by, type)
      keys  == { p.key : p \in parts }
  IN  SortedGroups({ [key |-> k, amount |-> Magnitude(SumOf({ p \in parts : p.key = k }))] : k \in keys })

\* groupCond: the transactions of one group.
groupCond(by, key, type, t) ==
  CASE by = "payee"    -> t.payee = key /\ Sign(type, t.amount)
    [] by = "tag"      -> key \in t.tags /\ Sign(type, t.amount)
    [] by = "category" -> \E l \in t.lines : /\ l.category \in CategoryIds(key)
                                             /\ Sign(type, l.amount)

Drilldown(q, by, key, type) == { t \in Movements : conds(q, t) /\ groupCond(by, key, type, t) }

----------------------------------------------------------------------------
(* Spending (SpendingTab.tsx). *)

rows == IF state.tab = "spending" THEN Statistics(params, state.by, state.type) ELSE <<>>
Total(list) == FoldSeq(LAMBDA r, acc : acc + r.amount, 0, list)

\* The period before, by key; None when there is no period before.
prevRows ==
  LET prev == previousPeriod(period) IN
  IF prev = None \/ state.tab # "spending" THEN None ELSE Statistics(reportApiParams(state.filters, prev), state.by, state.type)

\* A key's amount in a list; 0 when it is not there.
AmountIn(list, key) == Total(SelectSeq(list, LAMBDA r : r.key = key))

\* (Mutant: the rest starts a row early, so one row is counted twice.)
LumpedTwice(list) ==
  IF Len(list) > TopRows + 1 /\ ~expanded
    THEN Append(SubSeq(list, 1, TopRows), [key |-> "other", amount |-> Total(SubSeq(list, TopRows, Len(list)))])
    ELSE list

\* The first rows and the rest under one name.
Lumped(list) ==
  IF Len(list) > TopRows + 1 /\ ~expanded
    THEN Append(SubSeq(list, 1, TopRows), [key |-> "other", amount |-> Total(SubSeq(list, TopRows + 1, Len(list)))])
    ELSE list

\* On a desktop the largest row is open to begin with.
selected ==
  LET list == rows IN
  IF picked # None /\ \E i \in DOMAIN list : list[i].key = picked THEN picked
  ELSE IF phone \/ list = <<>> THEN None
  ELSE list[1].key

\* How much each group moved since the list before, those that are gone included.
Deltas(list, before) ==
  { [key |-> r.key, d |-> r.amount - AmountIn(before, r.key)] : r \in Range(list) }
  \cup { [key |-> r.key, d |-> 0 - r.amount] :
           r \in { x \in Range(before) : \A i \in DOMAIN list : list[i].key # x.key } }

\* The transactions listed beside the list, or in a sheet on a phone.
drill == IF selected = None THEN {} ELSE Drilldown(params, state.by, selected, state.type)

----------------------------------------------------------------------------
(* Bars (report/buckets.go, CashFlowTab.tsx, BalancesTab.tsx). *)

\* The first day of the bar a day is in: Monday, or the month's or quarter's first.
bucketStart(d, interval) ==
  CASE interval = "day"     -> d
    [] interval = "week"    -> d - Weekday(d)
    [] interval = "month"   -> FirstDay(MonthOf(d))
    [] interval = "quarter" -> FirstDay(MonthOf(d) - (MonthOf(d) % 3))

\* The n-th bar after one.
nextBucket(start, interval, n) ==
  CASE interval = "day"     -> start + n
    [] interval = "week"    -> start + 7 * n
    [] interval = "month"   -> FirstDay(MonthOf(start) + n)
    [] interval = "quarter" -> FirstDay(MonthOf(start) + 3 * n)

\* The bars a span from the first day of one reaches.
BarsTo(first, to, interval) ==
  CASE interval = "day"     -> to - first + 1
    [] interval = "week"    -> (to - first) \div 7 + 1
    [] interval = "month"   -> MonthOf(to) - MonthOf(first) + 1
    [] interval = "quarter" -> (MonthOf(to) - MonthOf(first)) \div 3 + 1

\* Every bar from the one a span starts in to the one it ends in.
GenerateBuckets(from, to, interval) ==
  LET first == bucketStart(from, interval)
  IN  [ i \in 1 .. BarsTo(first, to, interval) |-> nextBucket(first, interval, i - 1) ]

\* Without bounds of its own a report spans the wallet's transactions.
dateRange(from, to) ==
  [from |-> IF from = None THEN Min({ t.date : t \in Movements }) ELSE from,
   to   |-> IF to = None THEN Max({ t.date : t \in Movements }) ELSE to]

bucket == IF state.bucket = None THEN defaultBucket(period.kind) ELSE state.bucket

future == period.from # None /\ period.from > today
past   == period.to # None /\ period.to < today

\* Up to today: the figures are "so far".
flowParams == [params EXCEPT !.to = Earliest(@, today)]

\* The rows the bars are made of; those to come are left out.
flow(q) ==
  { t \in Movements : /\ state.tab = "cashflow" /\ ~future
                      /\ conds(q, t)
                      /\ q.categoryId # None => OwnCategory(t) \in CategoryIds(q.categoryId) }

\* What came in, what went out, what was kept and kept so far, bar by bar.
Bars(kept, axis, bar) ==
  LET In(d)  == { t \in kept : bucketStart(t.date, bar) = d }
      ins    == [ i \in DOMAIN axis |-> SumOf({ t \in In(axis[i]) : t.amount >= 0 }) ]
      outs   == [ i \in DOMAIN axis |-> SumOf({ t \in In(axis[i]) : t.amount < 0 }) ]
  IN  [ i \in DOMAIN axis |->
          [key |-> axis[i], in |-> ins[i], out |-> outs[i], kept |-> ins[i] + outs[i],
           running |-> FoldSet(LAMBDA j, acc : acc + ins[j] + outs[j], 0, 1 .. i),
           partial |-> axis[i] = bucketStart(today, bar)] ]

\* The bars the server answers with, from the first to the last of the span.
bucketAxis(r, bar) == IF r.from > r.to THEN <<>> ELSE GenerateBuckets(r.from, r.to, bar)

buckets ==
  LET q == flowParams IN
  IF state.tab # "cashflow" \/ future THEN <<>>
  ELSE Bars(flow(q), bucketAxis(dateRange(q.from, q.to), bucket), bucket)

\* The points of the balances: a day each for a month, a month each for a year.
BUCKET(kind) == CASE kind = "month" -> "day" [] kind \in {"quarter", "half"} -> "week" [] OTHER -> "month"

balanceAxis ==
  LET r == dateRange(period.from, period.to) IN GenerateBuckets(r.from, r.to, BUCKET(period.kind))

IndexOf(list, x) == IF \E i \in DOMAIN list : list[i] = x THEN CHOOSE i \in DOMAIN list : list[i] = x ELSE 0

\* How many points of an axis have happened, today's included.
todayIdx(axis) ==
  IF past THEN Len(axis)
  ELSE IF future THEN 0
  ELSE IndexOf(axis, bucketStart(today, BUCKET(period.kind)))

\* The solid line and the dashed one, which leaves from today's point.
BalanceLine ==
  LET axis == balanceAxis
      n    == todayIdx(axis)
  IN  [axis   |-> axis,
       solid  |-> { i \in DOMAIN axis : i <= n },
       dashed |-> { i \in DOMAIN axis : ~past /\ i >= n }]

\* The vehicle shown: the one asked for, or the first.
vehicleId ==
  IF state.vehicle \in Range(Vehicles) THEN state.vehicle
  ELSE IF Vehicles = <<>> THEN None ELSE Vehicles[1]

----------------------------------------------------------------------------
(* What the page offers: each control as the states it leads to. *)

PeriodBar ==
  { [state EXCEPT !.period = k] : k \in PERIOD_KINDS }
  \cup { [state EXCEPT !.at = shiftPeriod(period.kind, state.at, dir, today)] :
           dir \in IF period.kind = "all" THEN {} ELSE {-1, 1} }

TabsBar == { [state EXCEPT !.tab = t] : t \in REPORT_TABS \ {state.tab} }

FilterPanel ==
  UNION { { [state EXCEPT !.filters[facet] = v] : v \in Offered[facet] } : facet \in DOMAIN Offered }

\* The chips: a facet that is not the report's default, put back.
reportChips ==
  { [state EXCEPT !.filters[facet] = initialFilters[facet]] :
      facet \in { x \in DOMAIN initialFilters : state.filters[x] # initialFilters[x] } }

SpendingControls ==
  IF state.tab # "spending" THEN {}
  ELSE { [state EXCEPT !.type = v] : v \in {"expense", "income"} }
       \cup { [state EXCEPT !.by = v] : v \in {"category", "payee", "tag"} }

FlowControls ==
  IF state.tab # "cashflow" THEN {} ELSE { [state EXCEPT !.bucket = b] : b \in FLOW_BUCKETS }

AccountPicker ==
  IF state.tab # "balances" THEN {}
  ELSE { [state EXCEPT !.accounts = a] : a \in IF picking THEN SUBSET Accounts ELSE {{}} }

VehiclePicker ==
  IF state.tab # "vehicle" \/ Len(Vehicles) <= 1 THEN {}
  ELSE { [state EXCEPT !.vehicle = v] : v \in Range(Vehicles) }

Offers ==
  (PeriodBar \cup TabsBar \cup FilterPanel \cup reportChips \cup SpendingControls
     \cup FlowControls \cup AccountPicker \cup VehiclePicker) \ {state}

\* Filters of an earlier version: what they do not say is as it is at first.
OverInitial(old) ==
  [ x \in DOMAIN initialFilters |-> IF x \in DOMAIN old THEN old[x] ELSE initialFilters[x] ]

\* The search string of a saved view; one of an earlier version opens on the tab
\* that took its place.
viewToSearch(v) ==
  IF v.tab = "reports" THEN v.search
  ELSE reportStateToParams(
         [initialReportState EXCEPT
            !.tab     = IF v.tab = "trend" THEN "cashflow" ELSE "spending",
            !.filters = OverInitial(v.filters),
            !.by      = CASE v.groupBy = "subcategory" -> "category"
                          [] v.groupBy \in {"category", "payee", "tag"} -> v.groupBy
                          [] OTHER -> @])

----------------------------------------------------------------------------
(* Steps. *)

Acted == steps < MaxSteps /\ steps' = steps + 1

\* A tab is built anew when it is opened.
Mounted(s) ==
  /\ picked' = None
  /\ expanded' = FALSE
  /\ picking' = (s.accounts # {})

\* What the address shows next: the tab's own state goes with the tab.
Goes(s) ==
  IF s.tab # state.tab THEN Mounted(s)
  ELSE /\ picked' = IF s.by # state.by THEN None ELSE picked
       /\ UNCHANGED <<expanded, picking>>

\* set: a control is used.
Choose(s) ==
  /\ Acted
  /\ url' = reportStateToParams(s)
  /\ Goes(s)
  /\ UNCHANGED <<views, today, phone>>

\* A row is clicked, or its sheet on a phone is closed.
PickRow(key) ==
  /\ state.tab = "spending"
  /\ key # picked
  /\ key = None => phone /\ selected # None
  /\ Acted
  /\ picked' = key
  /\ UNCHANGED <<url, views, today, phone, expanded, picking>>

\* "Other" lists the rest, "Show fewer" lumps it again.
Expand ==
  /\ state.tab = "spending"
  /\ Len(rows) > TopRows + 1
  /\ Acted
  /\ expanded' = ~expanded
  /\ UNCHANGED <<url, views, today, phone, picked, picking>>

\* "All accounts" forgets the ones picked; "Pick" offers them.
WhichAccounts(pick) ==
  /\ state.tab = "balances"
  /\ Acted
  /\ picking' = pick
  /\ url' = IF pick THEN url ELSE reportStateToParams([state EXCEPT !.accounts = {}])
  /\ UNCHANGED <<views, today, phone, picked, expanded>>

\* The address is saved under a name; a view of that name is replaced.
SaveView(name) ==
  /\ Acted
  /\ views' = { v \in views : ~(v.tab = "reports" /\ v.name = name) }
                 \cup { [tab |-> "reports", name |-> name, search |-> url, was |-> state] }
  /\ UNCHANGED <<url, today, phone, picked, expanded, picking>>

DeleteView(v) ==
  /\ Acted
  /\ views' = views \ {v}
  /\ UNCHANGED <<url, today, phone, picked, expanded, picking>>

\* A view, or an address kept elsewhere, is opened in place of the page's own: only
\* the tab's own choice of accounts and rows outlives it.
OpenView(v) ==
  /\ Acted
  /\ url' = viewToSearch(v)
  /\ IF parseReportState(url').tab # state.tab THEN Mounted(parseReportState(url'))
     ELSE UNCHANGED <<picked, expanded, picking>>
  /\ UNCHANGED <<views, today, phone>>

Reload ==
  /\ Acted
  /\ Mounted(state)
  /\ UNCHANGED <<url, views, today, phone>>

\* useToday: midnight passes under the page.
NextDay ==
  /\ today < LastToday
  /\ today' = today + 1
  /\ UNCHANGED <<url, views, phone, picked, expanded, picking, steps>>

Turn ==
  /\ Acted
  /\ phone' = ~phone
  /\ UNCHANGED <<url, views, today, picked, expanded, picking>>

\* Days are numbers, the panel's facets are the filters', and every view of an earlier
\* version says what it did with transfers.
ReportConstants ==
  /\ FirstToday \in Int
  /\ None \notin Int \cup PERIOD_KINDS
  /\ DOMAIN Offered \subseteq DOMAIN initialFilters
  /\ \A v \in AtFirst : v.tab # "reports" /\ "transfers" \in DOMAIN v.filters

Init ==
  /\ url = << >>
  /\ views = AtFirst
  /\ today = FirstToday
  /\ phone \in BOOLEAN
  /\ picked = None /\ expanded = FALSE /\ picking = FALSE
  /\ steps = 0

Next ==
  \/ \E s \in Offers : Choose(s)
  \/ \E r \in Range(rows) : PickRow(r.key)
  \/ PickRow(None)
  \/ Expand
  \/ \E pick \in BOOLEAN : WhichAccounts(pick)
  \/ \E n \in Names : SaveView(n)
  \/ \E v \in views : DeleteView(v) \/ OpenView(v)
  \/ Reload
  \/ NextDay
  \/ Turn

Spec == Init /\ [][Next]_reportVars

----------------------------------------------------------------------------
(* Properties. *)

\* What is shown is built from what the address says; the row whose transactions
\* are open is Spending's, and the bars carry at most one that is not over.
TypeOK ==
  /\ DOMAIN url \subseteq DOMAIN Absent
  /\ state.tab \in REPORT_TABS
  /\ picked # None => state.tab = "spending"
  /\ LET bars == buckets IN
       \A i, j \in DOMAIN bars : bars[i].partial /\ bars[j].partial => i = j
  /\ vehicleId \in Range(Vehicles)

\* Every control leads to an address that shows exactly what was chosen, and a
\* saved view shows what was on screen when it was saved: the defaults the
\* address leaves out are the reports' own, not the register's.  A view of an
\* earlier version keeps its transfers.
ReopeningShowsTheSame ==
  /\ \A s \in Offers : parseReportState(reportStateToParams(s)) = s
  /\ \A v \in views :
       LET shown == parseReportState(viewToSearch(v)) IN
       IF v.tab = "reports" THEN shown = v.was
       ELSE shown.filters.transfers = v.filters.transfers

\* The arrows lead to the period next door, whatever day it is, and the period
\* today is in is named by no day, so that it stays "now" past midnight.
StepsGoNextDoor ==
  period.kind # "all" =>
    \A dir \in {-1, 1} :
      LET at == shiftPeriod(period.kind, state.at, dir, today)
          p  == periodOf(period.kind, at, today)
      IN  /\ IF dir = 1 THEN p.from = period.to + 1 ELSE p.to + 1 = period.from
          /\ (at = None) <=> isCurrentPeriod(p, today)

ListAddsUp(list, before) ==
  /\ Total(Lumped(list)) = Total(list)
  /\ before # None =>
       FoldSet(LAMBDA x, acc : acc + x.d, 0, Deltas(list, before)) = Total(list) - Total(before)

BarsAddUp(bars, kept) ==
  bars # <<>> => Last(bars).running = SumOf(kept)

\* Of a period that has begun, the points up to today's.
SolidIsPast(line) ==
  \A i \in line.solid \cup line.dashed :
    i \in line.solid <=> ~future /\ line.axis[i] <= bucketStart(today, BUCKET(period.kind))

\* Every transaction a row counts is listed under it, and nothing else is, but for
\* a filter on a category, which the list does not know.
DrillIsTheRow ==
  LET listed  == { t.id : t \in drill }
      counted == { p.id : p \in { x \in buildStatsQuery(params, state.by, state.type) : x.key = selected } }
  IN  /\ counted \subseteq listed
      /\ params.categoryId = None => listed = counted

\* Nothing of the period is lost or counted twice: the list, with its rest lumped,
\* adds up to the whole, what moved since the period before to the difference of
\* the two, and the bars of the cash flow to what was kept; the solid line of the
\* balances is what has happened of a period, and under a row are the transactions
\* it counts.
FiguresAddUp ==
  /\ ListAddsUp(rows, prevRows)
  /\ selected # None => DrillIsTheRow
  /\ BarsAddUp(buckets, flow(flowParams))
  /\ state.tab = "balances" /\ period.kind # "all" => SolidIsPast(BalanceLine)

================================================================================
