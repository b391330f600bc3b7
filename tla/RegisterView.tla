----------------------------- MODULE RegisterView -----------------------------
(***************************************************************************)
(* What the register shows of an account (web: registerFilterModel.ts and  *)
(* the page's filters, TransactionsPage.tsx): the filters live in the      *)
(* address, are mirrored to this browser's storage, and are put back when  *)
(* the reader comes back; the lines that stand for hidden reconciled rows  *)
(* are worked out from what the filters leave.                             *)
(*                                                                         *)
(* A date is a day number of Recurrence. Tags are a set: their names, which *)
(* the address joins with commas, hold none themselves, as where the server *)
(* reads a row's (transaction/service.go, splitTags).                       *)
(***************************************************************************)
EXTENDS Recurrence, Sequences, SequencesExt, FiniteSetsExt

CONSTANTS
  Ledger,       \* the account's rows, oldest first
  Children,     \* category -> its direct children
  Today,
  Trim,         \* text -> the text without blanks around it
  Offered,      \* facet -> the values its control can set
  Links,        \* the addresses the page is opened at
  OtherKeys,    \* keys of the address that are not the filters'
  Columns,      \* the columns the reader sorts by
  None          \* no value

VARIABLES
  url,      \* the query string: key -> value
  saved,    \* the filters in localStorage, as a query string
  sort,     \* preferences.registerSort: a column and a direction, or None
  chosen    \* the filters the reader set last (only the properties read it)

vars == <<url, saved, sort, chosen>>

Presets == {"all", "thisMonth", "thisQuarter", "thisHalf", "thisYear",
            "last30", "last90", "custom"}

emptyFilters ==
  [preset |-> "all", from |-> None, to |-> None, status |-> None, payeeId |-> None,
   categoryId |-> None, tags |-> {}, amountMin |-> None, amountMax |-> None, text |-> "",
   hideFuture |-> FALSE, transfers |-> "all", noFlags |-> FALSE, uncategorised |-> FALSE]

----------------------------------------------------------------------------
(* The filters over the rows. *)

\* The first and last day of the n months from month k.
Span(k, n) == [from |-> FirstDay(k), to |-> FirstDay(k + n) - 1]

\* How far month m is into the preset's period.
MonthsInto(preset, m) ==
  CASE preset = "thisQuarter" -> m % 3
    [] preset = "thisHalf"    -> m % 6
    [] preset = "thisYear"    -> m % 12
    [] OTHER                  -> 0

\* Inclusive bounds; None is an open end.
dateBounds(f, now) ==
  LET m == MonthOf(now) - MonthsInto(f.preset, MonthOf(now)) IN
  CASE f.preset = "thisMonth"   -> Span(m, 1)
    [] f.preset = "thisQuarter" -> Span(m, 3)
    [] f.preset = "thisHalf"    -> Span(m, 6)
    [] f.preset = "thisYear"    -> Span(m, 12)
    [] f.preset = "last30"      -> [from |-> now - 29, to |-> now]
    [] f.preset = "last90"      -> [from |-> now - 89, to |-> now]
    [] f.preset = "custom"      -> [from |-> f.from, to |-> f.to]
    [] OTHER                    -> [from |-> None, to |-> None]

categoryWithChildren(c) == {c} \cup Children[c]

\* Whether a row passes every facet.
Keeps(f, r) ==
  LET b == dateBounds(f, Today) IN
  /\ f.hideFuture => r.date <= Today
  /\ f.transfers = "only" => r.transfer
  /\ f.transfers = "none" => ~r.transfer
  /\ f.noFlags => r.status = 0
  /\ f.uncategorised => r.category = None
  /\ b.from # None => r.date >= b.from
  /\ b.to # None => r.date <= b.to
  /\ f.status # None => r.status = f.status
  /\ f.payeeId # None => r.payee = f.payeeId
  /\ f.categoryId # None => r.category \in categoryWithChildren(f.categoryId)
  /\ f.tags # {} => f.tags \cap r.tags # {}
  /\ f.amountMin # None => r.amount >= f.amountMin
  /\ f.amountMax # None => r.amount <= f.amountMax
  /\ Trim[f.text] # "" => Trim[f.text] \in r.words

applyFilters(rows, f) == SelectSeq(rows, LAMBDA r : Keeps(f, r))

Ids(rows) == { rows[i].id : i \in DOMAIN rows }

\* How many rows newer than every visible one are hidden.
hiddenNewerCount(all, visible) ==
  IF visible = <<>> THEN 0
  ELSE LET newest == Max({ visible[i].date : i \in DOMAIN visible })
       IN  Len(SelectSeq(all, LAMBDA r : r.date > newest))

\* The reconciled rows a status filter is hiding, and only those.
hiddenReconciled(rows, f) ==
  IF (f.status # None /\ f.status # 2) \/ f.noFlags
    THEN SelectSeq(applyFilters(rows, [f EXCEPT !.status = None, !.noFlags = FALSE]),
                   LAMBDA r : r.status = 2)
    ELSE <<>>

----------------------------------------------------------------------------
(* The order of the rows. *)

\* What a column compares; None is an empty value, which sinks whichever way
\* the column points.
SortValue(col, r) ==
  CASE col = "date"     -> r.date
    [] col = "payee"    -> r.payee
    [] col = "category" -> r.category
    [] col = "status"   -> r.status
    [] col = "amount"   -> r.amount

SortsBefore(by, rows, i, j) ==
  LET a == SortValue(by.id, rows[i]) b == SortValue(by.id, rows[j]) IN
  IF a = b THEN i < j
  ELSE IF a = None \/ b = None THEN b = None
  ELSE IF by.desc THEN a > b ELSE a < b

sortRegisterRows(rows, by) ==
  IF by = None THEN rows
  ELSE [ n \in DOMAIN rows |->
           rows[CHOOSE i \in DOMAIN rows :
                  Cardinality({ j \in DOMAIN rows : SortsBefore(by, rows, j, i) }) = n - 1] ]

\* The ledger's own order is newest first.
Display(rows) == sortRegisterRows(Reverse(rows), sort)
Visible(f)    == Display(applyFilters(Ledger, f))

\* A click on a header: ascending, descending, then back to the ledger's order.
ToggleSort(col) ==
  /\ sort' = IF sort = None \/ sort.id # col THEN [id |-> col, desc |-> FALSE]
             ELSE IF sort.desc THEN None
             ELSE [id |-> col, desc |-> TRUE]
  /\ UNCHANGED <<url, saved, chosen>>

----------------------------------------------------------------------------
(* The lines of reconciledMarks. *)

\* Whether every row since the last visible one is reconciled.
StillReconciled(older, r) == older /\ r.status = 2

\* One row of the loop: a visible row closes the run above it, a hidden one
\* joins the run under way.
ReadRow(visible, hidden, acc, r) ==
  LET at == { i \in DOMAIN visible : visible[i].id = r.id } IN
  IF at # {}
    THEN [marks |-> IF acc.run = 0 THEN acc.marks
                    ELSE Append(acc.marks, [before |-> Min(at), count |-> acc.run, closesLedger |-> FALSE]),
          run |-> 0, older |-> TRUE]
    ELSE [marks |-> acc.marks,
          run   |-> IF r.id \in Ids(hidden) THEN acc.run + 1 ELSE acc.run,
          older |-> StillReconciled(acc.older, r)]

reconciledMarks(ledger, visible, hidden) ==
  IF visible = <<>> \/ hidden = <<>> THEN <<>>
  ELSE LET end == FoldLeft(LAMBDA acc, r : ReadRow(visible, hidden, acc, r),
                           [marks |-> <<>>, run |-> 0, older |-> TRUE], ledger)
       IN  IF end.run = 0 THEN end.marks
           ELSE Append(end.marks, [before |-> Len(visible) + 1, count |-> end.run,
                                   closesLedger |-> end.older])

\* The lines are drawn only while the ledger runs newest first.
NewestFirst == sort = None \/ (sort.id = "date" /\ sort.desc)

Marks(f) ==
  IF ~NewestFirst THEN <<>>
  ELSE reconciledMarks(Display(Ledger), Visible(f), hiddenReconciled(Ledger, f))

----------------------------------------------------------------------------
(* The filters in the address. *)

\* The parameters, with what each means when it is not there.
Unwritten ==
  [dp |-> "all", df |-> None, dt |-> None, st |-> None, pe |-> None, cat |-> None, tg |-> {},
   amin |-> None, amax |-> None, q |-> "", hf |-> FALSE, xf |-> "all", nf |-> FALSE, unc |-> FALSE]

\* Only what is not the default is written, the days only of a custom period;
\* the search without its blanks.
filtersToParams(f) ==
  LET value == [dp |-> f.preset, df |-> f.from, dt |-> f.to, st |-> f.status, pe |-> f.payeeId,
                cat |-> f.categoryId, tg |-> f.tags, amin |-> f.amountMin, amax |-> f.amountMax,
                q |-> Trim[f.text], hf |-> f.hideFuture, xf |-> f.transfers, nf |-> f.noFlags,
                unc |-> f.uncategorised]
      written == { key \in DOMAIN Unwritten : /\ value[key] # Unwritten[key]
                                              /\ key \in {"df", "dt"} => f.preset = "custom" }
  IN  [ key \in written |-> value[key] ]

Field(params, key) == IF key \in DOMAIN params THEN params[key] ELSE Unwritten[key]

\* (Mutant: a facet the reader of the address does not know.)
parseFiltersFew(params) ==
  [emptyFilters EXCEPT !.preset = Field(params, "dp"), !.status = Field(params, "st"),
                       !.text = Field(params, "q"), !.tags = Field(params, "tg"),
                       !.uncategorised = Field(params, "unc")]

parseFilters(params) ==
  [preset        |-> Field(params, "dp"),
   from          |-> Field(params, "df"),
   to            |-> Field(params, "dt"),
   status        |-> Field(params, "st"),
   payeeId       |-> Field(params, "pe"),
   categoryId    |-> Field(params, "cat"),
   tags          |-> Field(params, "tg"),
   amountMin     |-> Field(params, "amin"),
   amountMax     |-> Field(params, "amax"),
   text          |-> Field(params, "q"),
   hideFuture    |-> Field(params, "hf"),
   transfers     |-> Field(params, "xf"),
   noFlags       |-> Field(params, "nf"),
   uncategorised |-> Field(params, "unc")]

filters == parseFilters(url)

\* The address with its filters replaced and every other key kept.
withFilters(current, params) ==
  [ k \in (DOMAIN current \cap OtherKeys) \cup DOMAIN params |->
      IF k \in DOMAIN params THEN params[k] ELSE current[k] ]

\* setFilters: to the address and to storage.
SetFilters(f) ==
  /\ url' = withFilters(url, filtersToParams(f))
  /\ saved' = filtersToParams(f)
  /\ chosen' = f
  /\ UNCHANGED sort

----------------------------------------------------------------------------
(* The facets and their chips. *)

Facets == {"preset", "text", "status", "payee", "category", "tags", "amountMin", "amountMax",
           "hideFuture", "transfers", "noFlags", "uncategorised"}

\* The dates' facet is the period and its custom days.
FieldsOf(facet) ==
  CASE facet = "preset"   -> {"preset", "from", "to"}
    [] facet = "payee"    -> {"payeeId"}
    [] facet = "category" -> {"categoryId"}
    [] OTHER              -> {facet}

IsOn(f, facet) ==
  CASE facet = "preset" -> f.preset # "all"
    [] facet = "text"   -> Trim[f.text] # ""
    [] OTHER            -> \E x \in FieldsOf(facet) : f[x] # emptyFilters[x]

activeFilters(f) == { facet \in Facets : IsOn(f, facet) }

\* A chip puts the fields of its facet back as they were at first.
clear(f, facet) ==
  [ x \in DOMAIN f |-> IF x \in FieldsOf(facet) THEN emptyFilters[x] ELSE f[x] ]

\* Every chip asked to clear itself, one after another.
clearedFacets(f) ==
  [ x \in DOMAIN f |-> IF \E facet \in activeFilters(f) : x \in FieldsOf(facet)
                         THEN emptyFilters[x] ELSE f[x] ]

----------------------------------------------------------------------------
(* The reader. *)

\* A control of the filters panel, or the search field of the toolbar.
Choose(field) ==
  \E v \in Offered[field] : SetFilters([filters EXCEPT ![field] = v])

RemoveChip == \E facet \in activeFilters(filters) : SetFilters(clear(filters, facet))

ClearAll == activeFilters(filters) # {} /\ SetFilters(clearedFacets(filters))

\* "Show them" of the notice, and "Clear" of the message that nothing matches.
ShowHidden ==
  /\ \/ hiddenNewerCount(Ledger, applyFilters(Ledger, filters)) > 0
     \/ applyFilters(Ledger, filters) = <<>>
  /\ SetFilters(emptyFilters)

\* The page is opened at an address: the filters of the last visit are put back
\* unless it carries some, or names one row.
Restored(link) ==
  IF activeFilters(parseFilters(link)) # {} \/ "txn" \in DOMAIN link \/ DOMAIN saved = {}
    THEN link
    ELSE withFilters(link, saved)

Open ==
  \E link \in Links : /\ url' = Restored(link)
                      /\ UNCHANGED <<saved, sort, chosen>>

\* Filters the page can read: a period it knows, three flags, and a search that has
\* its trimmed form.
Readable(f) ==
  /\ f.preset \in Presets /\ f.text \in DOMAIN Trim
  /\ {f.hideFuture, f.noFlags, f.uncategorised} \subseteq BOOLEAN

\* Trimming twice is trimming once, what the controls offer and the links hold is
\* readable, and no other key of the address is one of the filters'.
ViewConstants ==
  /\ "" \in DOMAIN Trim /\ Trim[""] = ""
  /\ \A t \in DOMAIN Trim : Trim[t] \in DOMAIN Trim /\ Trim[Trim[t]] = Trim[t]
  /\ DOMAIN Offered \subseteq DOMAIN emptyFilters
  /\ \A field \in DOMAIN Offered : \A v \in Offered[field] : Readable([emptyFilters EXCEPT ![field] = v])
  /\ \A link \in Links : Readable(parseFilters(link))
  /\ OtherKeys \cap DOMAIN Unwritten = {}

Init ==
  /\ url    \in Links
  /\ saved  = << >>
  /\ sort   = None
  /\ chosen = emptyFilters

Next ==
  \/ \E field \in DOMAIN Offered : Choose(field)
  \/ RemoveChip
  \/ ClearAll
  \/ ShowHidden
  \/ Open
  \/ \E col \in Columns : ToggleSort(col)

Spec == Init /\ [][Next]_vars

----------------------------------------------------------------------------
(* Properties. *)

\* What the address and the storage hold is readable back.
TypeOK ==
  /\ filters.preset \in Presets
  /\ activeFilters(filters) \subseteq Facets
  /\ DOMAIN saved \cap OtherKeys = {}
  /\ sort = None \/ sort.id \in Columns

\* "Filters live in the URL query string so they round-trip": coming back
\* without filters in the address shows the rows the reader left, whatever was
\* typed, and so does a reload.
ComingBackShowsTheSame ==
  LET Same(f, g) == \A i \in DOMAIN Ledger : Keeps(f, Ledger[i]) = Keeps(g, Ledger[i]) IN
  /\ Same(parseFilters(filtersToParams(chosen)), chosen)
  /\ Same(parseFilters(filtersToParams(filters)), filters)
  /\ \A link \in Links : DOMAIN link = {} /\ DOMAIN saved # {} =>
       Same(parseFilters(Restored(link)), chosen)

\* #624: filtering keeps what else the address says (the account, ?txn=,
\* ?new=1, which holds the entry sheet open).
SparesOtherKeys ==
  \A k \in OtherKeys : k \in DOMAIN url =>
    \/ k \in DOMAIN url' /\ url'[k] = url[k]
    \/ url' \in { Restored(link) : link \in Links }

\* A chip is as precise as it looks: it clears its own facet and no other, and
\* clearing them all shows the whole ledger.
ChipsArePrecise ==
  /\ \A facet \in activeFilters(filters) :
       activeFilters(clear(filters, facet)) = activeFilters(filters) \ {facet}
  /\ \A i \in DOMAIN Ledger : Keeps(clearedFacets(filters), Ledger[i])

\* The presets hold today and nest.
PresetsHoldToday ==
  LET B(p) == dateBounds([filters EXCEPT !.preset = p], Today)
      In(a, b) == a.from >= b.from /\ a.to <= b.to
  IN  /\ \A p \in Presets \ {"all", "custom"} : B(p).from <= Today /\ Today <= B(p).to
      /\ In(B("thisMonth"), B("thisQuarter")) /\ In(B("thisQuarter"), B("thisHalf"))
      /\ In(B("thisHalf"), B("thisYear")) /\ In(B("last30"), B("last90"))

\* #480: the lines account for every hidden reconciled row, each where its run
\* would sit, and a line says the account is reconciled up to it only when every
\* older row is.
MarksStandForHiddenRows ==
  LET shown  == Visible(filters)
      all    == Display(Ledger)
      hidden == Ids(hiddenReconciled(Ledger, filters))
      marks  == Marks(filters)
      Seen(r) == r.id \in Ids(shown)
      \* visible rows above place i of the whole ledger
      Above(i) == Cardinality({ j \in 1 .. i - 1 : Seen(all[j]) })
  IN  NewestFirst /\ shown # <<>> =>
        /\ \A g \in 0 .. Len(shown) :
             LET here == { i \in DOMAIN all : all[i].id \in hidden /\ Above(i) = g }
                 line == SelectSeq(marks, LAMBDA m : m.before = g + 1)
             IN  IF here = {} THEN line = <<>>
                 ELSE Len(line) = 1 /\ line[1].count = Cardinality(here)
        /\ \A k \in DOMAIN marks : marks[k].closesLedger =>
             \A i \in DOMAIN all : Above(i) >= marks[k].before - 1 => all[i].status = 2

\* The rows on screen are in the order of the whole ledger, whatever is
\* filtered, and newest first is the ledger's own order, rows of one day
\* included: the lines, and the balances read down the page, rely on both.
OrderIsTheLedgers ==
  /\ Visible(filters) = SelectSeq(Display(Ledger), LAMBDA r : r.id \in Ids(Visible(filters)))
  /\ NewestFirst => Display(Ledger) = Reverse(Ledger)
=============================================================================
