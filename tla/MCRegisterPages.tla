-------------------------- MODULE MCRegisterPages ---------------------------
(* The screens of the register in small: the page that lists an account's rows, *)
(* what of it a filter shows, the sheet that enters a row, the one of a transfer *)
(* and the inbox of what is to be reviewed.  A behaviour is of one of the five.  *)
EXTENDS Review

CONSTANT Parts   \* those this instance runs

VARIABLES
  part,   \* the one this behaviour is of
  live, rec, outside, account, cache, selected, anchor, reconcile, menu, question,
  bulkOpen, loads, formOpened, editing, duplicating, transferSheet, jobs, asks, bound,
  url, saved, sort, chosen, entry, book, stencils, sending, helping, lastDate, crossed,
  spent, kept, opened, query, seeded, fields, saving, writes, since

\* The page: a row of the first account, and a transfer between the two; answers
\* that race, deletes while another is on its way or rows go elsewhere.
Where == [r \in {1, 2, 3} |-> IF r = 3 THEN "b" ELSE "a"]
Legs  == [r \in {2, 3} |-> 5 - r]
Scenarios == { [asks |-> 0, loads |-> 2, outside |-> 0],
               [asks |-> 1, loads |-> 1, outside |-> 0],
               [asks |-> 1, loads |-> 0, outside |-> 1] }

\* The filters: five rows round 30 June 2024, day 181: two of one day, one to
\* come, one reconciled above and one below a cleared row.
Row(i, d, s, p, c, x, t, w, a) ==
  [id |-> i, date |-> d, status |-> s, payee |-> p, category |-> c, transfer |-> x,
   tags |-> t, words |-> w, amount |-> a]
Rows5 == << Row(1, 60, 2, None, None, FALSE, {"home"}, {"rent"}, 5),
            Row(2, 150, 1, 1, "food", FALSE, {}, {}, 3),
            Row(3, 180, 2, 1, "fruit", TRUE, {"home"}, {"rent"}, 3),
            Row(4, 180, 0, None, None, FALSE, {}, {"rent"}, 1),
            Row(5, 190, 2, 2, "food", FALSE, {}, {}, 4) >>
Family    == [c \in {"food", "fruit"} |-> IF c = "food" THEN {"fruit"} ELSE {}]
Texts     == {"", "rent", "rent "}
Trimmed   == [t \in Texts |-> IF t = "" THEN "" ELSE "rent"]
Controls  == [preset |-> {"all", "thisHalf", "last30", "custom"}, from |-> {None, 100},
              status |-> {None, 0, 2}, categoryId |-> {None, "food"},
              tags |-> {{}}, text |-> Texts, transfers |-> {"all", "none"}, noFlags |-> {FALSE}]
Addresses == { << >>, [unc |-> TRUE], [txn |-> 3], [new |-> TRUE, account |-> 1] }

\* The entry: a row to edit or copy, a template, and what the helpers answer.
Expense == [date |-> 1, direction |-> "expense", amount |-> 1, payee |-> "shop",
            category |-> None, memo |-> "", tags |-> {}, isSplit |-> FALSE, splits |-> <<>>]
OneRow == <<Expense>>
OneTemplate == <<[Expense EXCEPT !.payee = None, !.category = "fun", !.amount = 2]>>
Read == [payee |-> "bakery", category |-> None, amount |-> 1, direction |-> "income",
         memo |-> "", tags |-> {"t1"}]
MCOffers == [rules    |-> {[payee |-> "bakery", category |-> "food", tags |-> {"t1"}]},
             category |-> {[category |-> "food"]}, create |-> {[category |-> "food"]},
             parse    |-> {Read}, receipt |-> {Read}]
MCTyping == [amount |-> {1, 2}, payee |-> {None, "shop"}, category |-> {"fun"},
             memo |-> {"memo"}, date |-> {2}, tags |-> {{"t2"}}]

Filled == {-1}

\* The inbox: rows typed by hand, two of the bank's, one of a mail's; what comes
\* is a look-alike of the bank's and the reversal of the mail's.
Inbox(acc, amount, category, ref, old) ==
  [acc |-> acc, amount |-> amount, category |-> category, payee |-> None, ref |-> ref, old |-> old]
RowsAtFirst == [a |-> Inbox(1, 5, "k1", None, FALSE), b |-> Inbox(1, 5, None, "r1", FALSE),
                c |-> Inbox(2, 7, None, "r2", FALSE), m |-> Inbox(1, -5, "k2", "m1", TRUE)]
NewRows == [d |-> Inbox(2, 7, None, "r3", FALSE), n |-> Inbox(1, 5, None, "m2", FALSE)]
Proposed == {[b |-> [categoryId |-> "k2", payeeId |-> "p1"], c |-> [categoryId |-> None, payeeId |-> "p1"]]}
NoneOrOne == {None, 1}
Unusual == {[kind |-> "double", id |-> "a", other |-> "b"], [kind |-> "new", id |-> "c", other |-> None]}

-----------------------------------------------------------------------------
R == INSTANCE Register
  WITH Rows <- {1, 2, 3}, Accounts <- {"a", "b"}, AccountOf <- Where, OtherLeg <- Legs,
       Bounds <- Scenarios
V == INSTANCE RegisterView
  WITH Ledger <- Rows5, Children <- Family, Today <- 181, Trim <- Trimmed,
       Offered <- Controls, Links <- Addresses, Columns <- {"date"},
       OtherKeys <- {"account", "txn", "new", "kind"}
E == INSTANCE Entry
  WITH Stored <- OneRow, Templates <- OneTemplate, Offers <- MCOffers,
       Typing <- MCTyping, Accounts <- {1, 2}, Home <- 1, Dates <- {1, 2}, Today <- 1,
       DateDefault <- "last", MaxTyped <- 2, MaxOpens <- 2, MaxSaves <- 1, MaxAsks <- 1,
       MaxFaults <- 1, asked <- helping, Payees <- {"shop", "bakery"},
       Categories <- {"food", "fun"}, Memos <- {"", "memo"}, Tags <- {"t1", "t2"}
T == INSTANCE TransferSheet
  WITH Transfers <- {"t1", "t2"}, Templates <- Filled, MaxWrites <- 2

\* Variables a part does not have are None in its behaviours; those of Review stay at their
\* start.
PartsInit ==
  /\ part \in Parts
  /\ Init
  /\ \/ /\ part = "review"
        /\ live = None /\ rec = None /\ outside = None /\ account = None
        /\ cache = None /\ selected = None /\ anchor = None /\ reconcile = None
        /\ menu = None /\ question = None /\ bulkOpen = None /\ loads = None
        /\ formOpened = None /\ editing = None /\ duplicating = None
        /\ transferSheet = None /\ jobs = None /\ asks = None /\ bound = None
        /\ url = None /\ saved = None /\ sort = None /\ chosen = None
        /\ entry = None /\ book = None /\ stencils = None /\ sending = None
        /\ helping = None /\ lastDate = None /\ crossed = None /\ spent = None
        /\ kept = None /\ opened = None /\ query = None /\ seeded = None
        /\ fields = None /\ saving = None /\ writes = None /\ since = None
     \/ /\ part = "page" /\ R!Init /\ onlyAccount = None
        /\ url = None /\ saved = None /\ sort = None /\ chosen = None
        /\ entry = None /\ book = None /\ stencils = None /\ sending = None
        /\ helping = None /\ lastDate = None /\ crossed = None /\ spent = None
        /\ kept = None /\ opened = None /\ query = None /\ seeded = None
        /\ fields = None /\ saving = None /\ writes = None /\ since = None
     \/ /\ part = "view" /\ V!Init /\ onlyAccount = None
        /\ live = None /\ rec = None /\ outside = None /\ account = None
        /\ cache = None /\ selected = None /\ anchor = None /\ reconcile = None
        /\ menu = None /\ question = None /\ bulkOpen = None /\ loads = None
        /\ formOpened = None /\ editing = None /\ duplicating = None
        /\ transferSheet = None /\ jobs = None /\ asks = None /\ bound = None
        /\ entry = None /\ book = None /\ stencils = None /\ sending = None
        /\ helping = None /\ lastDate = None /\ crossed = None /\ spent = None
        /\ kept = None /\ opened = None /\ query = None /\ seeded = None
        /\ fields = None /\ saving = None /\ writes = None /\ since = None
     \/ /\ part = "entry" /\ E!Init /\ onlyAccount = None
        /\ live = None /\ rec = None /\ outside = None /\ account = None
        /\ cache = None /\ selected = None /\ anchor = None /\ reconcile = None
        /\ menu = None /\ question = None /\ bulkOpen = None /\ loads = None
        /\ formOpened = None /\ editing = None /\ duplicating = None
        /\ transferSheet = None /\ jobs = None /\ asks = None /\ bound = None
        /\ url = None /\ saved = None /\ sort = None /\ chosen = None /\ kept = None
        /\ opened = None /\ query = None /\ seeded = None /\ fields = None
        /\ saving = None /\ writes = None /\ since = None
     \/ /\ part = "transfer" /\ T!Init /\ onlyAccount = None
        /\ live = None /\ rec = None /\ outside = None /\ account = None
        /\ cache = None /\ selected = None /\ anchor = None /\ reconcile = None
        /\ menu = None /\ question = None /\ bulkOpen = None /\ loads = None
        /\ formOpened = None /\ editing = None /\ duplicating = None
        /\ transferSheet = None /\ jobs = None /\ asks = None /\ bound = None
        /\ url = None /\ saved = None /\ sort = None /\ chosen = None
        /\ entry = None /\ book = None /\ stencils = None /\ sending = None
        /\ helping = None /\ lastDate = None /\ crossed = None /\ spent = None

PartsNext ==
  /\ UNCHANGED part
  /\ \/ /\ part = "review" /\ Next
        /\ UNCHANGED <<live, rec, outside, account, cache, selected, anchor, reconcile,
                      menu, question, bulkOpen, loads, formOpened, editing, duplicating,
                      transferSheet, jobs, asks, bound, url, saved, sort, chosen, entry,
                      book, stencils, sending, helping, lastDate, crossed, spent, kept,
                      opened, query, seeded, fields, saving, writes, since>>
     \/ /\ part = "page" /\ R!Next
        /\ UNCHANGED <<vars, url, saved, sort, chosen, entry, book, stencils, sending,
                      helping, lastDate, crossed, spent, kept, opened, query, seeded,
                      fields, saving, writes, since>>
     \/ /\ part = "view" /\ V!Next
        /\ UNCHANGED <<vars, live, rec, outside, account, cache, selected, anchor,
                      reconcile, menu, question, bulkOpen, loads, formOpened, editing,
                      duplicating, transferSheet, jobs, asks, bound, entry, book,
                      stencils, sending, helping, lastDate, crossed, spent, kept,
                      opened, query, seeded, fields, saving, writes, since>>
     \/ /\ part = "entry" /\ E!Next
        /\ UNCHANGED <<vars, live, rec, outside, account, cache, selected, anchor,
                      reconcile, menu, question, bulkOpen, loads, formOpened, editing,
                      duplicating, transferSheet, jobs, asks, bound, url, saved, sort,
                      chosen, kept, opened, query, seeded, fields, saving, writes, since>>
     \/ /\ part = "transfer" /\ T!Next
        /\ UNCHANGED <<vars, live, rec, outside, account, cache, selected, anchor,
                      reconcile, menu, question, bulkOpen, loads, formOpened, editing,
                      duplicating, transferSheet, jobs, asks, bound, url, saved, sort,
                      chosen, entry, book, stencils, sending, helping, lastDate,
                      crossed, spent>>

partsVars == <<part, vars, live, rec, outside, account, cache, selected, anchor,
    reconcile, menu, question, bulkOpen, loads, formOpened, editing, duplicating,
    transferSheet, jobs, asks, bound, url, saved, sort, chosen, entry, book, stencils,
    sending, helping, lastDate, crossed, spent, kept, opened, query, seeded, fields,
    saving, writes, since>>

PartsSpec == PartsInit /\ [][PartsNext]_partsVars

-----------------------------------------------------------------------------
ASSUME PageConstants == R!RegisterAssumption /\ T!SheetConstants /\ E!EntryConstants
                        /\ V!ViewConstants

\* A sheet opens on the whole record or not at all, and on one row; what a bulk
\* action takes is of the account on screen; and a reconciled row is unlocked
\* before its own button deletes it (TransactionsPage.tsx, RegisterTable.tsx).
SheetHoldsTheWholeRecord ==
  part = "page" => /\ R!TypeOK /\ R!PickedRowsAreOfThisAccount /\ R!LockedRowsAskFirst
                   /\ R!SheetHoldsTheWholeRecord /\ R!SheetIsOnOneRow

\* Coming back to a register, without filters in the address, shows the rows the
\* reader left; and of what the filters say each chip clears its own, the
\* presets hold today, the marks stand for every hidden reconciled row, and the
\* order is the ledger's (registerFilterModel.ts, TransactionsPage.tsx).
ComingBackShowsTheSame ==
  part = "view" => /\ V!TypeOK /\ V!ComingBackShowsTheSame /\ V!ChipsArePrecise
                   /\ V!PresetsHoldToday /\ V!MarksStandForHiddenRows /\ V!OrderIsTheLedgers

\* An entry sheet that closes without a question loses nothing: it is blank, or
\* holds a row as the server has it, unless it was filled under a save
\* (TransactionForm.tsx).
QuietSheetHasNothingUnsaved == part = "entry" => E!TypeOK /\ E!QuietSheetHasNothingUnsaved

\* A suggestion leaves alone what the reader had chosen before it was asked for,
\* and a filter leaves alone what else the address says (TransactionForm.tsx,
\* registerFilterModel.ts).
ChangesSpareTheRest ==
  [][(part = "entry" => E!SparesWhatItSaw) /\ (part = "view" => V!SparesOtherKeys)]_partsVars

\* The sheet of a transfer is filled with what the server had of it since it was
\* opened (TransferForm.tsx).
SeededAfresh == part = "transfer" => T!TypeOK /\ T!SeededAfresh
=============================================================================
