------------------------------- MODULE Register -------------------------------
(***************************************************************************)
(* The register page of one account at a time (web: TransactionsPage.tsx,  *)
(* RegisterTable.tsx, BulkEditModal.tsx).                                  *)
(*                                                                         *)
(* The page acts on copies: the rows the last answer listed, a row caught  *)
(* by a menu or a question, the whole record a sheet was opened on, the    *)
(* ids picked so far.  Meanwhile rows change and go, another account is    *)
(* put on screen, and answers arrive late.                                 *)
(***************************************************************************)
EXTENDS Naturals, FiniteSets, FiniteSetsExt

CONSTANTS
  Rows,        \* transactions, numbered in the order of their dates
  Accounts,
  AccountOf,   \* row -> its account
  OtherLeg,        \* leg of a transfer -> the other leg
  Bounds       \* the bounds of a behaviour: how many requests the page sends,
               \* whole records are on their way at once, changes are made elsewhere

\* What the constants are.
RegisterAssumption ==
  /\ Rows \subseteq Nat \ {0} /\ IsFiniteSet(Rows) /\ Rows # {}
  /\ AccountOf \in [Rows -> Accounts]
  /\ DOMAIN OtherLeg \subseteq Rows
  /\ \A r \in DOMAIN OtherLeg : OtherLeg[r] \in DOMAIN OtherLeg /\ OtherLeg[OtherLeg[r]] = r /\ OtherLeg[r] # r
  /\ Bounds \subseteq [asks : Nat, loads : Nat, outside : Nat]

Reconciled == 2
NoRow == [id |-> 0]
Unlisted == "unlisted"   \* the split lines of a row in the list, which leaves them out

VARIABLES
  \* the server
  live,       \* the rows there are
  rec,        \* row -> its status and split lines
  outside,    \* changes made elsewhere so far
  \* the page
  account,    \* the account on screen
  cache,      \* the rows its last answer listed
  selected,   \* ids
  anchor,     \* the place of the last plain tick, for a range; 0 before it
  reconcile,  \* reconcile mode
  menu,       \* the row of the context menu
  question,   \* the dialog on screen
  bulkOpen,   \* the bulk editor
  loads,      \* whole records on their way
  formOpened, editing, duplicating,     \* the entry sheet
  transferSheet,   \* the transfer sheet: closed, on a new one, or on a leg
  jobs,       \* requests on their way
  asks,       \* requests sent so far
  bound       \* the bounds of this behaviour

server == <<live, rec, outside>>
picking == <<selected, anchor, reconcile>>
sheets == <<formOpened, editing, duplicating, transferSheet>>
vars == <<server, account, cache, picking, menu, question, bulkOpen, loads, sheets,
          jobs, asks, bound>>

NoQuestion == [ask |-> "none"]

\* A row as the register's list has it.
Listed(r) == [id |-> r, status |-> rec[r].status, splits |-> Unlisted]

\* A whole record, as the sheet holds it (its status is a field the reader sets).
Whole(r) == [id |-> r, splits |-> rec[r].splits]

List(a) == { Listed(r) : r \in { x \in live : AccountOf[x] = a } }

\* The place of a row on screen, newest first.
PlaceOf(row) == Cardinality({ id \in { r.id : r \in cache } : id >= row.id })

Init ==
  /\ live = Rows
  /\ rec = [r \in Rows |-> [status |-> IF r = Min(Rows) THEN Reconciled ELSE 0, splits |-> "kept"]]
  /\ outside = 0
  /\ account \in Accounts
  /\ cache = {}
  /\ selected = {} /\ anchor = 0 /\ reconcile = FALSE
  /\ menu = NoRow /\ question = NoQuestion /\ bulkOpen = FALSE
  /\ loads = {} /\ jobs = {} /\ asks = 0
  /\ formOpened = FALSE /\ editing = NoRow /\ duplicating = NoRow
  /\ transferSheet = "closed"
  /\ bound \in Bounds

\* A dialog, a menu or a sheet takes the clicks meant for the page.
Free == /\ menu = NoRow /\ question = NoQuestion /\ ~bulkOpen
        /\ ~formOpened /\ transferSheet = "closed"

CanLoad == Cardinality(loads) < bound.loads

Ask(job) ==
  /\ asks < bound.asks
  /\ asks' = asks + 1
  /\ jobs' = jobs \cup {job}

----------------------------------------------------------------------------
(* What is on screen. *)

\* The list is read: on arrival, every 30 seconds, on focus, after a write.
ReadRegister ==
  /\ cache' = List(account)
  /\ UNCHANGED <<server, account, picking, menu, question, bulkOpen, loads, sheets,
                 jobs, asks>>

\* Another account from the title: ticks and reconcile mode go, the place of
\* the last tick and the sheet's row stay.  Its rows are those it had cached, if
\* any.
SwitchAccount(a) ==
  /\ Free /\ a # account
  /\ account' = a /\ cache' \in {{}, List(a)}
  /\ selected' = {} /\ reconcile' = FALSE
  /\ UNCHANGED <<server, anchor, menu, question, bulkOpen, loads, sheets,
                 jobs, asks>>

----------------------------------------------------------------------------
(* Picking rows. *)

Picking ==
  /\ Free
  /\ UNCHANGED <<server, account, cache, menu, question, bulkOpen, loads, sheets,
                 jobs, asks>>

\* toggleSelect: a plain tick, which moves the anchor; or Space on the cursor's
\* row, which does not.
Tick(row) ==
  /\ Picking
  /\ selected' = IF row.id \in selected THEN selected \ {row.id} ELSE selected \cup {row.id}
  /\ anchor' \in {anchor, PlaceOf(row)}
  /\ UNCHANGED reconcile

\* Shift and a click: the rows now between the place of the last tick and this one.
TickRange(row) ==
  LET Between(n, m) == { r \in cache : n <= PlaceOf(r) /\ PlaceOf(r) <= m } IN
  /\ Picking /\ anchor # 0
  /\ selected' = selected \cup
       { r.id : r \in Between(anchor, PlaceOf(row)) \cup Between(PlaceOf(row), anchor) }
  /\ UNCHANGED <<anchor, reconcile>>

\* toggleAll over the rows on screen.
TickAll ==
  LET ids == { row.id : row \in cache } IN
  /\ Picking
  /\ \/ selected' = selected \cup ids
     \/ selected' = selected \ ids
  /\ UNCHANGED <<anchor, reconcile>>

\* "Clear selection" of the bar; reconcile mode from the menu, on and off, and
\* the panel's Cancel.
ClearSelection ==
  /\ Picking
  /\ selected' = {}
  /\ reconcile' \in BOOLEAN
  /\ UNCHANGED anchor

\* The context menu keeps the row it was opened on.
OpenMenu(row) ==
  /\ Free /\ menu' = row
  /\ UNCHANGED <<server, account, cache, picking, question, bulkOpen, loads, sheets,
                 jobs, asks>>

CloseMenu ==
  /\ menu # NoRow /\ menu' = NoRow
  /\ UNCHANGED <<server, account, cache, picking, question, bulkOpen, loads, sheets,
                 jobs, asks>>

\* A row's own button acts on the row on screen, the menu's on the one it kept.
ActOn(row) ==
  /\ \/ Free /\ row \in cache
     \/ row = menu /\ row # NoRow
  /\ menu' = NoRow
  /\ UNCHANGED <<server, account, cache, picking, bulkOpen>>

----------------------------------------------------------------------------
(* The entry and transfer sheets. *)

\* (Mutant: the sheet is opened on the row of the list.)
LoadWholeRow(row, why) ==
  /\ loads' = loads \cup { [id |-> row.id, why |-> why, row |-> [id |-> row.id, splits |-> row.splits]] }
  /\ UNCHANGED sheets

\* The whole record is asked for; a leg of a transfer opens the transfer sheet.
loadWhole(row, why) ==
  /\ CanLoad
  /\ loads' = loads \cup { [id |-> row.id, why |-> why, row |-> NoRow] }
  /\ UNCHANGED sheets

OpenTransfer(row) ==
  /\ transferSheet' = "edit"
  /\ UNCHANGED <<formOpened, editing, duplicating, loads>>

Edit(row) == IF row.id \in DOMAIN OtherLeg THEN OpenTransfer(row) ELSE loadWhole(row, "edit")

\* A reconciled row is locked: it asks first.
editRow(row) ==
  /\ ActOn(row)
  /\ IF row.status = Reconciled
       THEN question' = [ask |-> "unlockEdit", row |-> row] /\ UNCHANGED <<loads, sheets>>
       ELSE Edit(row) /\ UNCHANGED question
  /\ UNCHANGED <<jobs, asks>>

duplicateRow(row) ==
  /\ ActOn(row)
  /\ row.id \notin DOMAIN OtherLeg
  /\ loadWhole(row, "duplicate")
  /\ UNCHANGED <<question, jobs, asks>>

\* The server reads the record; one that is gone opens nothing.
ReadWhole(load) ==
  /\ load.row = NoRow
  /\ loads' = (loads \ {load}) \cup
       IF load.id \in live THEN { [load EXCEPT !.row = Whole(load.id)] } ELSE {}
  /\ UNCHANGED <<server, account, cache, picking, menu, question, bulkOpen, sheets,
                 jobs, asks>>

\* The answer opens the sheet, whatever the page shows by now.
OpenedOn(load) ==
  /\ load.row # NoRow
  /\ loads' = loads \ {load}
  /\ formOpened' = TRUE
  /\ IF load.why = "edit" THEN editing' = load.row /\ duplicating' = NoRow
                          ELSE editing' = NoRow /\ duplicating' = load.row
  /\ UNCHANGED <<server, account, cache, picking, menu, question, bulkOpen,
                 transferSheet, jobs, asks>>

\* The Add button and the first line of the ledger.
AddTransaction ==
  /\ Free
  /\ formOpened' = TRUE /\ editing' = NoRow /\ duplicating' = NoRow
  /\ UNCHANGED <<server, account, cache, picking, menu, question, bulkOpen, loads,
                 transferSheet, jobs, asks>>

\* The N key opens the sheet on what it last edited.
PressN ==
  /\ ~formOpened /\ transferSheet = "closed" /\ ~reconcile
  /\ formOpened' = TRUE
  /\ UNCHANGED <<server, account, cache, picking, menu, question, bulkOpen, loads,
                 editing, duplicating, transferSheet, jobs, asks>>

\* "Add a transfer" of the menu.
AddTransfer ==
  /\ Free /\ Cardinality(Accounts) > 1
  /\ transferSheet' = "new"
  /\ UNCHANGED <<server, account, cache, picking, menu, question, bulkOpen, loads,
                 formOpened, editing, duplicating, jobs, asks>>

CloseSheet ==
  /\ formOpened \/ transferSheet # "closed"
  /\ formOpened' = FALSE /\ duplicating' = NoRow
  /\ transferSheet' = "closed"
  /\ UNCHANGED <<server, account, cache, picking, menu, question, bulkOpen, loads,
                 editing, jobs, asks>>

\* Save sends all the sheet holds, lines included.
SaveSheet ==
  /\ formOpened /\ editing # NoRow
  /\ \E s \in {0, Reconciled} :
       Ask([kind |-> "save", ids |-> {editing.id}, row |-> editing, status |-> s])
  /\ UNCHANGED <<server, account, cache, picking, menu, question, bulkOpen, loads, sheets>>

----------------------------------------------------------------------------
(* One row's status, and deletes. *)

\* markCleared, markReconciled, and the keys C and R: the status wanted comes
\* from the copy.
toggleStatus(row) ==
  /\ ActOn(row)
  /\ Ask([kind |-> "status", ids |-> {row.id},
          status |-> IF row.status = Reconciled THEN 0 ELSE Reconciled])
  /\ UNCHANGED <<question, loads, sheets>>

deleteRow(row) ==
  /\ ActOn(row)
  /\ question' = [ask |-> IF row.status = Reconciled THEN "unlockDelete" ELSE "delete", row |-> row,
                  unlocked |-> FALSE]
  /\ UNCHANGED <<loads, sheets, jobs, asks>>

\* The bar's Delete, or the menu's for more than one picked row: the ids are
\* those picked now.
deleteSelected ==
  /\ \/ Free /\ ~reconcile /\ selected # {}
     \/ menu # NoRow /\ Cardinality(selected) > 1
  /\ menu' = NoRow
  /\ question' = [ask |-> "bulkDelete", ids |-> selected]
  /\ UNCHANGED <<server, account, cache, picking, bulkOpen, loads, sheets, jobs, asks>>

BothLegs(ids) == ids \cup { OtherLeg[r] : r \in ids \cap DOMAIN OtherLeg }

\* Yes to "unlock it to edit", "unlock it to delete".
Unlock ==
  /\ question.ask \in {"unlockEdit", "unlockDelete"}
  /\ IF question.ask = "unlockEdit"
       THEN question' = NoQuestion /\ Edit(question.row)
       ELSE /\ question' = [ask |-> "delete", row |-> question.row, unlocked |-> TRUE]
            /\ UNCHANGED <<loads, sheets>>
  /\ UNCHANGED <<server, account, cache, picking, menu, bulkOpen, jobs, asks>>

\* Yes to a delete: of the row, or the ids, the question was asked about.
Agree ==
  /\ question.ask \in {"delete", "bulkDelete"}
  /\ question' = NoQuestion
  /\ IF question.ask = "delete"
       THEN Ask([kind |-> "remove", ids |-> {question.row.id}, row |-> question.row,
                 unlocked |-> question.unlocked])
       ELSE Ask([kind |-> "bulkDelete", ids |-> question.ids])
  /\ UNCHANGED <<server, account, cache, picking, menu, bulkOpen, loads, sheets>>

\* No, Escape, a click beside the dialog.
Decline ==
  /\ question # NoQuestion /\ question' = NoQuestion
  /\ UNCHANGED <<server, account, cache, picking, menu, bulkOpen, loads, sheets, jobs, asks>>

----------------------------------------------------------------------------
(* Many rows at once. *)

OpenBulkEdit ==
  /\ \/ Free /\ ~reconcile /\ selected # {}
     \/ menu # NoRow /\ Cardinality(selected) > 1
  /\ menu' = NoRow /\ bulkOpen' = TRUE
  /\ UNCHANGED <<server, account, cache, picking, question, loads, sheets, jobs, asks>>

CloseBulkEdit ==
  /\ bulkOpen /\ bulkOpen' = FALSE
  /\ UNCHANGED <<server, account, cache, picking, menu, question, loads, sheets, jobs, asks>>

InFlight(kinds) == \E j \in jobs : j.kind \in kinds

\* Apply, unless one is on its way: the ids picked at that moment.
ApplyBulk ==
  /\ bulkOpen /\ ~InFlight({"bulk"})
  /\ \E s \in {0, Reconciled} : Ask([kind |-> "bulk", ids |-> selected, status |-> s])
  /\ UNCHANGED <<server, account, cache, picking, menu, question, bulkOpen, loads, sheets>>

\* The reconcile panel's Finish: the ticked rows become reconciled, and the
\* mode ends at once.
FinishReconcile ==
  /\ Free /\ reconcile /\ selected # {}
  /\ Ask([kind |-> "bulk", ids |-> selected, status |-> Reconciled])
  /\ reconcile' = FALSE
  /\ UNCHANGED <<server, account, cache, selected, anchor, menu, question, bulkOpen, loads,
                 sheets>>

----------------------------------------------------------------------------
(* The server, and its answers. *)

Reply(job, verdict) == jobs' = (jobs \ {job}) \cup { [kind |-> verdict, of |-> job.kind] }

\* One request, whole or not at all; a row that is gone refuses it.
Serve(job) ==
  /\ job.kind \notin {"done", "refused"}
  /\ IF job.ids \subseteq live
       THEN /\ Reply(job, "done")
            /\ CASE job.kind \in {"status", "bulk"} ->
                      /\ rec' = [r \in Rows |-> IF r \in job.ids THEN [rec[r] EXCEPT !.status = job.status]
                                                                  ELSE rec[r]]
                      /\ UNCHANGED live
                 [] job.kind \in {"remove", "bulkDelete"} ->
                      /\ live' = live \ BothLegs(job.ids)
                      /\ UNCHANGED rec
                 [] job.kind = "save" ->
                      /\ rec' = [rec EXCEPT ![job.row.id] =
                                   [status |-> job.status,
                                    splits |-> IF job.row.splits = Unlisted THEN "gone" ELSE job.row.splits]]
                      /\ UNCHANGED live
       ELSE Reply(job, "refused") /\ UNCHANGED <<live, rec>>
  /\ UNCHANGED <<outside, account, cache, picking, menu, question, bulkOpen, loads, sheets,
                 asks>>

\* onSuccess and onError.  A bulk edit or delete that went through clears the
\* ticks there are by now; a save closes its sheet.
Answered(job) ==
  /\ job.kind \in {"done", "refused"}
  /\ jobs' = jobs \ {job}
  /\ IF job.kind = "done" /\ job.of \in {"bulk", "bulkDelete"} THEN selected' = {} ELSE UNCHANGED selected
  /\ IF job.kind = "done" /\ job.of = "bulk" THEN bulkOpen' = FALSE ELSE UNCHANGED bulkOpen
  /\ IF job.kind = "done" /\ job.of = "save" THEN formOpened' = FALSE /\ duplicating' = NoRow
                                             ELSE UNCHANGED <<formOpened, duplicating>>
  /\ UNCHANGED <<server, account, cache, anchor, reconcile, menu, question, loads,
                 editing, transferSheet, asks>>

\* Another device, a bank sync, a schedule.
Outside ==
  /\ outside < bound.outside
  /\ outside' = outside + 1
  /\ \E r \in live : \/ live' = live \ BothLegs({r}) /\ UNCHANGED rec
                     \/ rec' = [rec EXCEPT ![r].status = Reconciled - @] /\ UNCHANGED live
  /\ UNCHANGED <<account, cache, picking, menu, question, bulkOpen, loads, sheets, jobs, asks>>

Step ==
  \/ ReadRegister \/ TickAll \/ ClearSelection \/ CloseMenu
  \/ \E a \in Accounts : SwitchAccount(a)
  \/ \E row \in cache : Tick(row) \/ TickRange(row) \/ OpenMenu(row)
  \/ \E row \in cache \cup ({menu} \ {NoRow}) :
       editRow(row) \/ duplicateRow(row) \/ toggleStatus(row) \/ deleteRow(row)
  \/ \E load \in loads : ReadWhole(load) \/ OpenedOn(load)
  \/ AddTransaction \/ PressN \/ AddTransfer \/ CloseSheet \/ SaveSheet
  \/ deleteSelected \/ Unlock \/ Agree \/ Decline
  \/ OpenBulkEdit \/ CloseBulkEdit \/ ApplyBulk \/ FinishReconcile
  \/ \E job \in jobs : Serve(job) \/ Answered(job)
  \/ Outside

Next == Step /\ UNCHANGED bound

Spec == Init /\ [][Next]_vars

----------------------------------------------------------------------------
(* Properties. *)

\* The page's state is of the shapes the code gives it.
TypeOK ==
  /\ live \subseteq Rows /\ account \in Accounts
  /\ \A row \in cache : row.id \in Rows /\ AccountOf[row.id] = account
  /\ anchor \in 0 .. Cardinality(Rows)
  /\ asks \in 0 .. bound.asks /\ outside \in 0 .. bound.outside
  /\ reconcile \in BOOLEAN /\ bulkOpen \in BOOLEAN

\* A bulk edit, a delete or the end of a reconcile takes rows of the account on
\* screen only: ticks never follow the reader into another register, whichever
\* way they were made and however late an answer is.
PickedRowsAreOfThisAccount == \A r \in selected : AccountOf[r] = account

\* "Reconciled rows are locked": a row its own button deletes was unlocked
\* first, if the page showed it as reconciled.
LockedRowsAskFirst ==
  \A job \in jobs : job.kind = "remove" /\ job.row.status = Reconciled => job.unlocked

\* loadWhole: the sheet opens on the whole record or not at all; seeded from
\* the list it would save the row without its splits and tags.
SheetHoldsTheWholeRecord ==
  /\ editing # NoRow => editing.splits # Unlisted
  /\ duplicating # NoRow => duplicating.splits # Unlisted

\* The sheet is on one thing: what Save writes over is what it was filled from,
\* whichever of two late answers came last.
SheetIsOnOneRow == editing = NoRow \/ duplicating = NoRow

=============================================================================
