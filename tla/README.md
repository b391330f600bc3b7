# cloudbank in TLA+

This directory is the formal model of cloudbank: TLA+ modules of the parts of its
server (`src/server`) and of its web client (`src/web`), TLC configurations that
check them on small instances, and TLAPS proofs about them for every instance.
Each definition that models code names the lines it stands for in `PROJECT.json`
("map"; a helper whose lines lie within those of the definition that uses it has
no row of its own). Paths of Go files below are under `src/server/internal/`, those
of TypeScript files under `src/web/src/`; `docs/` and `cmd/` are what they say.

- [The system](#the-system): parts, state, operations, what is hard about them
- [Modules](#modules): what each models and how it corresponds to the code
- [Runs](#runs): what TLC checks, on which bounds, and why they are enough
- [Fairness](#fairness)
- [Theorems](#theorems): what is proved for every value of the constants, and how
- [Where code and words disagree](#where-code-and-words-disagree)
- [Not modelled](#not-modelled) and [Plan](#plan)

## The system

cloudbank is a self-hosted personal finance server: one Go process, one SQLite
database, a React client. `cmd/cloudbank/main.go` starts an HTTP server and, at
the same time, some ten goroutines that work on the same tables: the scheduler
(at start, then hourly), the bank sync (at start, then at intervals), the
notification worker, the money alerts, the listeners of bank mail, the refresh of
rates, insights, the check for updates, the demo's sweep. Nothing is shared in
memory between them but channels that wake them up; **the database is the shared
state**.

The store (`store/store.go`) opens SQLite in WAL mode with one connection for
writing and a pool for reading. A statement is atomic, a `BeginTx` block is
atomic and excludes other writers, ids are `AUTOINCREMENT` (never reused),
foreign keys are on. So the step of every model of the server is a statement or a
transaction, and **what is hard is what lies between them**: a value read before
a transaction and written back in it, two statements where one of them may be the
last, a process that dies in between, and two goroutines that both go through the
same sequence. A request has a context and may end at any of these points.

The client keeps copies of what the server answered (TanStack Query) and sheets
that stay mounted. It is concurrent in its own way: answers come late and in any
order, a press finds a copy that is being read again, a form is filled by a rule
or an AI while the reader types, several tabs and devices write the same row. In
the models of pages **a step is one event** — a press, an answer, a fetch — and
what the reader sees is state, so that "what is done is what was shown" can be
said.

### The server's parts

| Part | State | Operations | Hard | Must hold |
| --- | --- | --- | --- | --- |
| Recurrence (`schedule/recurrence.go`) | none | `AddInterval`, `AdjustWeekend` | month ends, leap years, weekends | steps advance, and land where a calendar says |
| Schedules (`schedule/service.go`) | `schedules`: next due date, occurrences left | `RunDue` hourly; requests create, update, delete, post now, skip; cascades | the row is read before the transaction that moves it on; downtime; a cap on one run; one bad row | each occurrence once, none lost, limits hold, every due one posted |
| Register and transfers (`transaction`, `transfer`, `account`) | `transactions`, `transfers` | create, delete, bulk delete, account deletion | the pair of a leg is read before the transaction that deletes it; many statements in one request | no half of a transfer, nothing goes that nobody asked for |
| Review inbox (`transaction/review.go`, `review_mail.go`) | the same tables | merge two rows, merge a mail's row, dismiss | a merge is three or four steps over rows that others delete | the bank's refs stay on a row |
| Bank sync (`banksync`, `importio`) | `bank_connections`, `bank_links`, rows with an `import_ref` | scheduled sync, "Sync now", preview, match, commit | window of dates, pending then booked, equal amounts, edits between preview and commit, overlapping syncs | a movement ends in one row; the window misses nothing |
| Notifications (`notify`) | the bell, refs claimed, held rows, the queue, preferences, addresses | `Notify` from everywhere; release of the held; delivery with retries; settings | crash between send and delete; two calls with one ref; digest and quiet hours | told once unless something failed, never lost, urgent never held |
| Notification addresses (`notify/channels.go`, `proof.go`) | address, code, tries | save, send a code, confirm, remove | a code on its way while the address changes | sends only where the code came back |
| People (`auth`) | users, sessions, codes, failures | sign in, second factor, change and reset passwords, disable | devices and administrators at once, guesses under way; each change is several statements with nothing round them | codes open once, nobody stays with an old password |
| Consents (`banksync/enablebanking_service.go`) | authorizations begun, connections | begin, complete | the bank takes its code once, before the connection is written | a consent makes one connection |
| Categories (`category`) | a tree of two levels; the lines' categories | create, save, merge, delete | places and kinds are checked on rows read before; a group's kind goes down in a second statement | no category is lost, none three levels deep, a subcategory has its group's kind |
| Settings (`httpapi/auth.go` `updateMe`) | one row per person, with a revision | save | several tabs write it | every tab comes to show what is stored |
| Budget, goals, payees, report | their tables | see the pages below | two calls for one save; an undo that must find what a cleanup moved | see below |
| Money alerts, bank mails, single sign-on, wallets and members, backup, rates, AI | | | | see [Not modelled](#not-modelled) |

Who calls whom: the scheduler posts through `transaction.CreateInTx` and
`transfer.CreateInTx` inside its own transaction. The bank sync previews and
commits through `importio`; the mail ingest inserts rows that a later sync
matches by their ref. Every part that tells somebody something calls
`notify.Notify`, with a ref when the same event must not be told twice. An
account's deletion cascades through `transactions` and `transfers`, and sets the
account of templates to NULL, which the scheduler meets at its next run.

### The client's parts

| Part | Hard | Must hold |
| --- | --- | --- |
| Register page (`pages/TransactionsPage.tsx`, `RegisterTable.tsx`) | rows go and accounts switch while answers are on their way | a sheet opens on the whole record; bulk actions take rows of the account on screen |
| Its filters (`registerFilterModel.ts`) | they live in the address, the storage and the fields | coming back shows the same |
| Entry sheet (`TransactionForm.tsx`) | rules, habits, receipts and AI fill it while the reader types | a suggestion spares what was chosen; a quiet sheet loses nothing |
| Transfer sheet (`TransferForm.tsx`) | seeded during render from a cached answer | filled with what the server had since it was opened |
| Review page (`ReviewPage.tsx`) | proposals, merges both ways, over a list read before | only what is confirmed is saved |
| Schedules page and its sheets (`pages/schedules/`) | an occurrence moves on under an open sheet | acts on what it shows |
| Bank pages (`BankSyncPage.tsx`, `BankSyncCallback.tsx`, `schedule.ts`) | a callback page mounted twice and loaded again, its call cut off; hours over the UTC day | tells what became of the consent; shown as chosen |
| Import wizard (`ImportWizard.tsx`) | nothing is locked while a preview is on its way | what is committed was read with what is chosen |
| Notification and mail pages, pattern builder (`settings/`, `mail/`) | optimistic ticks, answers in any order; an expression made from examples | they settle on what the server has; a pattern reads its examples |
| Settings of the signed-in user (`api/preferences.ts`) | queue, revisions, refusals, broadcast | every save settles, tabs converge |
| Sidebar and overview (`navLayout.ts`, `dashboard/`) | layouts of earlier releases migrated and edited | every page once; widgets fit |
| Categories page (`CategoriesPage.tsx`, `categories/`) | a sheet and dialogs over a list and figures read at different times | every category in one place; moved only where it was asked |
| Reports, budget, goals, payees (`reports/`, `budget/`, `goals/`, `payees/`) | lumps and drill-downs; plans by precedence; cleanups and their undo | figures add up; what is saved is in force; nothing goes unasked |
| Sign-in and account pages (`LoginPage.tsx`, `TwoFactorCard.tsx`, …) | modals, codes shown once | codes kept were shown |

## Modules

`Recurrence` is extended by `CalendarWalk`, `Schedule`, `SchedulesPage`,
`RegisterView` and `Reports`. `Outbox` ← `Notify`: the second refines the first.
`PatternBuilder` ← `PatternEditor`. `Ledger`, `BankSync` and `Review` look at the
register from three sides: which rows there are and how they are paired, which
movement of the bank a row stands for, and what the reader files and merges.

Each `MC…` module is a **union of parts**: it EXTENDS one component, INSTANCEs
others, and a variable `part`, chosen at the start, says which one the behaviour
is of. The variables of the other parts are `None` (those of the extended
component stay at their start). So one run asks several questions of unrelated
parts; nothing is composed there that the code keeps apart, and every action of
every part fires in its own behaviours. What is composed, because it interacts —
the scheduler and the requests, two syncs and the people who edit, callers of
`Notify` and the worker, client and server of a page — is in one module each.
Operators named as mutants are variants of a definition with a plausible mistake,
to see that the properties notice.

### Recurrence, CalendarWalk

A date is the number of days since 1 January 2024; the calendar (`Leap`,
`NewYear`, `MonthOf`, …) is the model of Go's `time`, by the rule for leap years
valid from 2024 to 2099. `addMonths` clamps to the end of a short month as
`recurrence.go:48-77` does; `AdjustWeekend` has the four modes. `CalendarWalk`
walks the calendar a day at a time and compares.

### Schedule

One action per handler or step of `RunDue`:

| Code | Actions |
| --- | --- |
| `RunDue` (328-378) | `RunStart` lists the rows and computes the horizon; for each row `RunPost` posts one occurrence in its transaction (`postOnce`), `RunReload` reads the row again, `RunNext` goes on, `RunFails` is the error that ends the run, `RunEnd` |
| `PostNowWith`, `Skip` (287-326) | `ReadForPost` reads the row; `PostNow` or `Skip` writes what follows from *that copy* |
| `Create`, `Update`, `Delete`, the cascades | actions of the same names |
| `postOnce`, `advance`, limits, weekend skips | operators `postOnce`, `Advanced`, `Exhausts`, `Skips`, `NextDue` |
| process | `Crash` forgets the run and the requests; `Tick` moves the day on |

`history` is a ghost: the occurrences each series has moved past and whether
they were registered. What a posted transaction says is left out.
`Spec` allows every interleaving, unless the constant `Serial` is set: then
nobody starts anything while another is between its read and its write; crashes
included.

### Ledger

The `transactions` and `transfers` tables as a register of ids. `home` keeps the
account of every row ever inserted, also of those gone; `made` every pair ever
made; `asked` what requests named. A request is at a step (`pc`), with rows it
has yet to delete (`todo`) and those it read it must delete together (`doomed`).

| Code | Actions |
| --- | --- |
| `transaction.Create`, `CreateInTx`, `transfer.Create`, `CreateInTx` | `Create`, `CreateTransfer` |
| `transaction.Delete` (853-878), `BulkDelete` (740-758) | `AskDelete` checks, then for each row `ReadPair` (outside the transaction) and `DeleteRows` (inside) |
| `transfer.Delete` (222-240) | `AskDeleteTransfer`, `DeleteRows` |
| `Merge` (`review.go:299-325`) | `AskMerge` reads the kept row, `MergeRead` the other, `Inherit` copies the ref, then Delete |
| `MergeMail` (`review_mail.go:135-203`) | `AskMergeMail`, `Fold`, then Delete |
| `account.Delete` | `DeleteAccount`, with its cascades |
| anything that fails or stops | `Abort`, at any step |

What a row says (amount, memo, splits, tags) is left out, so the updates, which
change nothing else, are too.

### BankSync

One connection, the bank behind it, and two syncs: the background job's and the
one of "Sync now". The clock counts half days. `Load`, `Fetch`, `PreviewStart`,
`PreviewRow`, `Commit`, `Touch` are `syncOnce` and `commitRows`
(`banksync/service.go:441-531, 709-764`) and the matching of
`importio/service.go:213-384, 433-587`; `FetchFails`, `Abort` are its error
paths; `SyncDue`, `scheduleDue` the background job (642-699). People add, delete,
restate and merge rows, relink accounts and switch the sync on and off in
between. `Appear` and `Book` are the bank's side, external to the code. `cut`
and `excused` name the movements a property does not speak of, because a person
took their row away or a merge was left unfinished. `Serial` keeps the two syncs
apart, as the code does not.

### Outbox and Notify

`Outbox` says what a queue of messages promises: an accepted message (an event
and a channel) waits until it was told or given up for a reason, does not vanish,
and is not accepted twice. `Notify` is the code: calls of `Notify`
(`Claim`, `Bell`, `Decide`, `Queue`, `Return`, from `service.go:235-303`), the
worker's release of what was held (`ReleaseRead` … `ReleaseEnd`,
`timing.go:233-288`) and delivery (`DeliverList` … `DeliverEnd`,
`queue.go:62-122`) with its statements in the code's order, the settings page,
addresses, an hourly cap, crashes and lost writes. The refinement mapping is in
`Notify`: a message waits when a held row or a delivery has it, was told when it
was sent, was dropped when the delivery was given up.

### Session

Sign-in with its second step, sessions, passwords, recovery and access codes, the
administrator's pages, from several devices (`auth/service.go`, `ratelimit.go`,
`httpapi/auth.go` and the pages that call them). A call is sent by a page's action
(`PasswordForm`, `SsoOnlyForm`, `EnrollModal`, `finish`, `DisableModal`,
`PasswordCard`, `AccessCodesCard`, `ApiTokensPage`, `UsersPage`, `useLogout`,
`AuthProvider`, named after the components), served by `Serve(c)` and answered by
`Answer(c)`. A request is as many steps as it has statements, since nothing holds
them together: a sign-in is the check and then the session, which does not look at
the row again; `ChangePassword`, `ResetPassword` and `SetDisabled` write the row and
then end sessions (`SignsOut`); `Enable2FA`, `Disable2FA` and `NewAccessCodes` check,
write, delete the old codes and insert each new one (`issueRecoveryCodes`). `Stop`
ends a request after any of them, with what it wrote left as it is. `Expire` ends a
session, `WindowPasses` forgets failures. Secrets, codes and sessions are numbers
drawn once.

A stop leaves things the code has no remedy for, and `AccessIsKept` names them
rather than leave the stop out: `owed` are the sessions whose deletion is still to
come, or was stopped before it came, and that of a sign-in that had passed its check
when the change came; `issued` by a call in `overtaken` are the codes of a request
that was stopped half way, or whose page was left before its answer.

### The pages

In these modules the server's side is in the same module where the page's promise
depends on it; calls are records in `calls`, answered (or refused) in any order
unless a bound or the constant `Overlap` says otherwise. Actions carry the names of
the functions or components they model.

| Module | Code | State and steps |
| --- | --- | --- |
| `Review` | `pages/ReviewPage.tsx`, `ReviewNeedsCategory.tsx`, `ReviewUnconfirmed.tsx`, `UnusualBox.tsx`; `transaction/review.go`, `review_mail.go` | rows with their refs, dismissed pairs, flags; the page's copy, proposals and open form. `propose`, `edit`, `confirmPicked`, `save`, `comparison`, `dismissAll`, `ReviewUnconfirmed`, `UnusualBox` press; `Serve`, `Refuse`, `Answer` a call (a merge is one step here, and statement by statement in `Ledger`); `Sync` brings rows |
| `Register` | `pages/TransactionsPage.tsx`, `RegisterTable.tsx`, `BulkEditModal.tsx` | the rows listed, the selection, menu, dialog and sheets, whole records and requests on their way; the reader, keys, answers, and changes made elsewhere |
| `RegisterView` | `pages/registerFilterModel.ts`, `registerChips.ts`, `RegisterFilters.tsx`, `RegisterToolbar.tsx` | the address, the stored filters and the order; chips, presets, hidden reconciled rows and the marks that stand for them |
| `Entry` | `components/TransactionForm.tsx`, `ReceiptScan.tsx`, `entryFields.ts` | the mounted sheet, one save in flight, helpers in flight with what they saw; opening, typing, templates, Enter, closing with and without a question |
| `TransferSheet` | `components/TransferForm.tsx` | what it is open on, the cached fetch, what the fields were filled for |
| `SchedulesPage` | `pages/SchedulesPage.tsx`, `pages/schedules/*`; `schedule/calendar.go`, `service.go` | schedules and the page's copies, the occurrence's sheet, the schedule's sheet, the AI's rows; a template and its schedule are saved in two calls. `kept` is the status of the template itself (0: none), which no sheet shows |
| `BankConnect` | `pages/BankSyncPage.tsx`, `BankSyncCallback.tsx`; `banksync/enablebanking_service.go` | applications, consents waited for, forms, the page the reader is on; of each completion how far the server has come (`Reads`, `createSession`, `Writes`, `Forgets`; `Stops` and `IsLost` at any of them) and what it answered, and which one this load of the app sent (`inflight`; `Reload` forgets it) |
| `BankScreens` | `pages/BankSyncPage.tsx`, `RegisterBankRow.tsx`, `schedule.ts`; `banksync/service.go` | a connection, its links and runs, their cached copies, calls in flight; hours and weekdays to UTC and back |
| `ImportWizard` | `pages/ImportWizard.tsx`, `ImportColumns.tsx` | phase, file, format, account, mapping, previews and proposals on their way, the reviewed rows, the commit |
| `NotifyPages` | `pages/settings/Notification*.tsx`, `components/NotificationBell.tsx`, `NotificationsCard.tsx` | ticks, settings, thresholds and wallets on the server and in the cache, the bell, optimistic writes |
| `Addresses` | `notify/channels.go`, `proof.go`; `components/NotificationChannelCards.tsx` | one channel's row, the codes sent, the card. Each request is two or three steps: it reads the row, sends, and writes (`SaveReads`, `SaveWrites`, …) |
| `Mailboxes` | `pages/MailSettings.tsx`, `pages/mail/PatternList.tsx`, `MailAI.tsx`, `ImapConnect.tsx`, `imapProviders.ts` | patterns in order, the mailbox's settings, the forms, drag and drop |
| `PatternBuilder`, `PatternEditor` | `pages/mail/patternBuilder.ts`, `PatternSheet.tsx`, `PatternTestMails.tsx` | mails as sequences of tokens; the expression written from marked pieces, and what it reads; the sheet that marks them |
| `Preferences` | `api/preferences.ts`, `auth/AuthProvider.tsx`; `httpapi/auth.go`, `auth/service.go` | the versions of the user's row, and per tab its copy, queue of saves, running save, fetch and inbox. A save is a write that names a revision, refused when stale, then a read and a retry |
| `NavLayout` | `components/navLayout.ts`, `NavLayoutEditor.tsx`, `NewNavPagesNotice.tsx` | the saved layout, the editor's groups, the save timer, a drag |
| `Dashboard` | `pages/DashboardPage.tsx`, `components/dashboard/*` | the stored layout, the page's and the grid library's positions, the save timer |
| `Categories` | `pages/CategoriesPage.tsx`, `pages/categories/*`; `category/service.go`, `store/queries/categories.sql` | the tree and the lines' categories, the page's list and figures, filters, folds, the sheet and two dialogs; a request is its checks (`Check`), then its statements (`Write`, `Cascade`, `End`), and `Stop` anywhere; another tab's requests (`Other`). `ended`, `strays` and `placed` are history |
| `Reports` | `pages/ReportsPage.tsx`, `components/reports/*`; `report/*.go` | the address, saved views, the day; ranked rows, drill-downs, bars and axes worked out from the rows |
| `Budget` | `pages/BudgetPage.tsx`, `pages/budget/*`; `budget/service.go` | plans for every year and for one, the page's copies, the sheet, a save or removal in one or two calls |
| `Goals` | `pages/GoalsPage.tsx`, `pages/goals/*`; `goal/service.go` | goals with their moves, two sheets, the AI's rows, another page of the same person |
| `Payees` | `pages/PayeesPage.tsx`, `pages/payees/*`; `payee/service.go`, `cleanup.go` | payees and who points at them, dialogs, a cleanup's groups and the undo of the last |

## Runs

Every run ends within five minutes. "Part" is a part of the run's `MC…` module.

| Run | Parts and properties | Bounds | Distinct states |
| --- | --- | --- | --- |
| `schedules` | *core*: `TypeOK`, `SerialInv`, `OncePerOccurrence`, `NoGaps`, `LimitKept`; *walk*: `StepsKeepTheCalendar`; *page*: `ActsOnWhatIsShown` | one row, one request, all edits and crashes; monthly on the 31st, weekly on Saturdays skipped with 3 left, every 30 days with 2 left; the days 0, 40, 75; cap of 2 in a run, 4 occurrences; `Serial`. The walk: 1500 days, steps 1, 2, 3, 5, 13. The page: two schedules, 2 calls, 2 edits, saving and registering may fail half-way | 288,346 |
| `schedules_double` | (finding) `OncePerOccurrence` when a request overlaps a run | the same row, not `Serial` | stops at the counterexample |
| `banks` | *sync*: `OneRowPerMovement`, `RegisterHasWhatWasFetched`, `NothingFallsOutOfTheWindow`, `OneAutomaticSyncADay`; *connect*: `ConsentsAreTold`; *screens*: `ShownWasChosen`; *import*: `ReviewIsOfWhatIsChosen` | two movements of one amount, four rows, overlap of 2 days, drift and lag of 1, six half days, 2 edits, 1 abort, `Serial`; either days go by over one movement, or two alike are edited within half a day. The consent: 9 presses and reloads, two countries with a bank each, one text. Two local hours and days, two hours east; two files, two accounts | 1,396,742 |
| `banks_double` | (finding) `OneRowPerMovement` when two syncs overlap | two movements, no edits | stops at the counterexample |
| `registers` | `NoOrphanLegs`, `OnlyAskedGoes`, `LedgerInv` | 3 rows, 2 accounts, 2 requests, bulk deletes of 2 | 200,537 |
| `register_pages` | *page*: `SheetHoldsTheWholeRecord`; *view*: `ComingBackShowsTheSame`, `ChangesSpareTheRest`; *entry*: `QuietSheetHasNothingUnsaved`, `ChangesSpareTheRest`; *transfer*: `SeededAfresh`; *review*: `InboxKeeps` | three rows, two of them a transfer; five rows across a month's end; one stored row, two things typed, one save, one helper and one fault; two transfers, two writes; four rows and two that a sync brings, 2 calls, 2 edits | 1,211,223 |
| `notices` | *core*: `QueueIsSound`, `DigestKept`, `ImplementsOutbox`; *addresses*: `SendsWhereProven`; *pages*, *mails*: `TicksSettle`; *pattern*: `ReadsItsExamples` | two events (a problem, a money event), one channel, one crash or lost write, one retry, a day of three hours with a digest and a quiet hour; two addresses, codes tried twice, two codes and two calls; two patterns; two mails of six and nine tokens | 478,903 |
| `plans_and_people` | *rules*: `RefToldOnce`; *accounts*: `AccessIsKept`; *budget*: `SavedIsInForce`; *goals*, *payees*: `NothingGoesUnasked` | two events of one ref and two callers; two devices, two people, two passwords, one failure allowed, two codes issued at once, 3 calls and 2 edits; two years of two months, of which the second is planned in its first month only, amounts of 0 (left empty) and 3; two goals; three payees and two cleanups | 1,284,694 |
| `plans_removed` | (finding) `RemovedForEveryYear` | the budget of the run above | stops at the counterexample |
| `views` | *sidebar*, *overview*, *categories*: `LayoutsAreWhole`; *reports*: `FiguresAddUp` | three stored sidebars and four overviews, of this release and earlier ones; a tree of a group, a subcategory and an income, one call stopped anywhere, two edits, one request of another tab; seven transactions around 31 January, today the 31st and the day after | 359,340 |
| `ends` | *schedules*: `EveryDueIsPosted`, `GoneForGood`; *notices*: `EveryMessageEnds`; *settings*: `EverySaveSettles`, `TabsConverge` | two rows with a cap of 2, 8 occurrences; one event to e-mail with an hourly cap of 1, its address edited once; two tabs, two saves, two lost answers; fair | 121,285 |
| `ends_blocked` | (finding) `EveryDueIsPosted` when one template lost its account | two rows, fair scheduler | stops at the counterexample |

Why these are enough to be worth running. A race here is between *two* actors on
*one* row, pair or copy: one run and one request, two requests, two syncs, two
callers, two tabs, a press and a late answer. A third actor adds interleavings of
the same pairs. The numbers that matter are the boundaries, so they are made small
and crossed: a cap of 2 with three occurrences due, an hourly limit of 1, one
retry, an overlap of two days with a drift and a lag of one, one wrong guess
allowed with two under way. The real values (overlap 3, match window 7, first sync
90 days back) appear in the code as constants the model takes as parameters. The
dates put the monthly series across 29 February and the weekly one on a Saturday;
the reports' day is the last of a January. Three rows in `registers` are a
transfer and a row to merge with one of its legs; the theorems below are for any
number. `CHECK_DEADLOCK FALSE`: every instance ends, when its days, ids, calls or
faults are used up.

Symmetry is used in `registers` (accounts, ids, requests), and in `banks` and
`banks_double` (the two equal movements); no run with symmetry checks liveness.

## Fairness

`MCEnds` is the only module that assumes any, each part its own:

- `Schedule!FairSpec`: `WF(RunStart)` and `WF(RunSteps)`. `runScheduler`
  (`main.go:428-445`) runs at start and on an hourly ticker for as long as the
  process lives, and `RunDue` goes through to its end. Nothing is assumed of
  users, of time or of crashes.
- `Notify!FairSpec`: weak fairness of the worker's steps (`Wake`, `Release`,
  `Deliver`), of the hours, of a delivery becoming due and of sends leaving the
  hourly count: `runDeliveries` (`queue.go:47-60`) and the release loop are
  tickers. Callers, users and faults get none.
- `Preferences!FairSpec`: per tab, weak fairness of the running save, of a read of
  `/auth/me` and its answer, and of hearing a broadcast: the browser runs its
  promises, and a request without an answer fails. Nobody has to save, and answers
  may be lost as often as the bound says.

The other components have no liveness property: nobody has to sync, ask or press.

## Theorems

For every value of the constants that satisfies the named assumptions, each in the
module that declares the constants: the seven of `Schedule` (`SerialIsBoolean` …
`OpsAreOps`), `BankConstants`, `NotifyConstants`, `SessionConstants`,
`ReviewConstants`; `Recurrence` and `Ledger` assume nothing. TLC evaluates them on
the runs. Those of the pages (`AddressConstants`, `SheetConstants`,
`ChoicesConstants`, `ConnectConstants`, `WizardConstants`, `GoalsConstants`,
`RegisterAssumption`, `ScreenConstants`, `BudgetConstants`, `PageConstants`,
`MailConstants`, `EntryConstants`, `ViewConstants`, `ReportConstants`,
`NavConstants`, `DashConstants`) and that of the walk (`WalkConstants`) are hypotheses of their
theorems, and the `MC…` modules assume them of the constants they give. What a
theorem assumes beyond them is in its row.

| Theorem | Module | Says |
| --- | --- | --- |
| `AddIntervalAdvances` | `RecurrenceProofs` | every cadence moves every date strictly forward |
| `MonthStepsLandOrClamp` | | a month step lands in the month it names, on the same day or on its last |
| `StepsKeepTheOrder` | | of two dates the later one steps no earlier |
| `HorizonReachesTheStep` | | the scheduler's horizon, which runs over the end of a month, is never before a step, which clamps |
| `WeekendsAreLeft` | | a date moved off a weekend is a weekday near it, never before one moved from an earlier date |
| `TheCalendarIsKept` | | all of that along a walk over any number of days, with the calendar computed the one everybody knows (`CalendarWalk`) |
| `ReportsComeBack` | | every control of the reports leads to an address that shows what was chosen, and a saved view shows what was on screen; one of an earlier version keeps its transfers (`Reports`) |
| `PeriodsGoNextDoor` | | the arrows lead to the period next door, whatever day it is, and the one today is in is named by no day |
| `SolidEndsToday` | | the solid line of the balances ends at the point today is in, for a period of any kind but "all", past, under way or to come |
| `PresetsHoldToday` | | the presets of the register hold today and nest. Assumes that a day is an integer and `None` is not (`RegisterView`) |
| `TypeCorrect` | `ScheduleProofs` | types, in every interleaving |
| `SerialInvariant`, `NeverPostedTwice` | | with `Serial`, no occurrence is registered twice, across any crashes |
| `NoOccurrenceIsLost`, `LimitsAreKept` | | with `Serial`, occurrences follow one another at the cadence, and limits add up |
| `GoneStaysGone` | | in every interleaving a row that is gone never comes back |
| `LedgerInvariant`, `NoLegIsOrphaned`, `NothingElseGoes` | `LedgerProofs` | in every interleaving, with any number of requests stopped anywhere, a transfer whose accounts exist is two legs or none, and no row goes that nobody asked for |
| `NotifyInvariant`, `QueueStaysSound` | `NotifyProofs` | with any calls, choices, crashes and lost writes, a second telling costs a fault, and what is urgent is never held |
| `ToldOnce` | | however many calls tell a ref at once, one event surfaces for it |
| `DigestIsKept` | | what waits for the digest leaves no earlier |
| `SecurityIsInTheBell` | | a security event is in the bell once its calls are over. Assumes no call is cut short (no `abort`, no `crash`) and that events of one ref are of one kind, as the code's refs are, prefixed by it |
| `QueueImplementsOutbox` | | `Notify` implements `Outbox` |
| `BankTypes`, `TheJobSyncsOnceADay` | `BankSyncProofs` | in every interleaving, overlapping syncs included: types, and one automatic sync a scheduled day |
| `NoMovementTwice` | | with `Serial`, no movement has two rows of an account |
| `WhatWasFetchedArrives` | | with `Serial`, a sync that ends has put what it fetched in the register, with the status owed |
| `TheWindowSkipsNothing` | | with `Serial`, and where `Drift + (MaxLag + 1) \div 2 <= Overlap` (`OverlapCoversLateness`: the overlap covers how late the bank shows a movement and half of how long a sync takes), moving `last_synced_at` on skips nothing |
| `SignInInvariant`, `CodesAndGuessesAreLimited` | `SessionProofs` | in every interleaving, a code opens one session, and wrong guesses stop at the limit and those under way |
| `AccessKept` | | in every interleaving, wherever a request stops between two statements: a code opens one session, guesses are limited, nobody stays in with an old password or a disabled account but by a session still `owed` its end, and the codes kept were shown, but for those of a request stopped or of a page left under it |
| `ReviewInvariant`, `InboxIsKept` | `ChoiceProofs` | with `~Overlap`, a category is a row's own or one chosen, refs stay on a row, no pair is dismissed unseen |
| `EveryPageIsShownOnce` | | whatever a release saved, repeated pages and pages that are no more included, and whatever is dragged, edited and saved late, the sidebar has every page once (`NavLayout`) |
| `ChoicesSurvive` | | a page saved hidden or shown stays so, one the layout never saw is hidden, one it lost is shown, and migrating again changes nothing. Assumes that no layout first saved repeats a page or has one in the old Settings group (`SavedInOrder`) |
| `WidgetsNeverOverlap` | | whatever earlier releases saved and whatever is dragged, resized, added, saved late and read again, no two widgets overlap or share an id, and each is inside the grid and wide enough (`Dashboard`) |
| `AddressInvariant`, `NothingGoesUnproven` | `PageProofs` | with `~Overlap`, nothing is sent to an address of the installation's before its owner proved it (`Addresses`) |
| `FilledAfresh` | | what fills a transfer's sheet is what the server had of it since it was opened (`TransferSheet`) |
| `TicksComeToRest` | | with no change on its way the ticks are the server's, whatever was refused, called off and fetched (`NotifyPages`) |
| `ConsentsMakeOneConnection` | | a consent makes one connection, however often its page mounts and is loaded again, wherever its completion stops and whatever answer is lost; the page says it is done only when there is one, and that it failed only when there is none, unless the call was cut off or an earlier load had sent one; an application has its secret (`BankConnect`) |
| `ReviewedAsChosen` | | an import reviews and commits a preview of what is chosen, unless something crossed it (`ImportWizard`) |
| `ClosedGoalsKeepTheirMoney` | | with `~Overlap`, no step moves the money of a goal that stays closed (`Goals`) |
| `SheetsHoldWholeRows` | | in every interleaving, the register's sheets hold the whole of one row, bulk actions take rows of the account on screen, and a reconciled row is unlocked before its button deletes it (`Register`) |
| `SchedulesAreShownAsChosen` | | the times of a sync shown are ones the reader chose, hour and days together, through any conversions and lost, refused or reordered calls. `ScreenConstants`: zones of whole hours (`BankScreens`) |
| `WhatIsSavedIsInForce` | | with `~Early`, every month of the year on the page is counted against what the sheet said it saved; a month left empty in a plan of one year, against every year's (`Budget`) |
| `PressesActOnWhatIsShown` | | with `~Overlap`, and where no template is itself reconciled (`Unreconciled`), what is registered or skipped is the occurrence shown, with its amount, date and status (`SchedulesPage`) |
| `SavesKeepTheRest` | | with `~Overlap`, a save never loses what the sheet does not edit, also when it fails half-way; and where no deletion fails, a proposal's row goes with its own save or deletion |
| `PatternsAreShownAsTried` | | with `~Overlap`, the patterns of a mailbox show in the order they are tried once all is answered; none is there twice; ports and the AI's senders are in order (`Mailboxes`) |
| `EntriesAddUp`, `QuietSheetsLoseNothing` | | in every interleaving, rows saved split add up, and an entry sheet that may close without a question is blank or reads as a row of the server's, unless it was filled or opened while a save was on its way (`Entry`) |
| `SuggestionsSpareChoices` | | a rule's suggestion spares the payee and category chosen before it was asked for, and the tags it was shown (action property) |
| `FiltersComeBack` | | filters written in the address and read back, or put back from the storage, keep the rows they kept (`RegisterView`) |
| `ChipsClearTheirOwn` | | a chip takes off its own facet and no other, and clearing them all hides no row |
| `OtherKeysAreSpared` | | no choice of filters changes another key of the address (action property) |

`Serial` and `~Overlap` are not what the code guarantees: they say under which use
it keeps its word, and the findings and the divergences below show that without
them it does not. They leave out overlaps of two actors on one row, not the
concurrency within: a bank sync that is `Serial` still has people editing between
its statements, and a page with `~Overlap` still has its answers late.

*Recurrence.* `MonthsOfAYear` and `MonthStarts` bound where months start,
`YearContains` and `MonthContains` find the year and the month of a day,
`MonthsInOrder` says that months follow one another, and `MonthStepLands` and
`MonthIsTheOne` where a step of months lands; the theorems compare months first
and days within a month next. `CalendarWalk` counts the same days one by one, so its
invariant says only that the day, month and year it has reached are those computed
(`WalkInv`); that it keeps is one case for each kind of day. The calendar lemmas are
about all integers, so that a report may look at any year. `PeriodOfADay` finds, from
`WholePeriods` (a number of months and its remainder) and `DaysOfMonths` (a day lies
between the firsts of two months exactly when its month does), the one period a day
is in; the arrows add or take away a whole period. `ReportReadsBack` is the identity
of writing an address and reading it, because both go by the same defaults
(`Absent`), for any state of the shape the controls keep (`IsReport`, in `ReportInv`).
`BarsOfASpan` says that the points of an axis are in order and one for each day of
the span (`Spans`), so today's is the last that has happened.

*Schedules.* `OncePerOccurrence` is not inductive: it says nothing of the copy a
run or a request holds. `SerialInv` adds that each copy is the row itself
(`Fresh`) and that a series' occurrences are in order, all before the next
(`Ordered`). A posting then moves `next_due` strictly beyond everything in the
history, by `AddIntervalAdvances`. `SeriesInv` adds, for each series nobody edited,
that consecutive occurrences are one step apart (`Unbroken`) and that what is done
and what is left add up to a limit it was given (`Limited`). `TypeCorrect` is used
throughout.

*Ledger.* Delete reads the pair outside the transaction that deletes it, which
looks like a race. `Together` says why it is none: of every transfer that exists,
what a request is about to delete has both legs or neither. It stays true because
pairs are made in the same transaction as their rows (so a pair never comes to a
row someone has already looked at), are never changed, and only go with their
rows. `Paired` (pairs are disjoint, and in the table while both rows are in the
register) and `Meant` (what a request will delete was asked for) complete the
invariant `LedgerInv`. Steps are grouped by what they do to the tables, one lemma
for each: `ReadStep`, `InsertStep`, `RemoveStep`. TLC checks `LedgerInv` as an
invariant of `registers` too.

*Notify.* `NotifyInv` is `TypeOK` with `Calls` (a call's event was called),
`ComesOnce` (a message comes into the tables once: what a call has yet to queue is
nowhere), `HeldRows` (a held row may be held, and is not queued unless its bundle
was just written), `WorksOnRows` (the worker's ids are rows; what was sent was
sent), `CopiesCostFaults` (the times a message was told and the copies that may
still be, counted with `Unsent` and `ToRelease`, are at most one more than the
faults) and `RefsClaimed` (each event that shows, or is on its way, has claimed its
ref, and no other event has it). The refinement is step by step: `OutboxStep` takes
each action to one of `Outbox` or to a stutter, with one lemma per group of actions
saying what becomes of `waiting`, `told` and `dropped`. `SecurityArrives` follows a
security event from the claim of its ref to the bell.

*BankSync.* `Base` holds in every interleaving: `Shapes` of the rows, `MergeIsOfTwo`,
`IdsAreDrawnOnce`, and `Slots`, from which the once-a-day theorem follows. With
`Serial`, `Register` says that a movement has one row (`Unique`) and that what a
sync plans to commit is still sound when it does (`PlanIsSound`, `SeenIsSound`),
whatever people did in between; `Arrival` that what it fetched so far is in the
register with a status at least the bank's; `WindowMovesOn` that what the window
has passed had been fetched (`WindowIsPassed`, `FetchedInTime`). The exceptions the
code makes (`cut`, `excused`, `skipped`) are in the invariants where they are in
the properties.

*Session.* Some forty actions touch the same records, so steps are first summarised
by what they do: a call is sent (`Sends`), answered, a page turns, an account
becomes, a session enters, a guess misses or hits. `SignInInv` (`Shape`, `Numbered`:
numbers are drawn once, `CodesGo`: a code leaves its account when it opens a session,
`Tries`: failures counted and guesses under way are within the limit, `Holders`: a
page's person is the session's) is kept by each summary in every interleaving.
`OnScreen` follows the new codes, from the first one inserted, to the page of their
holder; `Counted` says that a call is numbered once, so that what a change owes is its
own; `StillRight` follows the password from its check to the session: a sign-in under
way was checked against the row there is, or is `overtaken`, and what a change still
owes is what its second statement will delete. A step that stops a request only adds
to `overtaken`, so it is the one that can disturb nothing.

*Review.* `Tables` and `Calls` are what rows and calls look like and ask for;
`Fresh` says the page's copy is the server's rows whenever it may send, and
`Screens` what a form or a proposal is of. Presses and server steps are two lemmas
(`Pressing`, `Served`), each over what a step may change.

*Sidebar.* A migration is three folds (`navLayout.ts`): `Reading` the entries of a
group, `Keeping` the groups, `BackFilled` with the pages they miss. The library's
induction theorems take an operator and cannot be used here; `WFMin` says the same
of a set, that a set of numbers has a least one, and from it `Along` follows: what
holds at the start of a fold, and after each step if before it, holds at its end.
What holds after `k` steps is `ReadFrom` and `KeptOf` (each page met is kept once),
`AllKept` (of a layout in order, as it was saved) and `FilledTo` (a page missed is in
its home by now, the others as they were). So what is migrated is `Whole`, and
`NavInv` says that of all the editor holds: what it shows, the timer will write, and
a drag would put back; what is saved is a layout of some release. Each button and
drag is one of a few changes to a sequence of groups (`GroupAdded`, `GroupMoved`,
`EntryTakenOut`, `EntryPutIn`, …). That migrating again changes nothing holds
because a whole menu with no group that was taken away is `Settled`: every fold gives
back what it was given. `SavedInOrder` is needed because of two places that repeat a
page the first one met counts; every release has written layouts without
repetitions, and Settings was the only page of the group of that name. It is about
the first layout only: what is written stays in order (`WholeInOrder`).

*Overview.* `pack` places the widgets one after another, in rows: `PackRuns` gives
the states of that fold, `PacksOneMore` what one more widget keeps, `PackFits` what
follows of them all; and `tidyLayout`, the default, the presets and
a layout of an earlier release are packed (`PackedIsGood`, `TidyGood`). What the grid
library moves is its own word for fitting (`GridOK`), taken over widget by widget.
`DashInv` is that of what is stored, shown and about to be written.

*Pages.* `PageProofs` extends `Addresses` and has the other modules as instances, so
their theorems are about the same specifications the runs check. What each needs
beyond its property is what is on its way. `Addresses`: the row, and what a request
read of it, is `Sound` (its code went to its own address, what it may use was
proven); the row stands until the request that read it writes (`RowStands`); a save
has sent the code its row will wait for (`CodeIsOut`). `TransferSheet`: a fetch holds
what the server had since the sheet opened. `NotifyPages`: without a tick on its way
or a fetch owed, the ticks, or the fetch that will replace them, are the server's
(`Settles`). `BankConnect`: a load remembers the completion it sent, and of a state
nothing made doubtful it is the only one (`InFlight`); of several, the one that
exchanged the code writes the connection or nobody does (`WrittenOnce`), so an answer
is of what the server did (`AnswersHold`, `ShowsTheAnswer`). `ImportWizard`: a preview nothing crossed is
alone on its way, and so is one that asks for the columns (`PreviewsInTime`); what is
committed is still under review (`CommitInTime`). `Goals`: money about to be written
is of a goal that is open or gone (`ChecksHold`). `Register`: whatever the list, the
cache and a load on its way hold of a row is what the server had of it, whole where a
sheet will take it, and a load or dialog is of the account it was asked on
(`RegisterInv`). `BankScreens`: of the row, the copies, the answers on their way and
the form, hour and days were chosen together (`CardInv`), because the conversion to
UTC and back is the identity in whole hours. `Budget`: what the sheet writes in two
calls is followed through both (`Writing`), behind a sheet that stays where it is
(`BehindTheSheet`), and the page knows which categories have a plan of its year
(`YearIsFresh`), so the right rows are written. `SchedulesPage`: the sheet open agrees
with the copy and the copy, where nothing is on its way, with the server
(`SheetsAgree`), so a press asks for what is shown, and what it asks for is still
true when it is served (`OneAtATime`, `IsOrder`). `Mailboxes`: the order on its way is
the one shown once it is answered, or the list is read again (`Follows`); taking a
pattern out and putting it back elsewhere keeps each once (`StaysInjective`). `Entry`:
what the sheet is compared with is blank or reads as a row of the server's, and a
save on its way sends what the sheet holds, until something crosses it
(`SheetIsFollowed`); a save that starts another entry is of a new one, so it changes no
row an open sheet was filled from (`CommitKeeps`). `RegisterView`: filters read back are
not the same record (a search loses its blanks, days that are not in force are not
written) but say the same of every row (`Alike`), since the parameters are read by the
same table of defaults they were left out by; the facets have no field in common
(`FacetsApart`).

*What the proofs changed.* Stating these found errors in the models, mended since:
`SavedIsInForce` was false for a month left empty in a plan of one year (TLC's
instance had no empty months), and two cases that overlapped (a save that failed, a
press on a row) had an order in TLC that TLA+ does not give them. `SolidIsPast` was
false for a quarter to come whose first week has begun: the page draws no solid line
then (`BalancesTab.tsx`), though that point is not after today's (TLC's instance had
no such day). Where arms of a
CASE overlap the modules now say IF, and the precedence of UNION and SUBSET is
written out. The folds of `NavLayout` have names, and what its proofs need of the
constants is assumed of TLC's too.

### Only model-checked, and why

- Liveness (`EveryDueIsPosted`, `EveryMessageEnds`, `EverySaveSettles`,
  `TabsConverge`) and everything about ENABLED: beyond the provers.
- What a recursive definition computes for every input, such as the pattern
  builder's (`ReadsItsExamples`), and what most folds do — ranked rows and totals
  (`FiguresAddUp`): the provers cannot instantiate a theorem of induction. Where
  induction over a set of numbers does instead, as for the sidebar and the packing of
  widgets, it takes a lemma for each fold and what holds along it; these have none yet.
- Of `RegisterView`, the order of the rows and the lines of hidden ones
  (`OrderIsTheLedgers`, `MarksStandForHiddenRows`): folds and counts over rows; the
  properties of `Payees`, folds over the groups of a cleanup; of `Preferences`,
  `Categories`, `PatternBuilder` and `PatternEditor`; the sums of `Reports`
  and its span of "all", which is that of the wallet's rows; what `Goals` and
  `SchedulesPage` compute of their amounts (the type invariant of `SchedulesPage` is
  about such sums).

## Where code and words disagree

Four runs show a sentence of the repository that the code does not keep; each is a
finding in `PROJECT.json`.

1. `schedules_double`: `schedule/service.go:4-5` says auto-posting "never
   double-posts" and `postOnce` is "safe to retry". A request that read the row
   before the run posted it posts the same occurrence again and sets `next_due`
   back.
2. `ends_blocked`: `RunDue` "auto-posts every due occurrence of every
   auto-post schedule" (328). A template whose account was deleted makes
   `postOnce` fail, which ends the run for every row behind it, every hour.
3. `banks_double`: `docs/bank-sync.md:37, 241` promise no duplicates. "Sync now"
   and the background job are not kept apart, and both may preview before either
   commits.
4. `plans_removed`: the question before a budget is removed says "Its plan goes,
   for every year" (`i18n/locales/en.json:358`); the plan of a year not on the page
   stays, and is in force when that year comes.

Met while modelling, and not the subject of a run. First the server:

- Pluggy and SimpleFIN give a pending row status 0 and a booked one 1, cleared
  (`pluggy_service.go:231-233`, `service.go:719-722`), where `docs/bank-sync.md:247-249`
  says cleared and reconciled; a status below Reconciled does not settle a row that
  was pending. `BankConstants` asks only for `PendingStatus <= BookedStatus`, and
  `Owed` is the booked status only where that is `Reconciled`.
- A connection whose syncs all fail is tried at every check of its day;
  `docs/bank-sync.md:218` says at most once a scheduled day.
- One account that fails longer than the overlap, while another answers, loses
  its window. `NothingFallsOutOfTheWindow` leaves out accounts so passed over.
- A commit writes over rows edited or deleted since the preview; merging a bank
  row into a manual one may lower its status (`docs/bank-sync.md:245`).
- A crash between the claim of a ref and the row of the bell loses the event
  (`docs/notifications.md:158`); retries run in the quiet hours (140-142).
- Deleting an account leaves the other leg of its transfers unpaired, where
  `transaction/service.go:850` says no orphan legs are ever left.
- The splits of a template are not checked against its amount, where
  `migrations/0005_transactions.sql` says the application enforces the sum and
  `schedule/service.go:477` relies on it.
- The transaction endpoint restates one leg of a transfer alone, where
  `transfer/service.go:1-3` says the legs are kept in sync.
- A change of password, or of the account, is several statements (`auth/service.go`):
  one that stops between them leaves the other sessions in (`355`, `329`, `315`), where
  the comment of `ChangePassword` says "whoever else knew the old password loses access
  at once"; nor does it keep out a sign-in that had passed its check. A second step
  that stops being turned on is on without codes (`722-728`), one that stops being
  turned off keeps codes that open nothing (`767-770`), and new access codes that stop
  leave fewer than ten, or none, that nobody has seen (`785-790`). `AccessIsKept` names
  these sessions and codes and leaves them out; everything else it says of the same
  runs.
- Two requests about one address, served at once, may leave a code that proves another
  address: `Addresses` has this behind `Overlap`.
- A completion whose answer is lost, or that is stopped after the connection is
  written, has made a connection the callback page calls failed; one loaded again while
  the first is on its way may say failed, too, and the first then succeeds. That the
  bank takes a code once is the bank's (`createSession`, external): no column of
  `bank_connections` would keep a second one out.
- Two requests about categories that overlap can put one three levels deep, which the
  page then shows nowhere: the checks of `category/service.go:185-223` are on rows read
  before the write, outside a transaction. `Categories` has this behind `Overlap`.
- A merge, or a deletion that hands its subcategories on, does not change their kind
  (`ReparentChildren`), and a save that stops before its second statement does not
  either (`233-239`), where the comment says that a subcategory's type is its parent's.
  `KindsFollow` leaves these out (`strays`).

Then the client. What an `Overlap` constant leaves out is what its property fails
with:

- `Review`: two pages at once, a sync the page has not read, and two merges into
  one row, the second of which reads it before the first wrote. `Goals`: Enter
  pressed again, another page's close under a call. `Mailboxes`: several calls, or a
  call and a fetch, on their way. `SchedulesPage`: a press over a copy being read
  again, the scheduler under an open sheet, templates that arrive late.
- A category's sheet left open until its group has left the list (merged or deleted in
  another tab) saves it as a group (`CategorySheet.tsx:102, 121`), where line 119 says
  it moves only when its group changed; `MovesAreChosen` leaves this out.
- With two saves of settings queued, the answer to the first takes the second's change
  off the screen until its own answer comes (`api/preferences.ts`, `setQueryData(ME,
  user)`), so a third press in that window that sends a whole object, as the card of
  entry fields does (`EntryFieldsCard.tsx:69`), undoes the second: the case that the
  comment there says is mended. Read in the code, and no property speaks of it.
- What is typed in an entry sheet while its save is on its way is taken for saved
  (`TransactionForm.tsx:461-462`).
- A month left empty in a plan of one year is not without a plan in that year: every
  year's plan is in force in it (`budget/service.go:467-481`), where
  `docs/pages.md:417-420` reads as if the plan of one year stood alone.
- A proposal's row is taken off the list at once when its schedule is deleted, also
  when the deletion then fails (`SchedulesPage.tsx:309-310`).
- An occurrence whose template is itself reconciled is registered as reconciled
  under a sheet that shows cleared: the sheet leaves its default out of the request
  (`OccurrenceSheet.tsx:26-27`), and `materialize` keeps the template's own status.
- Weekdays and hours of a sync shift in zones of half an hour (`schedule.ts:18`:
  whole hours are assumed).
- A drill-down of the reports does not know the page's category filter.
- `LoginPage.tsx:83-85`: a refused second step puts the form back at the first, with
  the words for a wrong password.

## Not modelled

Components with no module are in `PROJECT.json` with their reasons. In short:
protocols of third parties (mail, push, bank providers, single sign-on, AI)
appear as choices of what they answer; parsers, rates, insights and the other lists
are sums and single-row edits; backup is one pass over every table; money alerts are
sums whose announcement is `Notify`; the server's side of bank mails is the next
component. Of the modelled parts: formatting, the contents of rows where no
property tells them apart, calendar feeds, exports, drawings and attachments; of the
budget, categories that no budget counts and the cut of the suggestions at the four
largest (there are no more in the run); of the categories, sorting, bars, the last
twelve months' edge, and the default categories of payees and rules that a merge moves,
with one call of the page on its way at a time; accounts made by single sign-on.

## Plan

1. `MailIngest`: the mailbox cursor, the listener and its wake-up, the outcome of
   each mail; each mail stored once and each ending in one row. A mail's outcome
   is recorded after its row is made (`mailingest/ingest.go:174`), and the ref
   that recognises it is replaced when a bank sync settles the row.
2. Theorems of the pages that are left: `EveryCategoryOnce` and `KindsFollow` of
   `Categories` without `Overlap` (two levels, and a kind that follows);
   `OnlyDeletingTakesAPayee` of `Payees` without cleanups.
3. Episodes of a failing connection (whose first failure may be that of a "Sync
   now", which announces nothing: `banksync/alert.go:109`) and the money alerts'
   cursors, over `Outbox` as the abstract queue.
