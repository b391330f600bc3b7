-------------------------- MODULE MCPlansAndPeople --------------------------
(* What a person has in small: the account they sign in to and what is told of  *)
(* it, the plans of the budget, the savings goals and the payees.  A behaviour  *)
(* is of one of the five.                                                       *)
EXTENDS Session, Sequences

CONSTANTS
  Parts,   \* those this instance runs
  BudgetEdits, BudgetCalls   \* what is typed in the budget's sheet, how many writes it makes

VARIABLES
  part,   \* the one this behaviour is of
  hour, prefs, digestKinds, quietHours, walletOff, address, reminders, bell, held,
  queue, call, worker, recent, called, sends, dropped, faults, typed, polled, plans,
  every, thisYear, lines, stale, period, unfolded, target, form, link, rows, writes,
  kept, goals, listed, goalSheet, moneySheet, entry, applying, historyOpen, sent, wrote,
  wallet, last, next, filter, phone, sheet, asking, merging, box, before

\* What is told: two events of one login, by two callers.
TwinRefs   == [a |-> "r", b |-> "r"]
LoginKinds == [a |-> "login", b |-> "login"]
LoginGroup == [login |-> "security"]
LoginOn    == {"login"} \X {"push", "inapp"}

\* Nobody yet; an administrator who has a second factor; the same, in already,
\* without it.  The other one has a code left.
Both(ann, in) == [accounts |-> [ann |-> ann, bob |-> [Account(FALSE, 2) EXCEPT !.codes = {-2}]],
                  in |-> in]
SignedIn == {[accounts |-> [ann |-> None, bob |-> None], in |-> <<None, None>>],
             Both([Account(TRUE, 1) EXCEPT !.totp = -1], <<None, None>>),
             Both(Account(TRUE, 1), <<None, "ann">>)}

\* Eating out is under food, with money gone last year, this month and, entered,
\* still to come; nothing planned, or food for every year and, for the second, its first
\* month alone.
Under == [food |-> None, out |-> "food", pay |-> None]
Moved == {[cat |-> "food", day |-> 3, amount |-> -4], [cat |-> "out", day |-> 6, amount |-> -2],
          [cat |-> "food", day |-> 7, amount |-> -1], [cat |-> "pay", day |-> 6, amount |-> 5]}
BudgetRows == [food |-> 2]
Plan(y, m, a) == [cat |-> "food", year |-> y, month |-> m, amount |-> a]
Planned == {{}, {Plan(0, 0, -3), Plan(2, 1, -1)}}

\* A trip with a date and some money in, kept in an account; a fund without a
\* date, nearly there.
Money(no, date, amount) == [no |-> no, date |-> date, amount |-> amount]
Trip == [target |-> 6, date |-> 30, account |-> "a1", closed |-> None, moves |-> {Money(1, 23, 3)}]
Fund == [target |-> 4, date |-> None, account |-> None, closed |-> None, moves |-> {Money(2, 19, 2)}]
Saving == {[g1 |-> Trip, g2 |-> Fund], <<>>}
GoalRows == [g1 |-> [late |-> TRUE, date |-> None], g2 |-> [late |-> FALSE, date |-> 28]]
CloseFails == {<<"money", "close">>, <<"goal", "sent">>}

\* Two of one merchant, the first with a category and an ignored recurring
\* payment; a bar, spelt another way by typing.
Payee(name, def) == [name |-> name, def |-> def, mode |-> 0]
Merchants == [payees |-> <<Payee(<<1, 1>>, "c1"), Payee(<<2, 1>>, None), Payee(<<3, 1>>, None)>>,
              txns |-> [t1 |-> 1, t2 |-> 2, t3 |-> 3], rules |-> [r \in {40} |-> 1],
              ignored |-> {1}, cats |-> {"c1"}]
Cleanups == {<<[name |-> <<4, 1>>, ids |-> <<1, 2>>, rule |-> TRUE]>>,
             <<[name |-> <<2, 2>>, ids |-> <<1>>, rule |-> FALSE],
               [name |-> <<4, 1>>, ids |-> <<3>>, rule |-> TRUE]>>}
Filed == [t1 |-> "c1", t2 |-> "c1", t3 |-> None]

-----------------------------------------------------------------------------
N == INSTANCE Notify
  WITH Events <- {"a", "b"}, KindOf <- LoginKinds, RefOf <- TwinRefs,
       Kinds <- {"login"}, GroupOf <- LoginGroup, DefaultOn <- LoginOn, Refs <- {"r"},
       NoRef <- None, NoEvent <- None, WalletEvents <- {}, Channels <- {"push"},
       InApp <- "inapp", Addressed <- {}, ViaInstallation <- {}, HourlyLimit <- 1,
       Backoffs <- 1, Callers <- {1, 2}, Hours <- 3, QuietSpan <- {2}, DigestHour <- 1,
       Ops <- {"preference", "wallet", "settings"}, MaxRows <- 3, MaxFaults <- 0,
       MaxEdits <- 0, edits <- typed
B == INSTANCE Budget
  WITH Categories <- {"food", "out", "pay"}, Income <- {"pay"}, Parent <- Under,
       Movements <- Moved, MONTHS <- 2, DAYS <- 2, Today <- 6, Typed <- {0, 3},
       AtFirst <- Planned, Proposed <- BudgetRows, FIVE <- 2, Early <- FALSE,
       Fails <- {"save", "remove"}, MaxEdits <- BudgetEdits, MaxCalls <- BudgetCalls,
       opened <- unfolded, calls <- writes, edits <- typed
G == INSTANCE Goals
  WITH AtFirst <- Saving, Fresh <- "g3", Today <- 24, Amounts <- {2, 4},
       Proposed <- GoalRows, Overlap <- FALSE, Fails <- CloseFails, MaxCalls <- 2,
       MaxEdits <- 2, seen <- listed, calls <- writes, made <- sent, edits <- typed
P == INSTANCE Payees
  WITH AtFirst <- {Merchants}, Names <- {<<2, 2>>, <<4, 1>>}, Offers <- Cleanups,
       CatOf <- Filed, MaxCalls <- 3, MaxEdits <- 2, seen <- listed, made <- sent,
       edits <- typed

\* Variables a part does not have are None in its behaviours; those of Session stay at their
\* start.
PartsInit ==
  /\ part \in Parts
  /\ Init
  /\ \/ /\ part = "accounts"
        /\ hour = None /\ prefs = None /\ digestKinds = None /\ quietHours = None
        /\ walletOff = None /\ address = None /\ reminders = None /\ bell = None
        /\ held = None /\ queue = None /\ call = None /\ worker = None
        /\ recent = None /\ called = None /\ sends = None /\ dropped = None
        /\ faults = None /\ typed = None /\ polled = None /\ plans = None
        /\ every = None /\ thisYear = None /\ lines = None /\ stale = None
        /\ period = None /\ unfolded = None /\ target = None /\ form = None
        /\ link = None /\ rows = None /\ writes = None /\ kept = None
        /\ goals = None /\ listed = None /\ goalSheet = None /\ moneySheet = None
        /\ entry = None /\ applying = None /\ historyOpen = None /\ sent = None
        /\ wrote = None /\ wallet = None /\ last = None /\ next = None
        /\ filter = None /\ phone = None /\ sheet = None /\ asking = None
        /\ merging = None /\ box = None /\ before = None
     \/ /\ part = "rules" /\ N!Init /\ ~ssoOnly /\ NeedsSetup
        /\ plans = None /\ every = None /\ thisYear = None /\ lines = None
        /\ stale = None /\ period = None /\ unfolded = None /\ target = None
        /\ form = None /\ link = None /\ rows = None /\ writes = None /\ kept = None
        /\ goals = None /\ listed = None /\ goalSheet = None /\ moneySheet = None
        /\ entry = None /\ applying = None /\ historyOpen = None /\ sent = None
        /\ wrote = None /\ wallet = None /\ last = None /\ next = None
        /\ filter = None /\ phone = None /\ sheet = None /\ asking = None
        /\ merging = None /\ box = None /\ before = None
     \/ /\ part = "budget" /\ B!Init /\ ~ssoOnly /\ NeedsSetup
        /\ hour = None /\ prefs = None /\ digestKinds = None /\ quietHours = None
        /\ walletOff = None /\ address = None /\ reminders = None /\ bell = None
        /\ held = None /\ queue = None /\ worker = None /\ recent = None
        /\ called = None /\ sends = None /\ dropped = None /\ faults = None
        /\ polled = None /\ goals = None /\ listed = None /\ goalSheet = None
        /\ moneySheet = None /\ entry = None /\ applying = None
        /\ historyOpen = None /\ sent = None /\ wrote = None /\ wallet = None
        /\ last = None /\ next = None /\ filter = None /\ phone = None
        /\ sheet = None /\ asking = None /\ merging = None /\ box = None
        /\ before = None
     \/ /\ part = "goals" /\ G!Init /\ ~ssoOnly /\ NeedsSetup
        /\ hour = None /\ prefs = None /\ digestKinds = None /\ quietHours = None
        /\ walletOff = None /\ address = None /\ reminders = None /\ bell = None
        /\ held = None /\ queue = None /\ call = None /\ worker = None
        /\ recent = None /\ called = None /\ sends = None /\ dropped = None
        /\ faults = None /\ polled = None /\ plans = None /\ every = None
        /\ thisYear = None /\ lines = None /\ period = None /\ unfolded = None
        /\ target = None /\ link = None /\ kept = None /\ wallet = None
        /\ last = None /\ next = None /\ filter = None /\ phone = None
        /\ sheet = None /\ asking = None /\ merging = None /\ box = None
        /\ before = None
     \/ /\ part = "payees" /\ P!Init /\ ~ssoOnly /\ NeedsSetup
        /\ hour = None /\ prefs = None /\ digestKinds = None /\ quietHours = None
        /\ walletOff = None /\ address = None /\ reminders = None /\ bell = None
        /\ held = None /\ queue = None /\ worker = None /\ recent = None
        /\ called = None /\ sends = None /\ dropped = None /\ faults = None
        /\ polled = None /\ plans = None /\ every = None /\ thisYear = None
        /\ lines = None /\ period = None /\ unfolded = None /\ link = None
        /\ rows = None /\ writes = None /\ kept = None /\ goals = None
        /\ goalSheet = None /\ moneySheet = None /\ entry = None /\ applying = None
        /\ historyOpen = None /\ wrote = None

PartsNext ==
  /\ UNCHANGED part
  /\ \/ /\ part = "accounts" /\ Next
        /\ UNCHANGED <<hour, prefs, digestKinds, quietHours, walletOff, address,
                      reminders, bell, held, queue, call, worker, recent, called, sends,
                      dropped, faults, typed, polled, plans, every, thisYear, lines,
                      stale, period, unfolded, target, form, link, rows, writes, kept,
                      goals, listed, goalSheet, moneySheet, entry, applying,
                      historyOpen, sent, wrote, wallet, last, next, filter, phone,
                      sheet, asking, merging, box, before>>
     \/ /\ part = "rules" /\ N!Next
        /\ UNCHANGED <<vars, plans, every, thisYear, lines, stale, period, unfolded,
                      target, form, link, rows, writes, kept, goals, listed, goalSheet,
                      moneySheet, entry, applying, historyOpen, sent, wrote, wallet,
                      last, next, filter, phone, sheet, asking, merging, box, before>>
     \/ /\ part = "budget" /\ B!Next
        /\ UNCHANGED <<vars, hour, prefs, digestKinds, quietHours, walletOff, address,
                      reminders, bell, held, queue, worker, recent, called, sends,
                      dropped, faults, polled, goals, listed, goalSheet, moneySheet,
                      entry, applying, historyOpen, sent, wrote, wallet, last, next,
                      filter, phone, sheet, asking, merging, box, before>>
     \/ /\ part = "goals" /\ G!Next
        /\ UNCHANGED <<vars, hour, prefs, digestKinds, quietHours, walletOff, address,
                      reminders, bell, held, queue, call, worker, recent, called, sends,
                      dropped, faults, polled, plans, every, thisYear, lines, period,
                      unfolded, target, link, kept, wallet, last, next, filter, phone,
                      sheet, asking, merging, box, before>>
     \/ /\ part = "payees" /\ P!Next
        /\ UNCHANGED <<vars, hour, prefs, digestKinds, quietHours, walletOff, address,
                      reminders, bell, held, queue, worker, recent, called, sends,
                      dropped, faults, polled, plans, every, thisYear, lines, period,
                      unfolded, link, rows, writes, kept, goals, goalSheet, moneySheet,
                      entry, applying, historyOpen, wrote>>

partsVars == <<part, vars, hour, prefs, digestKinds, quietHours, walletOff,
    address, reminders, bell, held, queue, call, worker, recent, called, sends, dropped,
    faults, typed, polled, plans, every, thisYear, lines, stale, period, unfolded,
    target, form, link, rows, writes, kept, goals, listed, goalSheet, moneySheet, entry,
    applying, historyOpen, sent, wrote, wallet, last, next, filter, phone, sheet,
    asking, merging, box, before>>

PartsSpec == PartsInit /\ [][PartsNext]_partsVars

-----------------------------------------------------------------------------
\* What the theorems about the goals and the plans ask of their constants.
ASSUME GoalConstants == G!GoalsConstants
ASSUME PlanConstants == B!BudgetConstants

\* Two calls with one ref surface it once, and a login is in the bell whatever was
\* turned off (notify/service.go).
RefToldOnce == part = "rules" => N!TypeOK /\ N!RefToldOnce /\ N!SecurityInBell

\* A plan the sheet says is saved is the one in force (BudgetPage.tsx).
SavedIsInForce == part = "budget" => B!TypeOK /\ B!SavedIsInForce

\* "Its plan goes, for every year.": a plan removed for every year is in force in
\* none (BudgetSheet.tsx, BudgetPage.tsx).
RemovedForEveryYear == part = "budget" => B!RemovedForEveryYear

\* Nothing goes that nobody asked to: the money of a closed goal stays as it was,
\* only deleting a payee leaves its transactions without one, and the undo of a
\* cleanup gives its payees back (GoalsPage.tsx, payee/service.go, cleanup.go).
NothingGoesUnasked ==
  [][/\ part = "goals" => G!TypeOK /\ G!ClosedMoneyStays
     /\ part = "payees" => P!TypeOK /\ P!OnlyDeletingTakesAPayee /\ P!UndoGivesBack]_partsVars
=============================================================================
