-------------------------------- MODULE Goals --------------------------------
(***************************************************************************)
(* Savings goals (web: GoalsPage.tsx and goals/: goalList.ts, GoalsTable,   *)
(* GoalSheet, MoneySheet; server: internal/goal): what each goal needs a    *)
(* month, money put in and taken out, goals closed into the history, by     *)
(* this page and by another one over the same goals.                        *)
(* Dates are half months from year 0; amounts are whole units.              *)
(***************************************************************************)
EXTENDS Integers, Sequences, FiniteSets, FiniteSetsExt

CONSTANTS
  AtFirst,     \* the goals it may start with: sets of functions id -> goal
  Fresh,       \* the id a new goal gets
  Today,
  Amounts,     \* what the reader types
  Proposed,    \* the AI's rows: id -> [late, date]
  Overlap,     \* calls meet: Enter again, another page's close under a call
  Fails,       \* the calls that may fail
  MaxCalls, MaxEdits,  \* bounds
  None

VARIABLES
  goals,           \* the server's: id -> [target, date, account, closed, moves]
  seen, stale,     \* the page's copy; to be read again
  goalSheet, form, \* [open, id, date]; [target, date]
  moneySheet, entry,   \* [open, id, direction]; [direction, amount, closeIt]
  applying, rows,  \* the AI's row being applied; those still to do
  historyOpen,
  calls, made, edits,
  wrote            \* the goals a sheet's save was written to

goalVars == <<goals, seen, stale, goalSheet, form, moneySheet, entry, applying, rows, historyOpen, calls, made, edits, wrote>>
sheets == <<goalSheet, form, moneySheet, entry, applying, rows, historyOpen>>
server == <<goals, wrote>>

(* goalList.ts *)
monthIndex(d) == d \div 2
Ceil(a, b) == -((-a) \div b)
saved(g) == MapThenSumSet(LAMBDA m : m.amount, g.moves)
\* What went in a month over the last three full months.
paceOf(g) == LET sum == MapThenSumSet(LAMBDA m : m.amount,
                          {m \in g.moves : monthIndex(m.date) \in monthIndex(Today) - 3 .. monthIndex(Today) - 1})
             IN Max({0, (2 * sum + 3) \div 6})
leftOf(g) == Max({0, g.target - saved(g)})
isReached(g) == g.target > 0 /\ saved(g) >= g.target
isClosed(g) == g.closed # None
pastDate(g) == ~isReached(g) /\ g.date # None /\ g.date < Today
monthsLeft(g) == Max({1, monthIndex(g.date) - monthIndex(Today)})
Share(g) == Ceil(leftOf(g), monthsLeft(g))
\* A month's share of what is left, or all of it once the date has gone by.
need(g) == IF isReached(g) \/ g.date = None THEN None ELSE IF pastDate(g) THEN leftOf(g) ELSE Share(g)
eta(g) == IF isReached(g) \/ paceOf(g) = 0 THEN None ELSE monthIndex(Today) + Ceil(leftOf(g), paceOf(g))
late(g) == ~isReached(g) /\ need(g) # None /\ paceOf(g) < need(g)
lastIn(g) == LET ins == {m.date : m \in {x \in g.moves : x.amount > 0}} IN IF ins = {} THEN None ELSE Max(ins)
Pick(gs, P(_)) == {id \in DOMAIN gs : P(gs[id])}
Total(gs, ids, f(_)) == MapThenSumSet(LAMBDA id : f(gs[id]), ids)
viewOf(gs) == LET open == Pick(gs, LAMBDA g : ~isClosed(g) /\ ~isReached(g))
                  done == Pick(gs, LAMBDA g : ~isClosed(g) /\ isReached(g))
              IN [open |-> open, reached |-> done, history |-> Pick(gs, isClosed),
                  saved |-> Total(gs, open \cup done, saved), target |-> Total(gs, open \cup done, LAMBDA g : g.target),
                  need |-> Total(gs, open, LAMBDA g : IF need(g) = None THEN 0 ELSE need(g)),
                  pace |-> Total(gs, open, paceOf)]
\* A bar, in whole per cent, never past its end.
GoalBar(g) == IF g.target > 0 THEN Min({100, (Max({saved(g), 0}) * 100) \div g.target}) ELSE 0
asideByAccount(gs) == LET kept == Pick(gs, LAMBDA g : ~isClosed(g) /\ g.account # None)
                      IN [a \in {gs[id].account : id \in kept} |-> Total(gs, {id \in kept : gs[id].account = a}, saved)]
\* What the page says about a goal (goalWords.tsx).
status(g) == IF isClosed(g) THEN IF isReached(g) THEN "reached" ELSE "givenUp"
             ELSE IF isReached(g) THEN "closeWhenDone"
             ELSE IF pastDate(g) THEN "stillToGo"
             ELSE IF need(g) # None THEN IF late(g) THEN "needed" ELSE "onTrack"
             ELSE IF eta(g) # None THEN "atPace" ELSE "nothingLately"
when(g) == IF isClosed(g) THEN "closed"
           ELSE IF isReached(g) THEN IF lastIn(g) # None THEN "reachedOn" ELSE "reached"
           ELSE IF pastDate(g) THEN "wasDue" ELSE IF g.date # None THEN "by" ELSE "noDate"

\* What the theorems ask of the constants: the goals are records like those it makes.
IsGoal(g) == g = [target |-> g.target, date |-> g.date, account |-> g.account, closed |-> g.closed, moves |-> g.moves]
AreGoals(gs) == gs = [id \in DOMAIN gs |-> gs[id]] /\ \A id \in DOMAIN gs : IsGoal(gs[id])
GoalsConstants == \A gs \in AtFirst : AreGoals(gs)

Closed == [open |-> FALSE, id |-> None, date |-> None]
Init == /\ goals \in AtFirst /\ seen = goals /\ stale = FALSE
        /\ goalSheet = Closed /\ form = [target |-> 0, date |-> None]
        /\ moneySheet = [open |-> FALSE, id |-> None, direction |-> "in"]
        /\ entry = [direction |-> "in", amount |-> 0, closeIt |-> TRUE]
        /\ applying = None /\ rows = DOMAIN Proposed /\ historyOpen = FALSE
        /\ calls = {} /\ made = 0 /\ edits = 0 /\ wrote = {}

lineById(id) == IF id \in DOMAIN seen THEN seen[id] ELSE None
Edit == edits < MaxEdits /\ edits' = edits + 1 /\ UNCHANGED <<server, seen, stale, calls, made>>

\* A sheet is filled when it opens, and again when what it is open on changes.
Seeded(id, date, target) == LET g == lineById(id) IN
  [target |-> IF g # None THEN g.target ELSE target,
   date |-> IF date # None THEN date ELSE IF g # None THEN g.date ELSE None]
openGoal(id, date, target) == /\ goalSheet' = [open |-> TRUE, id |-> id, date |-> date]
                              /\ form' = Seeded(id, date, target)
                              /\ UNCHANGED <<moneySheet, entry>>
openMoney(id, direction) ==
  /\ lineById(id) # None
  /\ moneySheet' = [open |-> TRUE, id |-> id, direction |-> direction]
  /\ entry' = [direction |-> direction, closeIt |-> TRUE,
               amount |-> IF direction = "in" /\ need(lineById(id)) # None THEN need(lineById(id)) ELSE 0]
  /\ UNCHANGED <<goalSheet, form>>
GoalsEmpty == /\ Edit /\ DOMAIN seen = {} /\ ~goalSheet.open /\ UNCHANGED <<applying, rows, historyOpen>>
              /\ openGoal(None, Today + 6, 6) \/ openGoal(None, None, 0)
atRest == ~goalSheet.open /\ ~moneySheet.open
\* A row, its button, its menu; the fold over the history.
GoalsTable ==
  /\ Edit /\ atRest /\ UNCHANGED <<applying, rows>>
  /\ \/ UNCHANGED historyOpen /\ openGoal(None, None, 0)
     \/ \E id \in DOMAIN seen : (isClosed(seen[id]) => historyOpen) /\ openGoal(id, None, 0) /\ UNCHANGED historyOpen
     \/ UNCHANGED historyOpen /\ \E id \in viewOf(seen).open : openMoney(id, "in")
     \/ UNCHANGED historyOpen /\ \E id \in viewOf(seen).open \cup viewOf(seen).reached : saved(seen[id]) > 0 /\ openMoney(id, "out")
     \/ /\ viewOf(seen).history # {} /\ historyOpen' = ~historyOpen
        /\ UNCHANGED <<goalSheet, form, moneySheet, entry>>
\* Put in and Take out, over the goal's own sheet.
MovesHead == /\ Edit /\ goalSheet.open /\ ~moneySheet.open /\ UNCHANGED <<applying, rows, historyOpen>>
             /\ lineById(goalSheet.id) # None /\ ~isClosed(lineById(goalSheet.id))
             /\ \E d \in {"in", "out"} : (d = "out" => saved(lineById(goalSheet.id)) > 0) /\ openMoney(goalSheet.id, d)
goalRows == rows \cap viewOf(seen).open
\* Apply: Put in on a late goal, the goal with its new date on the others.
applyRow == /\ Edit /\ atRest
            /\ \E id \in goalRows : /\ applying' = id
                                    /\ IF Proposed[id].late THEN openMoney(id, "in") ELSE openGoal(id, Proposed[id].date, 0)
            /\ UNCHANGED <<rows, historyOpen>>
dropApply == applying' = None
Close == /\ \/ moneySheet.open /\ moneySheet' = [moneySheet EXCEPT !.open = FALSE] /\ UNCHANGED goalSheet
            \/ ~moneySheet.open /\ goalSheet.open /\ goalSheet' = [goalSheet EXCEPT !.open = FALSE] /\ UNCHANGED moneySheet
         /\ dropApply
         /\ UNCHANGED <<server, seen, stale, form, entry, rows, historyOpen, calls, made, edits>>
GoalSheet == /\ Edit /\ goalSheet.open /\ ~moneySheet.open
             /\ form' \in {[form EXCEPT !.target = a] : a \in Amounts} \cup {[form EXCEPT !.date = d] : d \in {None, Today + 2}}
             /\ UNCHANGED <<goalSheet, moneySheet, entry, applying, rows, historyOpen>>
MoneySheet == /\ Edit /\ moneySheet.open
              /\ entry' \in {[entry EXCEPT !.amount = a] : a \in Amounts} \cup {[entry EXCEPT !.direction = d] : d \in {"in", "out"}}
                            \cup {[entry EXCEPT !.closeIt = ~@]}
              /\ UNCHANGED <<goalSheet, form, moneySheet, applying, rows, historyOpen>>

isPending(kind) == \E c \in calls : c.kind = kind
mutate(kind, id, arg) == /\ made < MaxCalls /\ made' = made + 1
                         /\ Overlap \/ (calls = {} /\ ~stale)
                         /\ calls' = calls \cup {[no |-> made', kind |-> kind, id |-> id, arg |-> arg, step |-> "sent"]}
                         /\ UNCHANGED <<server, seen, stale, edits>>
saveGoal == /\ goalSheet.open /\ ~moneySheet.open /\ ~isPending("goal") /\ form.target > 0
            /\ mutate("goal", IF lineById(goalSheet.id) = None THEN None ELSE goalSheet.id, form)
            /\ UNCHANGED sheets
after(g) == saved(g) + (IF entry.direction = "in" THEN entry.amount ELSE -entry.amount)
reaches(g) == entry.direction = "in" /\ ~isReached(g) /\ entry.amount > 0 /\ after(g) >= g.target
tooMuch(g) == entry.direction = "out" /\ entry.amount > saved(g)
\* The button, or Enter in the amount, which does not wait for the answer to the one before.
saveMoney == LET g == lineById(moneySheet.id) IN
  /\ moneySheet.open /\ g # None /\ entry.amount > 0 /\ ~tooMuch(g)
  /\ Overlap \/ ~isPending("money")
  /\ mutate("money", moneySheet.id, [amount |-> IF entry.direction = "in" THEN entry.amount ELSE -entry.amount,
                                     close |-> reaches(g) /\ entry.closeIt])
  /\ UNCHANGED sheets
closeSheets == goalSheet' = [goalSheet EXCEPT !.open = FALSE] /\ moneySheet' = [moneySheet EXCEPT !.open = FALSE]
\* Close, Give up and Delete, from a row or from the goal's sheet; the sheets close with the yes.
askClose == /\ ~moneySheet.open /\ closeSheets /\ UNCHANGED <<form, entry, applying, rows, historyOpen>>
            /\ \E id \in IF goalSheet.open THEN {goalSheet.id} \cap DOMAIN seen ELSE DOMAIN seen :
                 \/ ~isClosed(seen[id]) /\ mutate("close", id, None)
                 \/ mutate("delete", id, None)
reopen == /\ ~moneySheet.open /\ UNCHANGED sheets
          /\ \E id \in IF goalSheet.open THEN {goalSheet.id} \cap DOMAIN seen ELSE DOMAIN seen :
               isClosed(seen[id]) /\ mutate("reopen", id, None)
askRemoveMove == /\ goalSheet.open /\ ~moneySheet.open /\ lineById(goalSheet.id) # None /\ ~isClosed(lineById(goalSheet.id))
                 /\ \E m \in lineById(goalSheet.id).moves : mutate("removeMove", goalSheet.id, m)
                 /\ UNCHANGED sheets

\* The server. Money is written in two steps: the goal is read, then the movement is inserted.
Moved(c, step) == calls' = (calls \ {c}) \cup {[c EXCEPT !.step = step]}
Accepts(g) == ~isClosed(g)
Without(id) == [x \in DOMAIN goals \ {id} |-> goals[x]]
NextMove == 1 + Max({0} \cup UNION {{m.no : m \in goals[id].moves} : id \in DOMAIN goals})
Check(c) ==
  /\ c.step = "sent" /\ c.kind \in {"money", "removeMove"}
  /\ Moved(c, IF c.id \in DOMAIN goals /\ Accepts(goals[c.id]) THEN "checked" ELSE "failed")
  /\ UNCHANGED server
AddContribution(c) ==
  /\ c.kind = "money" /\ c.step = "checked"
  /\ IF c.id \in DOMAIN goals
     THEN /\ goals' = [goals EXCEPT ![c.id].moves = @ \cup {[no |-> NextMove, date |-> Today, amount |-> c.arg.amount]}]
          /\ wrote' = wrote \cup {c.id} /\ Moved(c, IF c.arg.close THEN "close" ELSE "ok")
     ELSE UNCHANGED server /\ Moved(c, "failed")
DeleteContribution(c) == /\ c.kind = "removeMove" /\ c.step = "checked" /\ Moved(c, "ok") /\ UNCHANGED wrote
                         /\ goals' = IF c.id \in DOMAIN goals THEN [goals EXCEPT ![c.id].moves = @ \ {c.arg}] ELSE goals
SetClosed(id, date) == goals' = [goals EXCEPT ![id].closed = date]
\* Close and Reopen, as a call of their own or after the money.
CloseOrReopen(c) == /\ \/ c.kind \in {"close", "reopen"} /\ c.step = "sent"
                       \/ c.kind = "money" /\ c.step = "close"
                    /\ IF c.id \in DOMAIN goals THEN SetClosed(c.id, IF c.kind = "reopen" THEN None ELSE Today) /\ Moved(c, "ok")
                       ELSE UNCHANGED goals /\ Moved(c, "failed")
                    /\ UNCHANGED wrote
Update(c) == /\ c.kind = "goal" /\ c.step = "sent"
             /\ CASE c.id = None -> /\ Fresh \notin DOMAIN goals /\ UNCHANGED wrote
                                    /\ goals' = [x \in DOMAIN goals \cup {Fresh} |-> IF x = Fresh
                                         THEN [target |-> c.arg.target, date |-> c.arg.date, account |-> None, closed |-> None, moves |-> {}]
                                         ELSE goals[x]]
                                    /\ Moved(c, "ok")
                  [] c.id \in DOMAIN goals -> /\ goals' = [goals EXCEPT ![c.id].target = c.arg.target, ![c.id].date = c.arg.date]
                                              /\ wrote' = wrote \cup {c.id} /\ Moved(c, "ok")
                  [] OTHER -> UNCHANGED server /\ Moved(c, "failed")
Delete(c) == /\ c.kind = "delete" /\ c.step = "sent" /\ Moved(c, "ok") /\ goals' = Without(c.id) /\ UNCHANGED wrote
Refuse(c) == c.step \in {"sent", "close"} /\ <<c.kind, c.step>> \in Fails /\ Moved(c, "failed") /\ UNCHANGED server
Serve(c) == /\ Check(c) \/ AddContribution(c) \/ DeleteContribution(c) \/ CloseOrReopen(c) \/ Update(c) \/ Delete(c) \/ Refuse(c)
            /\ UNCHANGED <<seen, stale, sheets, made, edits>>
\* The same goals on another page of the same person.
Elsewhere == /\ Overlap \/ calls = {}
             /\ edits < MaxEdits /\ edits' = edits + 1
             /\ \/ \E id \in DOMAIN goals : goals' = Without(id)
                \/ \E id \in DOMAIN goals : SetClosed(id, IF isClosed(goals[id]) THEN None ELSE Today)
             /\ UNCHANGED <<seen, stale, sheets, calls, made, wrote>>

\* The row of the goal whose sheet answered is done.
applied(id) == /\ rows' = IF applying # None /\ applying = id THEN rows \ {id} ELSE rows
               /\ applying' = IF applying # None /\ applying = id THEN None ELSE applying
\* Money that failed may have gone in before its close failed: it is read again as if saved.
Answer(c) ==
  /\ c.step \in {"ok", "failed"} /\ calls' = calls \ {c}
  /\ stale' = (stale \/ c.step = "ok" \/ c.kind = "money")
  /\ CASE c.kind = "money" -> /\ IF c.step = "ok" THEN rows' = (IF applying = moneySheet.id THEN rows \ {applying} ELSE rows) /\ dropApply
                                 ELSE applied(moneySheet.id)
                              /\ moneySheet' = [moneySheet EXCEPT !.open = @ /\ c.step # "ok"]
                              /\ UNCHANGED <<goalSheet, form, entry, historyOpen>>
       [] c.kind = "goal" /\ c.step = "ok" -> /\ rows' = (IF applying = goalSheet.id THEN rows \ {applying} ELSE rows) /\ dropApply
                                              /\ goalSheet' = [goalSheet EXCEPT !.open = FALSE]
                                              /\ UNCHANGED <<form, moneySheet, entry, historyOpen>>
       [] c.kind = "removeMove" /\ c.step = "ok" -> applied(goalSheet.id) /\ UNCHANGED <<goalSheet, form, moneySheet, entry, historyOpen>>
       [] OTHER -> UNCHANGED sheets
  /\ UNCHANGED <<server, seen, made, edits>>
\* The goals arrive again, after a write or when the page is come back to. A goal that is
\* gone leaves its sheet a new goal's, blank, and takes its money sheet away.
invalidate ==
  /\ (stale \/ (seen # goals /\ (Overlap \/ calls = {}))) /\ stale' = FALSE /\ seen' = goals
  /\ LET gone(s) == s.open /\ s.id \in DOMAIN seen \ DOMAIN goals IN
     /\ form' = IF gone(goalSheet) THEN [target |-> 0, date |-> goalSheet.date] ELSE form
     /\ moneySheet' = IF gone(moneySheet) THEN [moneySheet EXCEPT !.open = FALSE] ELSE moneySheet
  /\ UNCHANGED <<server, goalSheet, entry, applying, rows, historyOpen, calls, made, edits>>

Next == \/ GoalsEmpty \/ GoalsTable \/ MovesHead \/ applyRow \/ Close \/ GoalSheet \/ MoneySheet
        \/ saveGoal \/ saveMoney \/ askClose \/ reopen \/ askRemoveMove \/ Elsewhere \/ invalidate
        \/ \E c \in calls : Serve(c) \/ Answer(c)

Spec == Init /\ [][Next]_goalVars

----------------------------------------------------------------------------

\* Types: every goal is in one of the page's three lists; one the page calls on track gets
\* there by its date at its pace (goals.onTrack); what is set aside is that of each account
\* and what is kept in none.
TypeOK == LET v == viewOf(seen) IN
  /\ v.open \cup v.reached \cup v.history = DOMAIN seen
  /\ \A id \in v.open : LET g == seen[id] IN
       /\ leftOf(g) > 0 /\ (eta(g) # None => eta(g) > monthIndex(Today))
       /\ status(g) = "onTrack" => eta(g) # None /\ eta(g) <= monthIndex(Today) + monthsLeft(g) /\ when(g) = "by"
  /\ LET aside == asideByAccount(seen) IN
       v.saved = MapThenSumSet(LAMBDA a : aside[a], DOMAIN aside) + Total(seen, {id \in v.open \cup v.reached : seen[id].account = None}, saved)
  /\ \A id \in DOMAIN seen : (GoalBar(seen[id]) = 100) = isReached(seen[id])

\* Of a step: a closed goal's money stays as it is until the goal is reopened (GoalSheet.tsx).
ClosedMoneyStays == \A id \in DOMAIN goals \cap DOMAIN goals' :
                      isClosed(goals[id]) /\ isClosed(goals'[id]) => goals'[id].moves = goals[id].moves

=============================================================================
