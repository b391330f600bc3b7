--------------------------- MODULE SchedulesPage ---------------------------
(***************************************************************************)
(* The schedules page (web: SchedulesPage.tsx and schedules/: CalendarView, *)
(* ScheduleList, OccurrenceSheet, ScheduleSheet, FoundPayments,             *)
(* scheduleCalendar.ts): what comes round on a calendar of the month, one   *)
(* occurrence registered or skipped, a schedule written in its sheet.       *)
(* Dates are day numbers of Recurrence; every schedule here is monthly.     *)
(***************************************************************************)
EXTENDS Recurrence, Sequences, SequencesExt, FiniteSetsExt

CONSTANTS
  Existing,     \* the schedules at the start: id -> [next, amount, payee, kept, auto, transfer, left];
                \* kept is what a sheet does not edit of the template: its own status, 0 for none
  Fresh,        \* the id a new schedule gets
  Found,        \* the recurring payment found: [amount, payee, next], or None
  Raised,       \* the AI's rows: id -> the new amount, or None where no raise was found
  Today, WeekStart,
  Overlap,      \* a press over a copy that is being read again, or behind an open sheet; the
                \* scheduler under a sheet; templates that are late
  Fails,        \* a call may fail half-way
  MaxCalls, MaxEdits,  \* bounds
  None

\* New schedules have an id of their own; amounts are of the smallest unit of money.
PageConstants ==
  /\ None \notin Int \cup {"new", Fresh} /\ Today \in Int /\ Fresh # "new"
  /\ {None, "new", Fresh} \cap (DOMAIN Existing \cup DOMAIN Raised) = {}
  /\ \A id \in DOMAIN Existing : Existing[id].amount \in Int
  /\ \A id \in DOMAIN Raised : Raised[id] \in Int \cup {None}
  /\ Found # None => Found.amount \in Int

VARIABLES
  schedules, posted,      \* the server's: id -> schedule; the transactions registered
  seen, stale, loaded,    \* the page's copies; to be read again; the templates have arrived
  url,                    \* [view, month, flow]
  opened, occ,            \* the occurrence open, and the sheet's [amount, date, status]
  sheet, fields,          \* the schedule open ("new", an id or None), and what its sheet holds
  seed, walk, applying,   \* what it is filled from; the ones left to complete; the AI's row
  rows,                   \* the AI's rows still to do
  calls, made, edits,
  done, saved             \* what was registered or skipped, and shown; the schedules saved or deleted

pageVars == <<schedules, posted, seen, stale, loaded, url, opened, occ, sheet, fields, seed, walk,
              applying, rows, calls, made, edits, done, saved>>
server == <<schedules, posted, done, saved>>
copy == <<seen, stale, loaded>>
sheets == <<opened, occ, sheet, fields, seed, walk, applying>>

(* scheduleCalendar.ts *)
monthOf(d) == MonthOf(d)
dayInWeek(d) == (Weekday(d) - WeekStart) % 7
\* Whole weeks, from the one the month starts in to the one it ends in.
monthGrid(month) == LET last == FirstDay(month + 1) - 1
                    IN FirstDay(month) - dayInWeek(FirstDay(month)) .. last + 6 - dayInWeek(last)
inFlow(o, flow) == CASE flow = "out" -> o.amount < 0 [] flow = "in" -> o.amount > 0 /\ ~o.transfer [] OTHER -> TRUE
isPaid(o) == o.state = "registered" /\ o.status = 2
NEEDS_YOU_DAYS == 7

\* What the calendar endpoint answers over some days.
Projected(s, id, days) ==
  {[id |-> id, date |-> d, amount |-> s.amount, auto |-> s.auto, transfer |-> s.transfer, status |-> 0,
    state |-> IF d < Today THEN "overdue" ELSE "due", next |-> d = s.next] :
     d \in days \cap {addMonths(s.next, k) : k \in 0 .. (IF s.left = None THEN 3 ELSE s.left - 1)}}
Registered(t, days) == t.date \in days
getScheduleCalendar(data, days) ==
  (UNION {Projected(data.schedules[id], id, days) : id \in DOMAIN data.schedules})
  \cup {[id |-> t.id, date |-> t.date, amount |-> t.amount, auto |-> FALSE, transfer |-> t.transfer,
         status |-> t.status, state |-> "registered", next |-> FALSE] : t \in {x \in data.posted : Registered(x, days)}}

Total(s) == MapThenSumSet(LAMBDA o : o.amount, s)

\* The figures over the month: a transfer is neither a bill nor income.
Paid(out) == {o \in out : isPaid(o)}
monthFigures(os, month) ==
  LET mine == {o \in os : ~o.transfer /\ monthOf(o.date) = month}
      out == {o \in mine : o.amount < 0}
      in == mine \ out
  IN [outTotal |-> -Total(out), paid |-> -Total(Paid(out)), toPay |-> -Total({o \in out : ~isPaid(o)}),
      overdue |-> -Total({o \in out : o.state = "overdue"}),
      inTotal |-> Total(in), received |-> Total({o \in in : o.state = "registered"})]
needsYou(os) == {o \in os : \/ o.state = "overdue"
                            \/ o.state = "due" /\ ~o.auto /\ o.date <= Today + NEEDS_YOU_DAYS}
nextUp(os) == {o \in os \ needsYou(os) : o.date > Today}
\* Twelve a year, or the ones left.
perYear(s) == IF s.left = 0 \/ s.transfer THEN 0
              ELSE s.amount * (IF s.left # None /\ s.left < 12 THEN s.left ELSE 12)
commitments(ss) == [out |-> MapThenSumSet(LAMBDA id : perYear(ss[id]), {id \in DOMAIN ss : perYear(ss[id]) < 0}),
                    in |-> MapThenSumSet(LAMBDA id : perYear(ss[id]), {id \in DOMAIN ss : perYear(ss[id]) > 0})]
missingPayee(s) == ~s.transfer /\ s.payee = None

nowDays == Today - 60 .. Today + 39
nowOccurrences == getScheduleCalendar(seen, nowDays)
shown == {o \in getScheduleCalendar(seen, monthGrid(url.month)) : inFlow(o, url.flow)}

Blank == [amount |-> 0, payee |-> None, next |-> Today, kept |-> 0]
Init == /\ schedules = Existing /\ posted = {} /\ seen = [schedules |-> Existing, posted |-> {}] /\ stale = FALSE
        /\ loaded \in BOOLEAN
        /\ url = [view |-> "calendar", month |-> monthOf(Today), flow |-> "all"]
        /\ opened = None /\ occ = None /\ sheet = None /\ fields = Blank
        /\ seed = None /\ walk = <<>> /\ applying = None /\ rows = DOMAIN Raised
        /\ calls = {} /\ made = 0 /\ edits = 0 /\ done = {} /\ saved = {}

isPending(kinds) == \E c \in calls : c.kind \in kinds
mutate(kind, id, arg) == /\ made < MaxCalls /\ made' = made + 1
                         /\ Overlap \/ (calls = {} /\ ~stale)
                         /\ calls' = calls \cup {[no |-> made', kind |-> kind, id |-> id, arg |-> arg, step |-> "sent"]}
Edit == edits < MaxEdits /\ edits' = edits + 1 /\ UNCHANGED <<server, copy, rows, calls, made>>

setParam == /\ Edit /\ UNCHANGED sheets
            /\ \/ \E v \in {"calendar", "list"}, f \in {"all", "out", "in"} : url' = [url EXCEPT !.view = v, !.flow = f]
               \/ \E m \in {url.month - 1, url.month + 1, monthOf(Today)} : url' = [url EXCEPT !.month = m]

\* The sheet of a schedule, filled when it opens: from its template, the amount raised, or the proposal.
Seeded(from) == IF from = None THEN Blank
                ELSE [amount |-> from.amount, payee |-> from.payee, next |-> from.next, kept |-> 0]
Given(v, usual) == IF v = None THEN usual ELSE v
Filled(id, from, raised) ==
  IF id = "new" THEN Seeded(from)
  ELSE LET s == seen.schedules[id]
       IN IF loaded THEN [amount |-> Given(raised, s.amount), payee |-> s.payee, next |-> s.next, kept |-> s.kept]
          ELSE [fields EXCEPT !.next = s.next]
raisedOf(row) == IF row = None THEN None ELSE Raised[row]
\* What was typed stays when what the sheet is filled from is the same.
openSchedule(id, from, row) ==
  /\ Overlap \/ (loaded /\ calls = {})
  /\ walk' = <<>> /\ seed' = from /\ opened' = None /\ occ' = None /\ sheet' = id /\ applying' = row
  /\ fields' = IF sheet = id /\ from \in {None, seed} /\ raisedOf(row) = raisedOf(applying) THEN fields
               ELSE Filled(id, from, raisedOf(row))
\* By a row, an occurrence's Edit schedule, Add, a payment found, or a row of the AI's.
ScheduleList == /\ Edit /\ UNCHANGED url
                /\ \/ \E id \in DOMAIN seen.schedules : openSchedule(id, None, None)
                   \/ openSchedule("new", None, None)
FoundPayments == /\ Edit /\ UNCHANGED url /\ Found # None /\ openSchedule("new", Found, None)
applyRow == /\ Edit /\ UNCHANGED url
            /\ \E id \in rows \cap DOMAIN seen.schedules : openSchedule(id, None, id)
MissingPayeeBanner ==
  /\ Edit /\ UNCHANGED url /\ sheet = None
  /\ Overlap \/ (loaded /\ calls = {})
  /\ walk' = SetToSeq({id \in DOMAIN seen.schedules : missingPayee(seen.schedules[id])})
  /\ \E first \in DOMAIN seen.schedules : /\ walk' # <<>> /\ walk'[1] = first
                                         /\ sheet' = first /\ fields' = Filled(first, None, None)
  /\ seed' = None /\ applying' = None /\ opened' = None /\ occ' = None

\* A registered occurrence opens in the register; the others in their own sheet.
DEFAULT_STATUS == 1
openOccurrence(o) == /\ Overlap \/ (calls = {} /\ ~stale)
                     /\ Edit /\ UNCHANGED <<url, sheet, fields, seed, walk, applying>>
                     /\ o.state # "registered" /\ opened' = o
                     /\ occ' = IF opened # None /\ opened.id = o.id /\ opened.date = o.date THEN occ
                               ELSE [amount |-> o.amount, date |-> o.date, status |-> DEFAULT_STATUS]
CalendarView == url.view = "calendar" /\ sheet = None /\ \E o \in shown \cup needsYou(nowOccurrences) \cup nextUp(nowOccurrences) : openOccurrence(o)
changeOccurrence == /\ occ # None /\ Edit /\ UNCHANGED <<url, opened, sheet, fields, seed, walk, applying>>
                    /\ occ' \in {[occ EXCEPT !.amount = @ - 1], [occ EXCEPT !.date = Today], [occ EXCEPT !.status = 2]}
canAct == opened # None /\ opened.next
\* (Mutant: the status goes only when it is not None.)
DiffersLate(o, f) == [amount |-> IF f.amount # o.amount THEN f.amount ELSE None,
                      date |-> IF f.date # o.date THEN f.date ELSE None,
                      status |-> IF f.status = 0 THEN 0 ELSE None]

\* Only what differs from the occurrence is sent.
Differs(o, f) == [amount |-> IF f.amount # o.amount THEN f.amount ELSE None,
                  date |-> IF f.date # o.date THEN f.date ELSE None,
                  status |-> IF f.status # DEFAULT_STATUS THEN f.status ELSE None]
OccurrenceSheet ==
  /\ IF opened = None THEN FALSE
     ELSE /\ canAct /\ ~isPending({"register", "skip"})
          /\ \/ /\ occ.amount # 0
                /\ mutate("register", opened.id, [body |-> Differs(opened, occ), on |-> opened.date, saw |-> occ, close |-> TRUE])
             \/ mutate("skip", opened.id, [on |-> opened.date, close |-> TRUE])
  /\ UNCHANGED <<server, copy, url, sheets, rows, edits>>
AsIs == [amount |-> None, date |-> None, status |-> None]
\* The next occurrence of a schedule, waiting in "Needs you" or by its row in the list.
NeedsYou ==
  /\ Overlap \/ (opened = None /\ sheet = None)
  /\ \E id \in DOMAIN seen.schedules :
       LET s == seen.schedules[id]
       IN /\ \/ url.view = "list"
             \/ ~isPending({"register", "skip"}) /\ \E o \in needsYou(nowOccurrences) : o.id = id /\ o.next
          /\ \/ mutate("register", id, [body |-> AsIs, on |-> s.next, close |-> FALSE,
                                       saw |-> [amount |-> s.amount, date |-> s.next, status |-> DEFAULT_STATUS]])
             \/ mutate("skip", id, [on |-> s.next, close |-> FALSE])
  /\ UNCHANGED <<server, copy, url, sheets, rows, edits>>

ScheduleSheet == /\ sheet # None /\ Edit /\ UNCHANGED <<url, opened, occ, sheet, seed, walk, applying>>
                 /\ fields' \in {[fields EXCEPT !.amount = @ - 1], [fields EXCEPT !.payee = "p2"]}
\* The cached template arrives: it fills the sheet again.
TemplateLands == /\ ~loaded /\ loaded' = TRUE
                 /\ fields' = IF sheet \in DOMAIN seen.schedules
                              THEN LET s == seen.schedules[sheet]
                                   IN [amount |-> Given(raisedOf(applying), s.amount), payee |-> s.payee,
                                       next |-> fields.next, kept |-> s.kept]
                              ELSE fields
                 /\ UNCHANGED <<server, seen, stale, url, opened, occ, sheet, seed, walk, applying, rows, calls, made, edits>>

\* What is not edited here goes back as it is.
buildTemplate == [fields EXCEPT !.kept = IF sheet \in DOMAIN seen.schedules /\ loaded THEN seen.schedules[sheet].kept ELSE 0]
canSave == fields.amount # 0
save == /\ sheet # None /\ canSave /\ ~isPending({"save"})
        /\ sheet = "new" => fields.payee # None
        /\ sheet \in DOMAIN seen.schedules => fields.payee # None \/ seen.schedules[sheet].transfer
        /\ mutate("save", sheet, buildTemplate)
        /\ UNCHANGED <<server, copy, url, sheets, rows, edits>>
\* From its sheet, or its row in the list; an AI's row is done before the answer.
askDelete ==
  /\ \E id \in DOMAIN seen.schedules :
       /\ sheet = id \/ (sheet = None /\ url.view = "list")
       /\ mutate("delete", id, None)
       /\ IF applying = id THEN applying' = None /\ rows' = rows \ {id} ELSE UNCHANGED <<applying, rows>>
  /\ sheet' = None
  /\ UNCHANGED <<server, copy, url, opened, occ, fields, seed, walk, edits>>
Close == /\ sheet # None \/ opened # None
         /\ sheet' = None /\ walk' = <<>> /\ applying' = None /\ opened' = None /\ occ' = None
         /\ UNCHANGED <<server, copy, url, fields, seed, rows, calls, made, edits>>

(* The server: the next occurrence is registered or skipped, and the schedule moves on. *)
Due(s, next, left) == [next |-> next, amount |-> s.amount, payee |-> s.payee, kept |-> s.kept,
                       auto |-> s.auto, transfer |-> s.transfer, left |-> left]
Without(id) == [x \in DOMAIN schedules \ {id} |-> schedules[x]]
Advanced(id) ==
  LET s == schedules[id]
  IN IF s.left = 1 THEN Without(id)
     ELSE [schedules EXCEPT ![id] = Due(s, addMonths(s.next, 1), IF s.left = None THEN None ELSE s.left - 1)]
\* Cleared, where neither the reader nor the template says another status.
Transaction(id, body) ==
  LET s == schedules[id]
  IN [id |-> id, on |-> s.next, date |-> Given(body.date, s.next), amount |-> Given(body.amount, s.amount),
      status |-> Given(body.status, IF s.kept = 0 THEN DEFAULT_STATUS ELSE s.kept), transfer |-> s.transfer]
postOnce(c) ==
  /\ c.id \in DOMAIN schedules /\ schedules' = Advanced(c.id)
  /\ IF c.kind = "skip"
     THEN /\ posted' = posted
          /\ done' = done \cup {[pressed |-> <<c.arg.on, None>>, got |-> <<schedules[c.id].next, None>>]}
     ELSE LET t == Transaction(c.id, c.arg.body)
          IN /\ posted' = posted \cup {t}
             /\ done' = done \cup {[pressed |-> <<c.arg.on, c.arg.saw>>,
                                   got |-> <<t.on, [amount |-> t.amount, date |-> t.date, status |-> t.status]>>]}
\* Every hour, those that register themselves.
RunDue == /\ Overlap \/ (calls = {} /\ sheet = None /\ opened = None)
          /\ \E id \in DOMAIN schedules : /\ schedules[id].auto /\ schedules[id].next <= Today
                                         /\ schedules' = Advanced(id) /\ posted' = posted \cup {Transaction(id, AsIs)}
          /\ stale' = TRUE   \* (read again when the reader comes back to the page)
          /\ UNCHANGED <<done, saved, seen, loaded, url, sheets, rows, calls, made, edits>>

Moved(c, step) == calls' = (calls \ {c}) \cup {[c EXCEPT !.step = step]}
Refuse(c) == /\ c.step \in {"sent", "template"} /\ (c.kind \in Fails \/ (c.id # "new" /\ c.id \notin DOMAIN schedules))
             /\ Moved(c, "failed")
             /\ UNCHANGED <<server, copy, url, sheets, rows, made, edits>>
\* The template first; its copy goes into the page's at once.
Written(s, template) == [next |-> s.next, amount |-> template.amount, payee |-> template.payee, kept |-> template.kept,
                        auto |-> s.auto, transfer |-> s.transfer, left |-> s.left]
ServeTemplate(c) ==
  /\ c.kind = "save" /\ c.step = "sent" /\ Moved(c, "template")
  /\ IF c.id \in DOMAIN schedules
     THEN /\ schedules' = [schedules EXCEPT ![c.id] = Written(@, c.arg)]
          /\ seen' = IF c.id \in DOMAIN seen.schedules
                     THEN [schedules |-> [seen.schedules EXCEPT ![c.id] = Written(@, c.arg)], posted |-> seen.posted]
                     ELSE seen
     ELSE c.id = "new" /\ UNCHANGED <<schedules, seen>>
  /\ UNCHANGED <<posted, done, saved, stale, loaded, url, sheets, rows, made, edits>>
Created(template) == [next |-> template.next, amount |-> template.amount, payee |-> template.payee, kept |-> 0,
                      auto |-> FALSE, transfer |-> FALSE, left |-> None]
Serve(c) ==
  /\ CASE c.kind \in {"register", "skip"} -> c.step = "sent" /\ postOnce(c) /\ UNCHANGED saved
       [] c.kind = "delete" -> /\ c.step = "sent" /\ schedules' = Without(c.id)
                               /\ saved' = saved \cup {c.id} /\ UNCHANGED <<posted, done>>
       [] OTHER -> /\ c.step = "template" /\ UNCHANGED <<posted, done>>
                   /\ IF c.id = "new"
                      THEN /\ Fresh \notin DOMAIN schedules /\ saved' = saved
                           /\ schedules' = [id \in DOMAIN schedules \cup {Fresh} |->
                                             IF id = Fresh THEN Created(c.arg) ELSE schedules[id]]
                      ELSE /\ c.id \in DOMAIN schedules /\ saved' = saved \cup {c.id}
                           /\ schedules' = [schedules EXCEPT ![c.id] = Due(@, c.arg.next, @.left)]
  /\ Moved(c, "ok")
  /\ UNCHANGED <<copy, url, sheets, rows, made, edits>>

\* The schedule after this one in the walk, or none.
onSavedNext == IF sheet \in Range(walk) /\ Last(walk) # sheet
               THEN LET n == walk[1 + CHOOSE k \in DOMAIN walk : walk[k] = sheet]
                    IN IF n \in DOMAIN seen.schedules THEN n ELSE None
               ELSE None
onSaved == /\ rows' = IF applying # None /\ applying = sheet THEN rows \ {sheet} ELSE rows
           /\ sheet' = onSavedNext
           /\ fields' = IF sheet' = None THEN fields ELSE Filled(sheet', None, None)
           /\ applying' = None /\ walk' = IF sheet' = None THEN <<>> ELSE walk
           /\ UNCHANGED <<opened, occ, seed>>

\* A call that failed leaves the sheet open.
Closes(c) == c.step # "failed" /\ c.kind # "delete"
Answer(c) ==
  /\ c.step \in {"ok", "failed"} /\ calls' = calls \ {c}
  /\ stale' = (stale \/ c.step = "ok")
  /\ \/ ~Closes(c) /\ UNCHANGED <<sheets, rows>>
     \/ Closes(c) /\ c.kind = "save" /\ onSaved
     \/ /\ Closes(c) /\ c.kind # "save"
        /\ IF c.arg.close THEN opened' = None /\ occ' = None ELSE UNCHANGED <<opened, occ>>
        /\ UNCHANGED <<sheet, fields, seed, walk, applying, rows>>
  /\ UNCHANGED <<server, seen, loaded, url, made, edits>>
invalidate == /\ stale /\ stale' = FALSE /\ seen' = [schedules |-> schedules, posted |-> posted]
              /\ UNCHANGED <<server, loaded, url, sheets, rows, calls, made, edits>>

Next == \/ setParam \/ ScheduleList \/ FoundPayments \/ applyRow \/ MissingPayeeBanner \/ CalendarView \/ changeOccurrence
        \/ OccurrenceSheet \/ NeedsYou \/ ScheduleSheet \/ TemplateLands \/ save \/ askDelete \/ Close \/ RunDue \/ invalidate
        \/ \E c \in calls : Refuse(c) \/ ServeTemplate(c) \/ Serve(c) \/ Answer(c)

Spec == Init /\ [][Next]_pageVars

----------------------------------------------------------------------------

\* Types: the calendar draws whole weeks that hold the month, and what is paid and what is to
\* pay make up what goes out, with all that is overdue among what is to pay.
TypeOK == LET g == monthGrid(url.month) f == monthFigures(getScheduleCalendar(seen, g), url.month)
          IN /\ Cardinality(g) % 7 = 0 /\ FirstDay(url.month) .. FirstDay(url.month + 1) - 1 \subseteq g
             /\ f.paid + f.toPay = f.outTotal /\ f.overdue <= f.toPay /\ f.received <= f.inTotal
             /\ needsYou(nowOccurrences) \cap nextUp(nowOccurrences) = {}
             /\ \A id \in DOMAIN schedules : schedules[id].left # 0 /\ schedules[id].amount # 0
             /\ commitments(seen.schedules).out <= 0 /\ commitments(seen.schedules).in >= 0

\* The occurrence registered or skipped is the one shown when it was pressed, with the amount,
\* the date and the status the reader saw (OccurrenceSheet.tsx: "what the schedule says it
\* will be, with the amount, date and status open to change"; "Skip this one", en.json:648).
ActsOnWhatIsShown == \A d \in done : d.pressed = d.got

\* A row of the AI's proposal is done once its schedule is saved or deleted
\* (SchedulesPage.tsx: "its row is done once the schedule is saved or deleted").
AppliedIsDone == \A id \in DOMAIN Raised \ rows :
  id \in saved \/ \E c \in calls : c.kind = "delete" /\ c.id = id /\ c.step # "failed"

\* What a schedule's sheet does not edit is not lost by saving it (ScheduleSheet.tsx: "sent as
\* they are, or they would be wiped (#560)").
UneditedKept == \A id \in DOMAIN Existing \cap DOMAIN schedules : schedules[id].kept = Existing[id].kept
=============================================================================
