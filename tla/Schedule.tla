------------------------------- MODULE Schedule -------------------------------
(***************************************************************************)
(* Scheduled transactions (schedule/service.go): the hourly scheduler and  *)
(* the request handlers that post, skip, edit and delete the same rows.    *)
(*                                                                         *)
(* What makes it hard: a schedule row is read first (ListAllSchedules,     *)
(* GetSchedule) and postOnce, later, writes what it computed from that     *)
(* copy in a transaction that does not look at the row again.  Between the *)
(* two another handler, or the scheduler, may have moved the schedule on.  *)
(***************************************************************************)
EXTENDS Recurrence, Sequences

CONSTANTS
  Schedules,    \* row ids; ListAllSchedules returns them in this order
  Handlers,     \* concurrent HTTP requests
  NoRow,        \* stands for a row that is not in the table
  NoLimit,      \* remaining IS NULL
  Configs,      \* the rows Create and Update may write
  Days,         \* the dates of the model; nothing is due after them
  Clock,        \* the dates on which anything happens
  Ops,          \* what users and the environment do in this instance
  PostMonths,   \* the wallet's schedulePostMonths setting
  CatchUpCap,   \* catchUpCap
  Serial,       \* nothing starts while a run or a request is between its steps
  MaxHistory    \* bound: occurrences a schedule moves past

\* Neither Create nor Update looks at the sign of a limit or of the days ahead.
Limits == Int \cup {NoLimit}

Row == [unit : Units, everyN : Nat \ {0}, nextDue : Days, weekendMode : WeekendModes,
        remaining : Limits, postAdvance : Int, autoPost : BOOLEAN]

ASSUME SerialIsBoolean == Serial \in BOOLEAN
ASSUME CatchUpCapPositive == CatchUpCap \in Nat \ {0}
ASSUME SchedulesAreIds    == Schedules \subseteq Nat
ASSUME ConfigsAreRows     == Configs \subseteq Row
ASSUME NoRowIsNoRow       == NoRow \notin Row
ASSUME DaysAreDates       == Days \subseteq Nat /\ Clock \subseteq Nat /\ 0 \in Clock
ASSUME OpsAreOps          == Ops \subseteq {"create", "update", "delete", "deleteAccount",
                                          "deleteTemplate", "deleteWallet", "post", "skip", "crash"}

VARIABLES
  today,     \* the server's civil date
  rows,      \* the schedules table
  template,  \* "ok" | "noaccount" (an account of it was deleted) | "gone"
  history,   \* per schedule, the occurrences registered or passed over
  edited,    \* ids some Update has written: their series started afresh
  runPc,     \* the scheduler goroutine: "idle" | "loop" | "reload"
  runDay,    \* the `today` RunDue computed when it started
  todo,      \* ids RunDue has yet to finish with
  snap,      \* the row RunDue holds for each of them
  posted,    \* iterations spent on the current one
  pending    \* per handler, the row it read and what it will do with it

vars == <<today, rows, template, history, edited,
          runPc, runDay, todo, snap, posted, pending>>

runVars == <<runPc, runDay, todo, snap, posted>>

\* An occurrence the schedule has moved past: its due date, and whether a
\* transaction was registered for it (on a date, with an amount and a status
\* the model leaves out: AdjustWeekend's date and the template's values, or
\* the Override's).
Entry == [due : Days, registered : BOOLEAN]

Idle    == [op |-> "none"]
Pending == {Idle} \cup [op : {"post", "skip"}, id : Schedules, sc : Row]

TypeOK ==
  /\ today \in Clock
  /\ rows \in [Schedules -> Row \cup {NoRow}]
  /\ template \in [Schedules -> {"ok", "noaccount", "gone"}]
  /\ history \in [Schedules -> Seq(Entry)]
  /\ edited \subseteq Schedules
  /\ runPc \in {"idle", "loop", "reload"}
  /\ runDay \in Clock
  /\ todo \subseteq Schedules
  /\ snap \in [Schedules -> Row \cup {NoRow}]
  /\ \A s \in todo : snap[s] \in Row
  /\ posted \in 0 .. CatchUpCap
  /\ pending \in [Handlers -> Pending]

Init ==
  /\ today = 0
  /\ rows = [s \in Schedules |-> NoRow]
  /\ template = [s \in Schedules |-> "ok"]
  /\ history = [s \in Schedules |-> <<>>]
  /\ edited = {}
  /\ runPc = "idle"
  /\ runDay = 0
  /\ todo = {}
  /\ snap = [s \in Schedules |-> NoRow]
  /\ posted = 0
  /\ pending = [h \in Handlers |-> Idle]

\* Spec allows every interleaving, unless Serial: then nobody starts anything
\* on the schedules while a run or another request is between its read and its
\* write.  Nothing in the code enforces that; it is what a quiet server does,
\* and all a crash or a restart can disturb.
NobodyElse == runPc = "idle" /\ \A h \in Handlers : pending[h] = Idle

Alone == Serial => NobodyElse

-----------------------------------------------------------------------------
(***************************************************************************)
(* Helpers                                                                 *)
(***************************************************************************)

\* walletScheduleMonths: outside 0..3 is brought back to it.
walletScheduleMonths(setting) ==
  IF setting < 0 THEN 0 ELSE IF setting > 3 THEN 3 ELSE setting

\* The horizon of one run: the later of the row's days ahead and the wallet's
\* months ahead.
Cutoff(sc, day) ==
  LET months == walletScheduleMonths(PostMonths)
      byDays == day + sc.postAdvance
  IN  IF months > 0 /\ AddDateMonths(day, months) > byDays
      THEN AddDateMonths(day, months)
      ELSE byDays

isDue(sc, day) == sc.nextDue <= Cutoff(sc, day)

\* (Mutant of NextDue: the cadence goes on from the date moved off the weekend.)
NextDueOfPosted(sc) ==
  AddInterval(AdjustWeekend(sc.nextDue, sc.weekendMode).date, sc.unit, sc.everyN)

NextDue(sc) == AddInterval(sc.nextDue, sc.unit, sc.everyN)

Skips(sc) == AdjustWeekend(sc.nextDue, sc.weekendMode).skip

\* (Mutant of Exhausts: off by one.)
ExhaustsAtZero(sc) == sc.remaining # NoLimit /\ sc.remaining <= 0

\* The last occurrence the row is good for.
Exhausts(sc) == sc.remaining # NoLimit /\ sc.remaining <= 1

Advanced(row, sc) ==
  [row EXCEPT !.nextDue = NextDue(sc),
              !.remaining = IF sc.remaining = NoLimit THEN NoLimit ELSE sc.remaining - 1]

\* materialize fails on a template that has lost its account (or is gone).
CanPost(s, sc, post) == (post /\ ~Skips(sc)) => template[s] = "ok"

\* (Mutant of postOnce: the row is written whether it is still there or not.)
postOnceUpsert(s, sc, post) ==
  /\ CanPost(s, sc, post)
  /\ NextDue(sc) \in Days /\ Len(history[s]) < MaxHistory
  /\ history' = [history EXCEPT ![s] =
       Append(@, [due |-> sc.nextDue, registered |-> post /\ ~Skips(sc)])]
  /\ rows' = [rows EXCEPT ![s] = IF Exhausts(sc) THEN NoRow ELSE Advanced(sc, sc)]

\* postOnce's transaction, from the copy sc the caller read some time ago:
\* register the occurrence, then delete the exhausted row or overwrite its
\* next_due and remaining.  Either UPDATE or DELETE affects no row when the
\* row is gone by now; the registered transaction stays.  NextDue(sc) \in Days
\* and MaxHistory bound the model.
postOnce(s, sc, post) ==
  /\ CanPost(s, sc, post)
  /\ NextDue(sc) \in Days /\ Len(history[s]) < MaxHistory
  /\ history' = [history EXCEPT ![s] =
       Append(@, [due |-> sc.nextDue, registered |-> post /\ ~Skips(sc)])]
  /\ rows' = [rows EXCEPT ![s] =
       IF @ = NoRow \/ Exhausts(sc) THEN NoRow ELSE Advanced(@, sc)]

-----------------------------------------------------------------------------
(***************************************************************************)
(* The scheduler goroutine: runScheduler's post(), RunDue                  *)
(***************************************************************************)

\* (Mutant of RunStart: the query leaves out what is not due today, and with it
\* what is due within the horizon.)
RunStartDueToday ==
  /\ Alone
  /\ runPc = "idle"
  /\ runPc' = "loop"
  /\ runDay' = today
  /\ todo' = {s \in Schedules : /\ rows[s] # NoRow /\ rows[s].autoPost
                                /\ rows[s].nextDue <= today}
  /\ snap' = [s \in Schedules |-> IF s \in todo' THEN rows[s] ELSE NoRow]
  /\ posted' = 0
  /\ UNCHANGED <<today, rows, template, history, edited, pending>>

\* ListAllSchedules: one read of the whole table; rows without auto_post are
\* passed over.
RunStart ==
  /\ Alone
  /\ runPc = "idle"
  /\ runPc' = "loop"
  /\ runDay' = today
  /\ todo' = {s \in Schedules : rows[s] # NoRow /\ rows[s].autoPost}
  /\ snap' = [s \in Schedules |-> IF s \in todo' THEN rows[s] ELSE NoRow]
  /\ posted' = 0
  /\ UNCHANGED <<today, rows, template, history, edited, pending>>

Current == CHOOSE s \in todo : \A t \in todo : s <= t

Finished(s) ==
  /\ todo' = todo \ {s}
  /\ snap' = [snap EXCEPT ![s] = NoRow]
  /\ posted' = 0

\* RunDue returns, or dies with the process: its locals are gone.
Forget ==
  /\ runPc' = "idle"
  /\ runDay' = 0
  /\ todo' = {}
  /\ snap' = [s \in Schedules |-> NoRow]
  /\ posted' = 0

\* The row is not due, or the cap on one run is reached: on to the next.
RunNext ==
  /\ runPc = "loop" /\ todo # {}
  /\ ~isDue(snap[Current], runDay) \/ posted = CatchUpCap
  /\ Finished(Current)
  /\ UNCHANGED <<today, rows, template, history, edited, runPc, runDay, pending>>

\* (Mutant of RunPost: no cap on one run.)
RunPostUncapped ==
  /\ runPc = "loop" /\ todo # {}
  /\ isDue(snap[Current], runDay)
  /\ postOnce(Current, snap[Current], TRUE)
  /\ runPc' = "reload"
  /\ posted' = posted + 1
  /\ UNCHANGED <<today, template, edited, runDay, todo, snap, pending>>

RunPost ==
  /\ runPc = "loop" /\ todo # {} /\ posted < CatchUpCap
  /\ isDue(snap[Current], runDay)
  /\ postOnce(Current, snap[Current], TRUE)
  /\ runPc' = "reload"
  /\ posted' = posted + 1
  /\ UNCHANGED <<today, template, edited, runDay, todo, snap, pending>>

\* An error of postOnce ends the whole run: the schedules behind this one are
\* not looked at.
RunFails ==
  /\ runPc = "loop" /\ todo # {} /\ posted < CatchUpCap
  /\ isDue(snap[Current], runDay)
  /\ ~CanPost(Current, snap[Current], TRUE)
  /\ Forget
  /\ UNCHANGED <<today, rows, template, history, edited, pending>>

\* (Mutant of RunReload: the loop goes on with the copy it has.)
RunReloadNot ==
  /\ runPc = "reload"
  /\ runPc' = "loop"
  /\ UNCHANGED <<today, rows, template, history, edited, runDay, todo, snap, posted, pending>>

\* GetSchedule after a posting; a row that is gone ends its turn.
RunReload ==
  /\ runPc = "reload"
  /\ runPc' = "loop"
  /\ IF rows[Current] = NoRow
     THEN Finished(Current)
     ELSE /\ snap' = [snap EXCEPT ![Current] = rows[Current]]
          /\ UNCHANGED <<todo, posted>>
  /\ UNCHANGED <<today, rows, template, history, edited, runDay, pending>>

RunEnd ==
  /\ runPc = "loop" /\ todo = {}
  /\ Forget
  /\ UNCHANGED <<today, rows, template, history, edited, pending>>

-----------------------------------------------------------------------------
(***************************************************************************)
(* The request handlers                                                    *)
(***************************************************************************)

\* InsertSchedule: ids are never used twice, so a row is created only where
\* none has been (AUTOINCREMENT).  validate's read of the template and the
\* INSERT are one step: an account deleted between them leaves what an account
\* deleted right after leaves.
Create(s) ==
  /\ Alone
  /\ "create" \in Ops
  /\ rows[s] = NoRow /\ history[s] = <<>> /\ s \notin edited
  /\ template[s] = "ok"
  /\ \E c \in Configs : rows' = [rows EXCEPT ![s] = c]
  /\ UNCHANGED <<today, template, history, edited, runVars, pending>>

\* UpdateScheduleConfig: one UPDATE of the editable columns, next_due and
\* remaining among them.
Update(s) ==
  /\ Alone
  /\ "update" \in Ops
  /\ rows[s] # NoRow /\ template[s] = "ok"
  /\ \E c \in Configs : rows' = [rows EXCEPT ![s] = c]
  /\ edited' = edited \cup {s}
  /\ UNCHANGED <<today, template, history, runVars, pending>>

Delete(s) ==
  /\ Alone
  /\ "delete" \in Ops
  /\ rows[s] # NoRow
  /\ rows' = [rows EXCEPT ![s] = NoRow]
  /\ edited' = edited \cup {s}
  /\ UNCHANGED <<today, template, history, runVars, pending>>

\* PostNowWith and Skip first read the row ...
ReadForPost(h, s, op) ==
  /\ Alone
  /\ pending[h] = Idle
  /\ rows[s] # NoRow
  /\ pending' = [pending EXCEPT ![h] = [op |-> op, id |-> s, sc |-> rows[s]]]
  /\ UNCHANGED <<today, rows, template, history, edited, runVars>>

\* ... and then run postOnce on it.
PostNow(h, s) ==
  /\ pending[h] # Idle /\ pending[h].op = "post" /\ pending[h].id = s
  /\ postOnce(s, pending[h].sc, TRUE)
  /\ pending' = [pending EXCEPT ![h] = Idle]
  /\ UNCHANGED <<today, template, edited, runVars>>

Skip(h, s) ==
  /\ pending[h] # Idle /\ pending[h].op = "skip" /\ pending[h].id = s
  /\ postOnce(s, pending[h].sc, FALSE)
  /\ pending' = [pending EXCEPT ![h] = Idle]
  /\ UNCHANGED <<today, template, edited, runVars>>

\* An error, a lost client or a rolled-back transaction: nothing is written.
GiveUp(h) ==
  /\ pending[h] # Idle
  /\ pending' = [pending EXCEPT ![h] = Idle]
  /\ UNCHANGED <<today, rows, template, history, edited, runVars>>

\* Deleting an account empties account_id (ON DELETE SET NULL) of a template.
DeleteAccount(s) ==
  /\ Alone
  /\ "deleteAccount" \in Ops
  /\ template[s] = "ok"
  /\ template' = [template EXCEPT ![s] = "noaccount"]
  /\ UNCHANGED <<today, rows, history, edited, runVars, pending>>

\* A template with a schedule is not deleted ...
DeleteTemplate(s) ==
  /\ Alone
  /\ "deleteTemplate" \in Ops
  /\ template[s] # "gone" /\ rows[s] = NoRow
  /\ template' = [template EXCEPT ![s] = "gone"]
  /\ UNCHANGED <<today, rows, history, edited, runVars, pending>>

\* ... but its wallet is, and takes both along (ON DELETE CASCADE).  A schedule
\* created between DeleteTemplate's count and its DELETE goes the same way.
DeleteWallet(s) ==
  /\ Alone
  /\ "deleteWallet" \in Ops
  /\ template[s] # "gone"
  /\ template' = [template EXCEPT ![s] = "gone"]
  /\ rows' = [rows EXCEPT ![s] = NoRow]
  /\ edited' = edited \cup {s}
  /\ UNCHANGED <<today, history, runVars, pending>>

-----------------------------------------------------------------------------
(***************************************************************************)
(* The environment                                                         *)
(***************************************************************************)

Tick ==
  /\ today' \in {day \in Clock : day > today}
  /\ UNCHANGED <<rows, template, history, edited, runVars, pending>>

\* The process dies: what is not committed is forgotten, and the next start
\* runs the scheduler at once (runPc is "idle", and RunStart is enabled).
Crash ==
  /\ "crash" \in Ops
  /\ runPc # "idle" \/ \E h \in Handlers : pending[h] # Idle
  /\ Forget
  /\ pending' = [h \in Handlers |-> Idle]
  /\ UNCHANGED <<today, rows, template, history, edited>>

\* The steps of a run that has started.
RunSteps == RunNext \/ RunPost \/ RunFails \/ RunReload \/ RunEnd

Edits ==
  \E s \in Schedules : \/ Create(s) \/ Update(s) \/ Delete(s)
                       \/ DeleteAccount(s) \/ DeleteTemplate(s) \/ DeleteWallet(s)

Reads ==
  \E h \in Handlers, s \in Schedules, op \in {"post", "skip"} \cap Ops : ReadForPost(h, s, op)

Commits ==
  \E h \in Handlers, s \in Schedules : PostNow(h, s) \/ Skip(h, s)

GiveUps == \E h \in Handlers : GiveUp(h)

Next == RunStart \/ RunSteps \/ Edits \/ Reads \/ Commits \/ GiveUps \/ Tick \/ Crash

Spec == Init /\ [][Next]_vars

\* runScheduler posts at the start and then on an hourly ticker, and a run
\* goes through to its end; nothing promises that a user asks for anything or
\* that time passes.
FairSpec == Spec /\ WF_vars(RunStart) /\ WF_vars(RunSteps)

-----------------------------------------------------------------------------
(***************************************************************************)
(* Properties                                                              *)
(***************************************************************************)

Registered(s) == {i \in DOMAIN history[s] : history[s][i].registered}

\* The package comment's promise (service.go:4): each occurrence of a series
\* is registered at most once, whatever crashes and restarts come between.
OncePerOccurrence ==
  \A s \in Schedules \ edited : \A i, j \in Registered(s) :
    history[s][i].due = history[s][j].due => i = j

\* Why that holds when nothing overlaps.  The copy of a row held by the run, or
\* by the one request there may be, is the row itself ...
Fresh ==
  /\ runPc = "idle" => todo = {}
  /\ runPc = "loop" => \A s \in todo : snap[s] = rows[s]
  /\ runPc = "reload" => todo # {} /\ \A s \in todo \ {Current} : snap[s] = rows[s]
  /\ runPc # "idle" => \A h \in Handlers : pending[h] = Idle
  /\ \A h \in Handlers : pending[h] # Idle => rows[pending[h].id] = pending[h].sc
  /\ \A g, h \in Handlers : pending[g] # Idle /\ pending[h] # Idle => g = h

\* ... and the occurrences moved past are in order, all before the next one.
Ordered ==
  \A s \in Schedules \ edited : \A i \in DOMAIN history[s] :
    /\ \A j \in DOMAIN history[s] : i < j => history[s][i].due < history[s][j].due
    /\ rows[s] # NoRow => history[s][i].due < rows[s].nextDue

SerialInv == Fresh /\ Ordered

\* No occurrence is lost: those moved past, registered or not, follow one
\* another at the cadence, and the row's next_due is the one after the last.
NoGaps ==
  \A s \in Schedules \ edited : \A i \in DOMAIN history[s] :
    /\ i > 1 => history[s][i - 1].due < history[s][i].due
    /\ rows[s] # NoRow =>
         (IF i = Len(history[s]) THEN rows[s].nextDue
                                 ELSE history[s][i + 1].due)
           = AddInterval(history[s][i].due, rows[s].unit, rows[s].everyN)

\* A schedule limited to so many occurrences moves past that many and is then
\* gone: what is left and what was done add up to one of the limits it could
\* have been created with, and a row from which something was posted has
\* something left.
LimitKept ==
  \A s \in Schedules \ edited :
    rows[s] # NoRow /\ rows[s].remaining # NoLimit =>
      /\ history[s] # <<>> => rows[s].remaining >= 1
      /\ \E c \in Configs : /\ c.remaining # NoLimit
                            /\ c.remaining = rows[s].remaining + Len(history[s])

\* A schedule that was deleted, by a user, by its template or by its last
\* occurrence, never comes back, even when a posting that read it before
\* commits after.
StaysGone ==
  \A s \in Schedules : rows[s] = NoRow /\ rows'[s] # NoRow
    => history[s] = <<>> /\ s \notin edited

GoneForGood == [][StaysGone]_vars

\* RunDue's own comment (service.go:328): it posts every due occurrence of
\* every auto-post schedule, catching up after downtime.  For a schedule whose
\* template is whole:
Healthy(s) == rows[s] # NoRow /\ rows[s].autoPost /\ template[s] = "ok"
Overdue(s) == Healthy(s) /\ isDue(rows[s], today)

EveryDueIsPosted == \A s \in Schedules : []<>~Overdue(s)
=============================================================================
