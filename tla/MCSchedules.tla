---------------------------- MODULE MCSchedules -----------------------------
(* The schedules in small: the server's rows and the scheduler, on days from  *)
(* 26 January 2024 so that month steps meet the end of January and the leap   *)
(* February; the calendar they count on, walked day by day; and the page that *)
(* lists them, on 10 February 2024.  A behaviour is of one of the three.      *)
EXTENDS Schedule

CONSTANTS
  Parts,   \* those this instance runs
  Fails, Overlap,   \* of the page
  None

VARIABLES
  part,   \* the one this behaviour is of
  day, year, month, dom, schedules, listed, seen, stale, loaded, url, opened, occ,
  sheet, fields, seed, walk, applying, drafts, calls, made, edits, done, saved

MCDays  == 0 .. 180
MCClock == {0, 40, 75}

Cfg(unit, n, due, mode, rem, auto) ==
  [unit |-> unit, everyN |-> n, nextDue |-> due, weekendMode |-> mode,
   remaining |-> rem, postAdvance |-> 0, autoPost |-> auto]

\* 30 = Wednesday 31 January; 33 and 34 = Saturday 3 and Sunday 4 February.
MCConfigs ==
  { Cfg("month", 1, 30, WeekendAfter, NoLimit, TRUE),
    Cfg("week", 1, 33, WeekendSkip, 3, TRUE),
    Cfg("day", 30, 34, WeekendBefore, 2, FALSE) }

AllOps == {"create", "update", "delete", "deleteAccount", "deleteTemplate", "deleteWallet",
           "post", "skip", "crash"}

\* The page: a salary that registers itself, and a rent late and near its end.
Salary == [next |-> 36, amount |-> 9, payee |-> "p1", kept |-> 1, auto |-> TRUE,
           transfer |-> FALSE, left |-> None]
Rent == [next |-> 30, amount |-> -4, payee |-> None, kept |-> 0, auto |-> FALSE,
         transfer |-> FALSE, left |-> 3]
Two == [s1 |-> Salary, s2 |-> Rent]
AIRows == [s1 |-> None, s2 |-> -6]
TheFound == [amount |-> -2, payee |-> "p2", next |-> 45]

-----------------------------------------------------------------------------
W == INSTANCE CalendarWalk
  WITH LastDay <- 1500, Steps <- {1, 2, 3, 5, 13}
P == INSTANCE SchedulesPage
  WITH Existing <- Two, Fresh <- "s3", Found <- TheFound, Raised <- AIRows, Today <- 40,
       WeekStart <- 0, MaxCalls <- 2, MaxEdits <- 2, posted <- listed, rows <- drafts

\* Variables a part does not have are None in its behaviours; those of Schedule stay at their
\* start.
PartsInit ==
  /\ part \in Parts
  /\ Init
  /\ \/ /\ part = "core"
        /\ day = None /\ year = None /\ month = None /\ dom = None
        /\ schedules = None /\ listed = None /\ seen = None /\ stale = None
        /\ loaded = None /\ url = None /\ opened = None /\ occ = None
        /\ sheet = None /\ fields = None /\ seed = None /\ walk = None
        /\ applying = None /\ drafts = None /\ calls = None /\ made = None
        /\ edits = None /\ done = None /\ saved = None
     \/ /\ part = "walk" /\ W!Init
        /\ schedules = None /\ listed = None /\ seen = None /\ stale = None
        /\ loaded = None /\ url = None /\ opened = None /\ occ = None
        /\ sheet = None /\ fields = None /\ seed = None /\ walk = None
        /\ applying = None /\ drafts = None /\ calls = None /\ made = None
        /\ edits = None /\ done = None /\ saved = None
     \/ /\ part = "page" /\ P!Init
        /\ day = None /\ year = None /\ month = None /\ dom = None

PartsNext ==
  /\ UNCHANGED part
  /\ \/ /\ part = "core" /\ Next
        /\ UNCHANGED <<day, year, month, dom, schedules, listed, seen, stale, loaded,
                      url, opened, occ, sheet, fields, seed, walk, applying, drafts,
                      calls, made, edits, done, saved>>
     \/ /\ part = "walk" /\ W!Next
        /\ UNCHANGED <<vars, schedules, listed, seen, stale, loaded, url, opened, occ,
                      sheet, fields, seed, walk, applying, drafts, calls, made, edits,
                      done, saved>>
     \/ /\ part = "page" /\ P!Next
        /\ UNCHANGED <<vars, day, year, month, dom>>

partsVars == <<part, vars, day, year, month, dom, schedules, listed, seen, stale,
    loaded, url, opened, occ, sheet, fields, seed, walk, applying, drafts, calls, made,
    edits, done, saved>>

PartsSpec == PartsInit /\ [][PartsNext]_partsVars

-----------------------------------------------------------------------------
ASSUME WalkedConstants == W!WalkConstants
ASSUME ShownConstants == P!PageConstants

\* The calendar of the recurrence is the one everybody knows: months clamp to
\* their last day, a step always moves on, the horizon of the scheduler reaches
\* every step, and an occurrence moved off a weekend lands on the weekday the
\* mode names, in order (recurrence.go, schedule/service.go).
StepsKeepTheCalendar == part = "walk" => W!StepsKeepTheCalendar

\* What a press on the page does is done to the occurrence it shows; a row of
\* another page's proposal is done only once its schedule is saved or deleted;
\* and a save leaves what the reader did not touch (SchedulesPage.tsx,
\* ScheduleSheet.tsx).
ActsOnWhatIsShown ==
  part = "page" => /\ P!TypeOK /\ P!ActsOnWhatIsShown
                   /\ P!AppliedIsDone /\ P!UneditedKept
=============================================================================
