------------------------------- MODULE MCEnds -------------------------------
(* What must happen in the end, in small: every due occurrence of a schedule is *)
(* posted, every message is told or given up, and every change of a setting     *)
(* settles and every tab shows it.  A behaviour is of one of the three, and     *)
(* fair to it.                                                                  *)
EXTENDS Schedule

CONSTANTS
  Parts,   \* those this instance runs
  Tabs,    \* of one browser
  None

VARIABLES
  part,   \* the one this behaviour is of
  hour, prefs, digestKinds, quietHours, walletOff, address, reminders, bell, held,
  queue, call, worker, recent, called, sends, dropped, faults, edits, polled, log,
  copies, saves, job, fetch, inbox, made, adrift, lost

OneChange == {{"nav", "theme"}}

MCDays  == 0 .. 180
MCClock == {0, 40, 75}

\* 30 = Wednesday 31 January; 33 = Saturday 3 February.
Cfg(unit, n, due, mode, rem) ==
  [unit |-> unit, everyN |-> n, nextDue |-> due, weekendMode |-> mode,
   remaining |-> rem, postAdvance |-> 0, autoPost |-> TRUE]
AutoPosted == { Cfg("month", 1, 30, WeekendAfter, NoLimit), Cfg("week", 1, 33, WeekendSkip, 3) }
MCRows     == {"create", "delete", "deleteWallet"}
MCAccounts == {"create", "deleteAccount"}

-----------------------------------------------------------------------------
N == INSTANCE Notify
  WITH Events <- {"b"}, NoEvent <- None, KindOf <- [b |-> "large"],
       RefOf <- [b |-> None], Kinds <- {"large"}, GroupOf <- [large |-> "other"],
       DefaultOn <- {"large"} \X {"email", "inapp"}, Refs <- {"r"}, NoRef <- None,
       WalletEvents <- {"b"}, Channels <- {"email"}, InApp <- "inapp",
       Addressed <- {"email"}, ViaInstallation <- {"email"}, HourlyLimit <- 1,
       Backoffs <- 1, Callers <- {1}, Hours <- 3, QuietSpan <- {2}, DigestHour <- 1,
       Ops <- {"channels", "digest", "abort", "wallet"}, MaxRows <- 3, MaxFaults <- 0,
       MaxEdits <- 1
P == INSTANCE Preferences
  WITH Joined <- Tabs, PrefKeys <- {"columns", "nav"}, AccountKeys <- {"theme"},
       Changes <- OneChange, Retries <- 1, MaxSaves <- 2, MaxFaults <- 2,
       queue <- saves, faults <- lost, shown <- copies

\* Variables a part does not have are None in its behaviours; those of Schedule stay at their
\* start.
PartsInit ==
  /\ part \in Parts
  /\ Init
  /\ \/ /\ part = "schedules"
        /\ hour = None /\ prefs = None /\ digestKinds = None /\ quietHours = None
        /\ walletOff = None /\ address = None /\ reminders = None /\ bell = None
        /\ held = None /\ queue = None /\ call = None /\ worker = None
        /\ recent = None /\ called = None /\ sends = None /\ dropped = None
        /\ faults = None /\ edits = None /\ polled = None /\ log = None
        /\ copies = None /\ saves = None /\ job = None /\ fetch = None
        /\ inbox = None /\ made = None /\ adrift = None /\ lost = None
     \/ /\ part = "notices" /\ N!Init
        /\ log = None /\ copies = None /\ saves = None /\ job = None /\ fetch = None
        /\ inbox = None /\ made = None /\ adrift = None /\ lost = None
     \/ /\ part = "settings" /\ P!Init
        /\ hour = None /\ prefs = None /\ digestKinds = None /\ quietHours = None
        /\ walletOff = None /\ address = None /\ reminders = None /\ bell = None
        /\ held = None /\ queue = None /\ call = None /\ worker = None
        /\ recent = None /\ called = None /\ sends = None /\ dropped = None
        /\ faults = None /\ edits = None /\ polled = None

PartsNext ==
  /\ UNCHANGED part
  /\ \/ /\ part = "schedules" /\ Next
        /\ UNCHANGED <<hour, prefs, digestKinds, quietHours, walletOff, address,
                      reminders, bell, held, queue, call, worker, recent, called, sends,
                      dropped, faults, edits, polled, log, copies, saves, job, fetch,
                      inbox, made, adrift, lost>>
     \/ /\ part = "notices" /\ N!Next
        /\ UNCHANGED <<vars, log, copies, saves, job, fetch, inbox, made, adrift, lost>>
     \/ /\ part = "settings" /\ P!Next
        /\ UNCHANGED <<vars, hour, prefs, digestKinds, quietHours, walletOff, address,
                      reminders, bell, held, queue, call, worker, recent, called, sends,
                      dropped, faults, edits, polled>>

partsVars == <<part, vars, hour, prefs, digestKinds, quietHours, walletOff,
    address, reminders, bell, held, queue, call, worker, recent, called, sends, dropped,
    faults, edits, polled, log, copies, saves, job, fetch, inbox, made, adrift, lost>>

PartsSpec == PartsInit /\ [][PartsNext]_partsVars

\* In each part what its module says is fair (FairSpec).
noticeVars   == N!vars
settingsVars == P!vars
PartsFairSpec ==
  /\ PartsSpec
  /\ WF_vars(part = "schedules" /\ RunStart)
  /\ WF_vars(part = "schedules" /\ RunSteps)
  /\ WF_noticeVars(part = "notices" /\ N!Wake)
  /\ WF_noticeVars(part = "notices" /\ N!Release)
  /\ WF_noticeVars(part = "notices" /\ N!Deliver)
  /\ WF_noticeVars(part = "notices" /\ N!HourPasses)
  /\ WF_noticeVars(part = "notices" /\ \E d \in queue : N!ComesDue(d))
  /\ WF_noticeVars(part = "notices" /\ N!Expire("email"))
  /\ \A t \in Tabs : /\ WF_settingsVars(part = "settings" /\ P!Saving(t))
                     /\ WF_settingsVars(part = "settings" /\ P!FetchMe(t))
                     /\ WF_settingsVars(part = "settings" /\ P!FetchedMe(t))
                     /\ WF_settingsVars(part = "settings" /\ P!Hear(t))

-----------------------------------------------------------------------------
\* Every message that is accepted is told or given up (notify/queue.go).
EveryMessageEnds ==
  \A m \in N!Messages : []<>(part = "notices" => m \notin N!waiting)

\* No save hangs: each settles, whatever was refused, lost or saved by another tab
\* meanwhile (preferences.ts).
EverySaveSettles == \A t \in Tabs : []<>(part = "settings" => saves[t] = <<>>)

\* Once nobody saves any more, every open tab comes to show what is stored,
\* whatever order answers and broadcasts came in (preferences.ts, AuthProvider.tsx).
TabsConverge == <>[](part = "settings" => \A t \in Tabs : copies[t] = P!Stored)
=============================================================================
