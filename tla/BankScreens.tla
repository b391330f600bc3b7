---------------------------- MODULE BankScreens ----------------------------
(***************************************************************************)
(* A bank connection's card in Settings (web: BankSyncPage.tsx), the row of *)
(* the register that syncs it, and the schedule's hour and days, stored in  *)
(* UTC and chosen in the reader's own time (web: schedule.ts).              *)
(*                                                                         *)
(* The card works from the copies its queries cached; each control sends a  *)
(* call at once, several may be in flight, and the server takes them in any *)
(* order.                                                                   *)
(***************************************************************************)
EXTENDS Integers, FiniteSets

CONSTANTS
  Offset,       \* getTimezoneOffset(): minutes from local time to UTC
  Hours, Days,  \* the local hours and weekdays the reader may touch
  Remotes,      \* the bank's accounts
  Accounts,     \* the wallet's accounts
  MaxCalls,     \* bound: calls made
  None

VARIABLES
  conn,         \* the server's connection: [auto, hour, days] (UTC), or None when removed
  links,        \* its links: remote account -> account or None
  runs,         \* its kept sync runs: 0 none, 1 some
  seen,         \* the cached connection: [auto, hour, days, linked], or None
  seenLinks,    \* the cached remote accounts
  stale,        \* the queries invalidated and not yet fetched again
  calls,        \* the calls in flight: [no, kind, arg]
  latest,       \* control -> its latest call, the one its spinner follows
  asking,       \* the confirmation on the screen: "remove", "clearHistory" or None
  historyOpen,
  made,
  chosen        \* the schedules the reader asked for, in local time (only a property reads it)

cardVars == <<conn, links, runs, seen, seenLinks, stale, calls, latest, asking, historyOpen, made, chosen>>

AllDays == 0 .. 6
Kinds == {"sync", "remove", "reconnect", "autoSync", "schedule", "link", "clearHistory", "rowSync"}

\* (Mutant: the day moves only forward.)
dayDeltaForward(total) == IF total < 0 THEN 0 ELSE total \div (24 * 60)

\* How many days the conversion moves an hour by: -1, 0 or 1.
dayDelta(total) == total \div (24 * 60)

Moved(total, days) == [hour |-> (total \div 60) % 24, days |-> {(d + dayDelta(total)) % 7 : d \in days}]

localScheduleToUtc(hour, days) == Moved(hour * 60 + Offset, days)
utcScheduleToLocal(hour, days) == Moved(hour * 60 - Offset, days)

\* What the theorem asks of the constants: zones of whole hours (those of half an hour shift
\* the hours and days of a schedule), and times there are.
ScreenConstants == /\ Offset \in Int /\ Offset % 60 = 0
                   /\ Hours \subseteq 0 .. 23 /\ Days \subseteq AllDays

Linked == {links[r] : r \in Remotes} \ {None}
Cached == IF conn = None THEN None
          ELSE [auto |-> conn.auto, hour |-> conn.hour, days |-> conn.days, linked |-> Linked]

Init == /\ conn = [auto |-> TRUE, hour |-> 3, days |-> AllDays]
        /\ links = [r \in Remotes |-> None]
        /\ runs = 0
        /\ seen = Cached /\ seenLinks = links
        /\ stale = {} /\ calls = {} /\ latest = [k \in Kinds |-> 0]
        /\ asking = None /\ historyOpen = FALSE /\ made = 0
        /\ chosen = {utcScheduleToLocal(3, AllDays)}

server == <<conn, links, runs>>
cache == <<seen, seenLinks, stale>>

isPending(kind) == \E c \in calls : c.kind = kind /\ c.no = latest[kind]

mutate(kind, arg) == /\ made < MaxCalls
                     /\ made' = made + 1
                     /\ calls' = calls \cup {[no |-> made', kind |-> kind, arg |-> arg]}
                     /\ latest' = [latest EXCEPT ![kind] = made']
                     /\ UNCHANGED <<server, cache, historyOpen>>

\* The header: "Reconnect" (an Enable Banking consent), "Sync now", and the bin, which asks.
Header == \/ \E k \in {"reconnect", "sync"} : ~isPending(k) /\ mutate(k, None) /\ UNCHANGED <<asking, chosen>>
          \/ /\ ~isPending("remove") /\ asking' = "remove"
             /\ UNCHANGED <<server, cache, calls, latest, historyOpen, made, chosen>>

\* The confirmation is over the page until it is answered.
Confirmed(yes) == /\ asking # None
                  /\ asking' = None
                  /\ IF yes THEN mutate(asking, None)
                     ELSE UNCHANGED <<server, cache, calls, latest, historyOpen, made>>
                  /\ UNCHANGED chosen

localSchedule == utcScheduleToLocal(seen.hour, seen.days)

\* The whole schedule goes, the half that was not touched as it was last seen. The
\* server takes no day at all for every day.
SendSchedule(hour, days) ==
  /\ mutate("schedule", localScheduleToUtc(hour, days))
  /\ chosen' = chosen \cup {[hour |-> hour, days |-> IF days = {} THEN AllDays ELSE days]}
  /\ UNCHANGED asking

\* The switch; the hour, which waits for the schedule before it; the days, which do not.
AutoSync ==
  \/ mutate("autoSync", ~seen.auto) /\ UNCHANGED <<asking, chosen>>
  \/ /\ seen.auto
     /\ \/ ~isPending("schedule") /\ \E h \in Hours : SendSchedule(h, localSchedule.days)
        \/ \E d \in Days : SendSchedule(localSchedule.hour,
             IF d \in localSchedule.days THEN localSchedule.days \ {d} ELSE localSchedule.days \cup {d})

\* Each remote account's picker: another account, or none.
LinkPicker == \E r \in Remotes, a \in Accounts \cup {None} :
  /\ seenLinks[r] # a
  /\ mutate("link", [remote |-> r, account |-> a])
  /\ UNCHANGED <<asking, chosen>>

\* The history opens and closes; clearing it asks first.
History ==
  \/ historyOpen' = ~historyOpen /\ UNCHANGED <<server, cache, calls, latest, asking, made, chosen>>
  \/ /\ historyOpen /\ ~isPending("clearHistory") /\ asking' = "clearHistory"
     /\ UNCHANGED <<server, cache, calls, latest, historyOpen, made, chosen>>

ConnectionCard == seen # None /\ asking = None /\ (Header \/ AutoSync \/ LinkPicker \/ History)

\* The register's row is there when the account is linked, and syncs the connection.
RegisterBankRow == /\ seen # None /\ seen.linked # {} /\ asking = None
                   /\ ~isPending("rowSync")
                   /\ mutate("rowSync", None)
                   /\ UNCHANGED <<asking, chosen>>

\* What the server makes of a call; of a connection that is gone, nothing.
Sync == runs' = 1 /\ UNCHANGED <<conn, links>>
RemoveConnection == conn' = None /\ links' = [r \in Remotes |-> None] /\ runs' = 0
SetAutoSync(on) == conn' = [conn EXCEPT !.auto = on] /\ UNCHANGED <<links, runs>>
SetSchedule(s) == /\ conn' = [conn EXCEPT !.hour = s.hour, !.days = IF s.days = {} THEN AllDays ELSE s.days]
                  /\ UNCHANGED <<links, runs>>
Link(v) == links' = [links EXCEPT ![v.remote] = v.account] /\ UNCHANGED <<conn, runs>>
ClearHistory == runs' = 0 /\ UNCHANGED <<conn, links>>

Served(c) == CASE c.kind \in {"sync", "rowSync"} -> Sync
               [] c.kind = "remove" -> RemoveConnection
               [] c.kind = "autoSync" -> SetAutoSync(c.arg)
               [] c.kind = "schedule" -> SetSchedule(c.arg)
               [] c.kind = "link" -> Link(c.arg)
               [] c.kind = "clearHistory" -> ClearHistory
               [] OTHER -> UNCHANGED server

\* What a success has fetched again.
Invalidated(kind) == CASE kind = "link" -> {"bankRemote"}
                       [] kind = "clearHistory" -> {"bankHistory"}
                       [] kind = "sync" -> {"bankConnections", "bankRemote", "bankHistory"}
                       [] OTHER -> {"bankConnections"}

others == <<seen, seenLinks, latest, asking, historyOpen, made, chosen>>

Succeed(c) == /\ conn # None
              /\ calls' = calls \ {c}
              /\ Served(c)
              /\ stale' = stale \cup Invalidated(c.kind)
              /\ UNCHANGED others

\* A refusal says so and fetches nothing; a lost answer the same, though it was done.
Fail(c) == /\ calls' = calls \ {c}
           /\ UNCHANGED server \/ (conn # None /\ Served(c))
           /\ UNCHANGED <<stale, others>>

\* The fetches that follow; a removed connection takes its card away.
Refetch(q) == /\ q \in stale
              /\ stale' = stale \ {q}
              /\ IF q = "bankConnections" THEN seen' = Cached ELSE UNCHANGED seen
              /\ IF q = "bankRemote" THEN seenLinks' = links ELSE UNCHANGED seenLinks
              /\ UNCHANGED <<server, calls, latest, asking, historyOpen, made, chosen>>

\* The window is focused again, or the page opened: everything is fetched again.
Focused == /\ stale' = {"bankConnections", "bankRemote", "bankHistory"}
           /\ UNCHANGED <<server, seen, seenLinks, calls, latest, asking, historyOpen, made, chosen>>

Next == \/ ConnectionCard \/ RegisterBankRow \/ Focused
        \/ \E yes \in BOOLEAN : Confirmed(yes)
        \/ \E c \in calls : Succeed(c) \/ Fail(c)
        \/ \E q \in stale : Refetch(q)

Spec == Init /\ [][Next]_cardVars

----------------------------------------------------------------------------

\* Types: an hour of the day, weekdays, and never a schedule without a day.
TypeOK == /\ conn # None => conn.hour \in 0 .. 23 /\ conn.days \subseteq AllDays /\ conn.days # {}
          /\ links \in [Remotes -> Accounts \cup {None}]
          /\ asking \in {None, "remove", "clearHistory"}
          /\ \A c \in calls : c.no <= made /\ c.kind \in Kinds

\* The card shows a schedule the reader asked for, hour and days together, in whatever
\* order the calls were taken and however often it went to UTC and back ("every weekday
\* at 01:00 stays correct far from UTC", schedule.ts:4).
ShownWasChosen == seen # None => localSchedule \in chosen
=============================================================================
