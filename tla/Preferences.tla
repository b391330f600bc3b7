----------------------------- MODULE Preferences -----------------------------
(***************************************************************************)
(* The signed-in user's settings (web: api/preferences.ts; server:         *)
(* httpapi/auth.go updateMe).  Every tab keeps a copy of /auth/me and      *)
(* writes through saveMe: the change shows at once, writes of a tab go one *)
(* at a time, each is built from the tab's latest copy and names the       *)
(* revision that copy had, and the server refuses a stale one.             *)
(*                                                                         *)
(* What makes it hard: four things put a copy in the cache (a change not   *)
(* sent yet, the answer to a write, the answer to a read, another tab's    *)
(* broadcast), the server fills in what a request leaves out from the row  *)
(* it read before, and answers arrive in any order.                        *)
(***************************************************************************)
EXTENDS Naturals, Sequences, FiniteSets

CONSTANTS
  Tabs,         \* pages of the web client that are open
  Joined,       \* those of them in one browser, which hear each other's saves
  PrefKeys,     \* settings inside the preferences object
  AccountKeys,  \* locale and theme, columns of their own
  Changes,      \* the sets of settings one save may touch
  Retries,      \* RETRIES
  MaxSaves,     \* bound: saves asked for
  MaxFaults     \* bound: answers the network loses

Keys == PrefKeys \cup AccountKeys

VARIABLES
  log,      \* every version the user's row has had; the last one is stored
  shown,    \* per tab, the cached user: settings and their revision
  queue,    \* per tab, the saves asked for and not settled; the first is running
  job,      \* per tab, where its running save is
  fetch,    \* per tab, the answer of a me query on its way, if any
  inbox,    \* per joined tab, the broadcasts it has not heard yet
  made,     \* saves asked for so far; a save's number is the value it sets
  adrift,   \* tabs whose last failure left a change in their copy
  faults    \* answers lost so far

vars == <<log, shown, queue, job, fetch, inbox, made, adrift, faults>>

Values   == 0 .. MaxSaves
Doc      == [Keys -> Values]
Change   == [id : 1 .. MaxSaves, keys : Changes]
Copy     == [doc : Doc, rev : Nat]
NoCopy   == [rev |-> "none"]

Steps == {"idle", "sent", "loaded", "written", "answered",
          "reread", "fresh", "undo", "undone"}
NoJob == [at |-> "idle", tries |-> 0]

Rev    == Len(log) - 1
Stored == [doc |-> log[Len(log)], rev |-> Rev]

\* withChange: user with a change over it, as the server will store it.
WithChange(user, c) ==
  [user EXCEPT !.doc = [k \in Keys |-> IF k \in c.keys THEN c.id ELSE @[k]]]

InPrefs(c) == c.keys \cap PrefKeys # {}

Init ==
  /\ log    = << [k \in Keys |-> 0] >>
  /\ shown  = [t \in Tabs |-> Stored]
  /\ queue  = [t \in Tabs |-> <<>>]
  /\ job    = [t \in Tabs |-> NoJob]
  /\ fetch  = [t \in Tabs |-> NoCopy]
  /\ inbox  = [t \in Joined |-> <<>>]
  /\ made   = 0
  /\ adrift = {}
  /\ faults = 0

----------------------------------------------------------------------------
(* saveMe, on the tab. *)

\* A save's turn: it cancels a read under way and sends a body built from the
\* copy of this moment: the whole preferences object and its revision, or only
\* the account columns it changes.
Sent(c, copy, tries) ==
  [at |-> "sent", tries |-> tries, body |-> WithChange(copy, c)]

\* The copy takes the change at once, and the save joins the queue: an idle
\* queue starts it before anything else happens in the tab.
Ask(t, ks) ==
  /\ made < MaxSaves
  /\ made' = made + 1
  /\ LET c    == [id |-> made + 1, keys |-> ks]
         copy == WithChange(shown[t], c)
     IN  /\ shown' = [shown EXCEPT ![t] = copy]
         /\ queue' = [queue EXCEPT ![t] = Append(@, c)]
         /\ IF queue[t] = <<>>
              THEN /\ job' = [job EXCEPT ![t] = Sent(c, copy, 0)]
                   /\ fetch' = [fetch EXCEPT ![t] = NoCopy]
              ELSE UNCHANGED <<job, fetch>>
  /\ UNCHANGED <<log, inbox, adrift, faults>>

\* Mutant: the queue hangs on the promise of the save before.
SettleStop(t, copy) ==
  /\ shown' = [shown EXCEPT ![t] = copy]
  /\ queue' = [queue EXCEPT ![t] = Tail(@)]
  /\ job' = [job EXCEPT ![t] = NoJob]

\* The running save is over, leaving `copy` in the cache; the next one starts.
Settle(t, copy) ==
  LET rest == Tail(queue[t]) IN
  /\ shown' = [shown EXCEPT ![t] = copy]
  /\ queue' = [queue EXCEPT ![t] = rest]
  /\ job' = [job EXCEPT ![t] = IF rest = <<>> THEN NoJob ELSE Sent(Head(rest), copy, 0)]

\* The session's middleware reads the user; updateMe takes from it what the
\* body leaves out.
Load(t) ==
  /\ job[t].at = "sent"
  /\ job' = [job EXCEPT ![t] = [at |-> "loaded", tries |-> @.tries, body |-> @.body,
                                user |-> Stored.doc]]
  /\ UNCHANGED <<log, shown, queue, fetch, inbox, made, adrift, faults>>

\* What UpdateUserSettings writes for the request of tab t.
Written(t) ==
  LET c == Head(queue[t]) IN
  [k \in Keys |->
     IF k \in c.keys \/ (k \in PrefKeys /\ InPrefs(c)) THEN job[t].body.doc[k]
                                                       ELSE job[t].user[k]]

IsStale(t) == InPrefs(Head(queue[t])) /\ job[t].body.rev # Rev

\* What follows a refusal (409): the tab reads the stored settings and tries
\* again, RETRIES times.
Refusal(j) == [at |-> IF j.tries >= Retries THEN "undo" ELSE "reread", tries |-> j.tries]

\* UpdateUserSettings: one statement, which a stale revision makes a refusal.
Write(t) ==
  /\ job[t].at = "loaded"
  /\ IF IsStale(t)
       THEN /\ job' = [job EXCEPT ![t] = Refusal(@)]
            /\ UNCHANGED log
       ELSE /\ job' = [job EXCEPT ![t] = [at |-> "written", tries |-> @.tries]]
            /\ log' = Append(log, Written(t))
  /\ UNCHANGED <<shown, queue, fetch, inbox, made, adrift, faults>>

\* The server reads the row again for its answer: of the write, of a reread
\* after a refusal, of the read that undoes a failed save.
Answer(t) ==
  /\ \E step \in {<<"written", "answered">>, <<"reread", "fresh">>, <<"undo", "undone">>} :
       /\ job[t].at = step[1]
       /\ job' = [job EXCEPT ![t] = [at |-> step[2], tries |-> @.tries, copy |-> Stored]]
  /\ UNCHANGED <<log, shown, queue, fetch, inbox, made, adrift, faults>>

\* A write that landed: the answer becomes the copy, and the other tabs of the
\* browser are told (its own listener hears it too, never newer than its copy).
Saved(t) ==
  /\ job[t].at = "answered"
  /\ Settle(t, job[t].copy)
  /\ fetch' = [fetch EXCEPT ![t] = NoCopy]
  /\ adrift' = adrift \ {t}
  /\ inbox' = IF t \in Joined THEN [u \in Joined |-> IF u = t THEN inbox[u]
                                                          ELSE Append(inbox[u], job[t].copy)]
                            ELSE inbox
  /\ UNCHANGED <<log, made, faults>>

\* The refused save starts again from the stored settings.
Reread(t) ==
  /\ job[t].at = "fresh"
  /\ LET copy == WithChange(job[t].copy, Head(queue[t]))
     IN  /\ shown' = [shown EXCEPT ![t] = copy]
         /\ job' = [job EXCEPT ![t] = Sent(Head(queue[t]), copy, @.tries + 1)]
  /\ fetch' = [fetch EXCEPT ![t] = NoCopy]
  /\ adrift' = adrift \ {t}
  /\ UNCHANGED <<log, queue, inbox, made, faults>>

\* A read under way goes on unless the next save of the queue cancels it.
KeepReading(t) ==
  fetch' = IF Len(queue[t]) > 1 THEN [fetch EXCEPT ![t] = NoCopy] ELSE fetch

\* A save that failed: back to what the server keeps.
Undone(t) ==
  /\ job[t].at = "undone"
  /\ Settle(t, job[t].copy)
  /\ KeepReading(t)
  /\ adrift' = adrift \ {t}
  /\ UNCHANGED <<log, inbox, made, faults>>

\* The write's request or its answer is lost (the write itself may be stored).
LoseWrite(t) ==
  /\ faults < MaxFaults
  /\ faults' = faults + 1
  /\ job[t].at \in {"sent", "loaded", "written", "answered"}
  /\ job' = [job EXCEPT ![t] = [at |-> "undo", tries |-> @.tries]]
  /\ UNCHANGED <<log, shown, queue, fetch, inbox, made, adrift>>

\* The read that would put the copy right is lost: the change stays shown.
LoseRead(t) ==
  /\ faults < MaxFaults
  /\ faults' = faults + 1
  /\ job[t].at \in {"reread", "fresh", "undo", "undone"}
  /\ adrift' = adrift \cup {t}
  /\ Settle(t, shown[t])
  /\ KeepReading(t)
  /\ UNCHANGED <<log, inbox, made>>

----------------------------------------------------------------------------
(* The other ways a copy reaches the cache. *)

\* The me query runs (a page is mounted, the window is focused): the server
\* reads the row, and the answer arrives later unless it is cancelled first.
FetchMe(t) ==
  /\ fetch[t] = NoCopy
  /\ fetch' = [fetch EXCEPT ![t] = Stored]
  /\ UNCHANGED <<log, shown, queue, job, inbox, made, adrift, faults>>

\* Mutant: only a newer answer is taken.
FetchedMeNewer(t) ==
  /\ fetch[t] # NoCopy
  /\ shown' = [shown EXCEPT ![t] = IF fetch[t].rev > @.rev THEN fetch[t] ELSE @]
  /\ fetch' = [fetch EXCEPT ![t] = NoCopy]
  /\ UNCHANGED <<log, queue, job, inbox, made, adrift, faults>>

FetchedMe(t) ==
  /\ fetch[t] # NoCopy
  /\ shown' = [shown EXCEPT ![t] = fetch[t]]
  /\ fetch' = [fetch EXCEPT ![t] = NoCopy]
  /\ adrift' = adrift \ {t}
  /\ UNCHANGED <<log, queue, job, inbox, made, faults>>

\* followOtherTabs: only a newer copy is taken.
Hear(t) ==
  /\ inbox[t] # <<>>
  /\ inbox' = [inbox EXCEPT ![t] = Tail(@)]
  /\ LET next == Head(inbox[t])
     IN  IF next.rev > shown[t].rev
           THEN /\ shown' = [shown EXCEPT ![t] = next]
                /\ adrift' = adrift \ {t}
           ELSE UNCHANGED <<shown, adrift>>
  /\ UNCHANGED <<log, queue, job, fetch, made, faults>>

----------------------------------------------------------------------------
Saving(t) ==
  \/ Load(t) \/ Write(t) \/ Answer(t)
  \/ Saved(t) \/ Reread(t) \/ Undone(t)

Next ==
  \/ \E t \in Tabs : \/ \E ks \in Changes : Ask(t, ks)
                     \/ Saving(t)
                     \/ LoseWrite(t)
                     \/ LoseRead(t)
                     \/ FetchMe(t)
                     \/ FetchedMe(t)
  \/ \E t \in Joined : Hear(t)

\* Requests are answered, promises run, broadcasts arrive; and a tab the user
\* keeps coming back to reads /auth/me again.
Fairness ==
  /\ \A t \in Tabs : WF_vars(Saving(t)) /\ WF_vars(FetchMe(t)) /\ WF_vars(FetchedMe(t))
  /\ \A t \in Joined : WF_vars(Hear(t))

Spec     == Init /\ [][Next]_vars
FairSpec == Spec /\ Fairness

----------------------------------------------------------------------------
(* Properties. *)

\* The variables hold what the code may put there.
TypeOK ==
  /\ log    \in Seq(Doc) /\ Len(log) \in 1 .. MaxSaves + 1
  /\ shown  \in [Tabs -> Copy]
  /\ queue  \in [Tabs -> Seq(Change)]
  /\ \A t \in Tabs : job[t].at \in Steps /\ job[t].tries \in 0 .. Retries
  /\ fetch  \in [Tabs -> Copy \cup {NoCopy}]
  /\ inbox  \in [Joined -> Seq(Copy)]
  /\ made   \in 0 .. MaxSaves
  /\ adrift \subseteq Tabs
  /\ faults \in 0 .. MaxFaults

\* Every save ends, stored or failed: the queue of a tab never stands still
\* behind a write that is refused, lost, or left unanswered.
EverySaveSettles == \A t \in Tabs : []<>(queue[t] = <<>>)

\* Once nobody saves any more, every open tab comes to show what is stored,
\* whatever order answers and broadcasts came in.
TabsConverge == <>[](\A t \in Tabs : shown[t] = Stored)

============================================================================
