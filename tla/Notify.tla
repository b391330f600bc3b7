-------------------------------- MODULE Notify --------------------------------
(***************************************************************************)
(* How cloudbank tells one person something (notify/service.go, queue.go,  *)
(* timing.go): callers of Notify, the settings page, and the one worker    *)
(* that releases what was held and delivers what is queued.                *)
(*                                                                         *)
(* People do not share any of this state, so one person is enough.  Time   *)
(* is the hour of a day that goes round; a row that is not due is one the  *)
(* backoff, or the hourly cap, put off.                                    *)
(***************************************************************************)
EXTENDS Naturals, FiniteSets

CONSTANTS
  Events,        \* the events of the instance, each notified once
  NoEvent,
  KindOf,        \* [Events -> Kinds]
  RefOf,         \* [Events -> Refs \cup {NoRef}]
  Kinds,
  GroupOf,       \* [Kinds -> {"security", "problems", "other", "summaries"}]
  DefaultOn,     \* kinds and channels that are on for someone who never changed them
  Refs, NoRef,
  WalletEvents,  \* events about a wallet
  Channels,      \* the channels outside the app that have a sender
  InApp,         \* the bell
  Addressed,     \* those that need the person's address
  ViaInstallation, \* those the hourly cap is on
  HourlyLimit,   \* CB_NOTIFY_HOURLY_LIMIT
  Backoffs,      \* Len(backoff): how many new tries a delivery gets
  Callers,       \* concurrent calls of Notify
  Hours,         \* hours in a day of the model
  QuietSpan,     \* the hours from quiet_from to quiet_to
  DigestHour,    \* digest_at
  Ops,           \* what users and the environment do in this instance
  MaxRows,       \* bound: rows of the queue at once
  MaxFaults,     \* bound: crashes and lost writes
  MaxEdits       \* bound: addresses saved or removed

ASSUME NotifyConstants ==
  /\ KindOf \in [Events -> Kinds]
  /\ RefOf \in [Events -> Refs \cup {NoRef}] /\ NoRef \notin Refs
  /\ GroupOf \in [Kinds -> {"security", "problems", "other", "summaries"}]
  /\ DefaultOn \subseteq Kinds \X (Channels \cup {InApp}) /\ WalletEvents \subseteq Events
  /\ NoEvent \notin Events
  /\ InApp \notin Channels /\ ViaInstallation \subseteq Addressed /\ Addressed \subseteq Channels
  /\ HourlyLimit \in Nat \ {0} /\ Backoffs \in Nat /\ Hours \in Nat \ {0}
  /\ MaxRows \in Nat /\ MaxFaults \in Nat /\ MaxEdits \in Nat
  /\ QuietSpan \subseteq 0 .. Hours - 1 /\ DigestHour \in 0 .. Hours - 1

VARIABLES
  hour,
  \* what the person chose
  prefs,       \* notification_prefs
  digestKinds, \* notification_digest_kinds
  quietHours,  \* notification_settings.quiet_hours
  walletOff,   \* notification_wallets_off
  address,     \* notification_channels: "none" | "unproved" | "proved"
  \* what the database keeps of the events
  reminders,   \* refs claimed
  bell,        \* notifications
  held,        \* notification_held
  queue,       \* notification_deliveries
  \* memory
  call,        \* the calls of Notify under way
  worker,      \* where runDeliveries is
  recent,      \* per capped channel, the sends of the last hour
  \* what happened, for the properties
  called,      \* events notified
  sends,       \* per event and channel, how often it was sent
  dropped,     \* messages given up
  faults,      \* crashes and lost writes so far
  edits,       \* addresses saved or removed so far
  polled       \* the worker has looked at the held rows in this hour

choices == <<prefs, digestKinds, quietHours, walletOff, address>>
tables  == <<reminders, bell, held, queue>>
memory  == <<call, worker, recent>>
ghosts  == <<called, sends, dropped, faults, edits, polled>>
vars    == <<hour, choices, tables, memory, ghosts>>

AllChannels == Channels \cup {InApp}
Messages    == Events \X Channels

HeldRow  == [event : Events, ch : Channels, digest : BOOLEAN, ripe : BOOLEAN]
QueueRow == [id : 1 .. MaxRows, ch : Channels, events : (SUBSET Events) \ {{}},
             tries : 0 .. Backoffs, due : BOOLEAN]

NotCalling == [pc |-> "idle", event |-> NoEvent, todo |-> {}, hold |-> FALSE, digest |-> FALSE]
Call == [pc : {"idle", "bell", "decide", "queue"}, event : Events \cup {NoEvent},
         todo : SUBSET Channels, hold : BOOLEAN, digest : BOOLEAN]

\* rows: the held rows still to release; now: those of the bundle just queued;
\* due: ids still to try; cur: the delivery being sent.
Worker == [pc : {"wait", "release", "bundle", "unhold", "list", "deliver", "sending", "sent"},
           rows : SUBSET HeldRow, now : SUBSET HeldRow,
           due : SUBSET (1 .. MaxRows), cur : 0 .. MaxRows]
Waiting == [pc |-> "wait", rows |-> {}, now |-> {}, due |-> {}, cur |-> 0]

TypeOK ==
  /\ hour \in 0 .. Hours - 1
  /\ prefs \in [Kinds \X AllChannels -> {"unset", "on", "off"}]
  /\ digestKinds \subseteq Kinds
  /\ quietHours \in BOOLEAN /\ walletOff \in BOOLEAN
  /\ address \in [Addressed -> {"none", "unproved", "proved"}]
  /\ reminders \subseteq Refs /\ bell \subseteq Events
  /\ held \subseteq HeldRow /\ queue \subseteq QueueRow
  /\ call \in [Callers -> Call]
  /\ worker \in Worker
  /\ recent \in [ViaInstallation -> 0 .. HourlyLimit]
  /\ called \subseteq Events
  /\ sends \in [Messages -> Nat]
  /\ dropped \subseteq Messages
  /\ faults \in 0 .. MaxFaults /\ edits \in 0 .. MaxEdits
  /\ polled \in BOOLEAN

Init ==
  /\ hour = 0
  /\ prefs = [kc \in Kinds \X AllChannels |-> "unset"]
  /\ digestKinds \in {{}, {k \in Kinds : GroupOf[k] \notin {"security", "summaries"}}}
  /\ quietHours \in BOOLEAN
  /\ walletOff = FALSE
  /\ address = [ch \in Addressed |-> "proved"]
  /\ reminders = {} /\ bell = {} /\ held = {} /\ queue = {}
  /\ call = [p \in Callers |-> NotCalling]
  /\ worker = Waiting
  /\ recent = [ch \in ViaInstallation |-> 0]
  /\ called = {}
  /\ sends = [m \in Messages |-> 0]
  /\ dropped = {} /\ faults = 0 /\ edits = 0 /\ polled = FALSE

-----------------------------------------------------------------------------
(***************************************************************************)
(* The rules                                                               *)
(***************************************************************************)

Group(e) == GroupOf[KindOf[e]]

\* channelsFor: the person's choices over the event's default; a security
\* event stays in the bell whatever they chose.
channelsFor(k) ==
  {ch \in AllChannels :
     \/ prefs[<<k, ch>>] = "on"
     \/ prefs[<<k, ch>>] = "unset" /\ <<k, ch>> \in DefaultOn
     \/ ch = InApp /\ GroupOf[k] = "security"}

digestible(k) == GroupOf[k] \notin {"security", "summaries"}

Quiet == quietHours /\ hour \in QuietSpan

\* holdFor: whether an event waits, and whether it is for the digest.
Digested(k) == digestible(k) /\ k \in digestKinds

Holds(k) == Digested(k) \/ (GroupOf[k] \notin {"security", "problems"} /\ Quiet)

Reachable(ch) == ch \in Addressed => address[ch] = "proved"

FreeIds == 1 .. MaxRows \ {d.id : d \in queue}

\* enqueue: a new row, due at once.
Enqueued(ch, events) ==
  queue \cup {[id |-> CHOOSE i \in FreeIds : TRUE, ch |-> ch, events |-> events, tries |-> 0, due |-> TRUE]}

-----------------------------------------------------------------------------
(***************************************************************************)
(* Notify                                                                  *)
(***************************************************************************)

ClaimUnclaimed(p, e) ==
  /\ call[p].pc = "idle" /\ e \notin called
  /\ called' = called \cup {e}
  /\ IF (e \in WalletEvents /\ walletOff) \/ RefOf[e] \in reminders
     THEN call' = call
     ELSE call' = [call EXCEPT ![p].pc = "bell", ![p].event = e]
  /\ UNCHANGED <<hour, choices, tables, worker, recent, sends, dropped, faults, edits, polled>>

\* A wallet the person turned off, and a ref already claimed, end the call.
Claim(p, e) ==
  /\ call[p].pc = "idle" /\ e \notin called
  /\ called' = called \cup {e}
  /\ IF (e \in WalletEvents /\ walletOff) \/ RefOf[e] \in reminders
     THEN UNCHANGED <<reminders, call>>
     ELSE /\ reminders' = reminders \cup ({RefOf[e]} \cap Refs)
          /\ call' = [call EXCEPT ![p].pc = "bell", ![p].event = e]
  /\ UNCHANGED <<hour, choices, bell, held, queue, worker, recent,
                 sends, dropped, faults, edits, polled>>

\* The channels the event is on for are read here, and kept.
Bell(p) ==
  LET e  == call[p].event
      on == channelsFor(KindOf[e])
  IN  /\ call[p].pc = "bell"
      /\ bell' = IF InApp \in on THEN bell \cup {e} ELSE bell
      /\ call' = [call EXCEPT ![p].pc = "decide", ![p].todo = on \ {InApp}]
      /\ UNCHANGED <<hour, choices, reminders, held, queue, worker, recent, ghosts>>

Decide(p) ==
  LET e == call[p].event
  IN  /\ call[p].pc = "decide"
      /\ call' = [call EXCEPT ![p].pc = "queue",
                              ![p].todo = {ch \in @ : Reachable(ch)},
                              ![p].hold = Holds(KindOf[e]),
                              ![p].digest = Digested(KindOf[e])]
      /\ UNCHANGED <<hour, choices, tables, worker, recent,
                     called, sends, dropped, faults, edits, polled>>

\* hold or enqueue, channel by channel (in any order: nothing shows which).
Queue(p, ch) ==
  /\ call[p].pc = "queue" /\ ch \in call[p].todo
  /\ IF call[p].hold
     THEN /\ held' = held \cup {[event |-> call[p].event, ch |-> ch,
                                 digest |-> call[p].digest, ripe |-> FALSE]}
          /\ queue' = queue
     ELSE /\ FreeIds # {}
          /\ queue' = Enqueued(ch, {call[p].event})
          /\ held' = held
  /\ call' = [call EXCEPT ![p].todo = @ \ {ch}]
  /\ UNCHANGED <<hour, choices, reminders, bell, worker, recent, ghosts>>

Return(p) ==
  /\ call[p].pc = "queue" /\ call[p].todo = {}
  /\ call' = [call EXCEPT ![p] = NotCalling]
  /\ UNCHANGED <<hour, choices, tables, worker, recent, ghosts>>

\* A database error, or a request that was cancelled: the call returns where
\* it is.
Abort(p) ==
  /\ "abort" \in Ops
  /\ call[p].pc # "idle"
  /\ call' = [call EXCEPT ![p] = NotCalling]
  /\ UNCHANGED <<hour, choices, tables, worker, recent, ghosts>>

-----------------------------------------------------------------------------
(***************************************************************************)
(* The worker: runDeliveries                                               *)
(***************************************************************************)

\* The ticker (every 15 seconds) or a kick.
Wake ==
  /\ worker.pc = "wait"
  /\ worker' = [worker EXCEPT !.pc = "release"]
  /\ UNCHANGED <<hour, choices, tables, call, recent, ghosts>>

\* (Mutants of ReleaseRead: what is for the digest leaves at once; the digest
\* takes what was held since the last one, not before it.)
ReleaseReadAll ==
  /\ worker.pc = "release"
  /\ worker' = [worker EXCEPT !.pc = "bundle", !.rows = IF Quiet THEN {} ELSE held]
  /\ polled' = TRUE
  /\ UNCHANGED <<hour, choices, tables, call, recent, called, sends, dropped, faults, edits>>

ReleaseReadSwapped ==
  /\ worker.pc = "release"
  /\ worker' = [worker EXCEPT !.pc = "bundle",
                  !.rows = IF Quiet THEN {} ELSE {r \in held : r.digest => ~r.ripe}]
  /\ polled' = TRUE
  /\ UNCHANGED <<hour, choices, tables, call, recent, called, sends, dropped, faults, edits>>

\* releaseHeld reads what may leave now: nothing in the quiet hours, and of
\* what waits for the digest only what was held before the last one.
ReleaseRead ==
  /\ worker.pc = "release"
  /\ worker' = [worker EXCEPT !.pc = "bundle",
                  !.rows = IF Quiet THEN {} ELSE {r \in held : r.digest => r.ripe}]
  /\ polled' = TRUE
  /\ UNCHANGED <<hour, choices, tables, call, recent, called, sends, dropped, faults, edits>>

OnChannel(ch) == {r \in worker.rows : r.ch = ch}

\* One message per channel, whatever it carries.
ReleaseBundle(ch) ==
  /\ worker.pc = "bundle" /\ OnChannel(ch) # {}
  /\ FreeIds # {}
  /\ queue' = Enqueued(ch, {r.event : r \in OnChannel(ch)})
  /\ worker' = [worker EXCEPT !.pc = "unhold", !.now = OnChannel(ch),
                              !.rows = @ \ OnChannel(ch)]
  /\ UNCHANGED <<hour, choices, reminders, bell, held, call, recent, ghosts>>

\* (Mutant of ReleaseDelete: the row is kept.)
ReleaseDeleteNot(r) ==
  /\ worker.pc = "unhold" /\ r \in worker.now
  /\ worker' = [worker EXCEPT !.now = @ \ {r}]
  /\ UNCHANGED <<hour, choices, tables, call, recent, ghosts>>

\* The rows it carries are deleted one by one.
ReleaseDelete(r) ==
  /\ worker.pc = "unhold" /\ r \in worker.now
  /\ held' = held \ {r}
  /\ worker' = [worker EXCEPT !.now = @ \ {r}]
  /\ UNCHANGED <<hour, choices, reminders, bell, queue, call, recent, ghosts>>

ReleaseNext ==
  /\ worker.pc = "unhold" /\ worker.now = {}
  /\ worker' = [worker EXCEPT !.pc = "bundle"]
  /\ UNCHANGED <<hour, choices, tables, call, recent, ghosts>>

ReleaseEnd ==
  /\ worker.pc = "bundle" /\ worker.rows = {}
  /\ worker' = [worker EXCEPT !.pc = "list"]
  /\ UNCHANGED <<hour, choices, tables, call, recent, ghosts>>

\* deliverDue: the rows that are due now, in batches nothing here depends on.
DeliverList ==
  /\ worker.pc = "list"
  /\ worker' = [worker EXCEPT !.pc = "deliver", !.due = {d.id : d \in {q \in queue : q.due}}]
  /\ UNCHANGED <<hour, choices, tables, call, recent, ghosts>>

Row(id) == CHOOSE d \in queue : d.id = id

Delete(id) == {d \in queue : d.id # id}

Reschedule(id, tries) ==
  {IF d.id = id THEN [d EXCEPT !.tries = tries, !.due = FALSE] ELSE d : d \in queue}

\* The channel is gone, or not proved: the delivery is deleted.
DeliverNowhere(id) ==
  LET d == Row(id)
  IN  /\ worker.pc = "deliver" /\ id \in worker.due
      /\ ~Reachable(d.ch)
      /\ queue' = Delete(id)
      /\ dropped' = dropped \cup d.events \X {d.ch}
      /\ worker' = [worker EXCEPT !.due = @ \ {id}]
      /\ UNCHANGED <<hour, choices, reminders, bell, held, call, recent,
                     called, sends, faults, edits, polled>>

\* allow: what goes through the installation's resources is counted, and
\* capped by the hour.
Capped(ch)  == ch \in ViaInstallation /\ recent[ch] >= HourlyLimit
Counted(ch) == [c \in ViaInstallation |-> recent[c] + (IF c = ch THEN 1 ELSE 0)]

\* Over the hourly cap: put off, without spending a try.
DeliverCapped(id) ==
  LET d == Row(id)
  IN  /\ worker.pc = "deliver" /\ id \in worker.due
      /\ Reachable(d.ch) /\ Capped(d.ch)
      /\ queue' = Reschedule(id, d.tries)
      /\ worker' = [worker EXCEPT !.due = @ \ {id}]
      /\ UNCHANGED <<hour, choices, reminders, bell, held, call, recent, ghosts>>

\* The recipient is read, and the send begins.
DeliverStart(id) ==
  LET d == Row(id)
  IN  /\ worker.pc = "deliver" /\ id \in worker.due
      /\ Reachable(d.ch) /\ ~Capped(d.ch)
      /\ recent' = Counted(d.ch)
      /\ worker' = [worker EXCEPT !.pc = "sending", !.due = @ \ {id}, !.cur = id]
      /\ UNCHANGED <<hour, choices, tables, call, ghosts>>

\* The other end took it: the row is deleted in a step of its own.
SendOK ==
  LET d == Row(worker.cur)
  IN  /\ worker.pc = "sending"
      /\ sends' = [m \in Messages |-> sends[m] + (IF m \in d.events \X {d.ch} THEN 1 ELSE 0)]
      /\ worker' = [worker EXCEPT !.pc = "sent"]
      /\ UNCHANGED <<hour, choices, tables, call, recent, called, dropped, faults, edits, polled>>

Sent ==
  /\ worker.pc = "sent"
  /\ queue' = Delete(worker.cur)
  /\ worker' = [worker EXCEPT !.pc = "deliver", !.cur = 0]
  /\ UNCHANGED <<hour, choices, reminders, bell, held, call, recent, ghosts>>

SendRetryLost ==
  LET d == Row(worker.cur)
  IN  /\ worker.pc = "sending" /\ d.tries + 1 <= Backoffs
      /\ queue' = Delete(d.id)
      /\ worker' = [worker EXCEPT !.pc = "deliver", !.cur = 0]
      /\ UNCHANGED <<hour, choices, reminders, bell, held, call, recent, ghosts>>

\* It could not be reached, and a try is left: later.
SendRetry ==
  LET d == Row(worker.cur)
  IN  /\ worker.pc = "sending" /\ d.tries + 1 <= Backoffs
      /\ queue' = Reschedule(d.id, d.tries + 1)
      /\ worker' = [worker EXCEPT !.pc = "deliver", !.cur = 0]
      /\ UNCHANGED <<hour, choices, reminders, bell, held, call, recent, ghosts>>

\* It refused, or that was the last try.
SendDrop ==
  LET d == Row(worker.cur)
  IN  /\ worker.pc = "sending"
      /\ queue' = Delete(d.id)
      /\ dropped' = dropped \cup d.events \X {d.ch}
      /\ worker' = [worker EXCEPT !.pc = "deliver", !.cur = 0]
      /\ UNCHANGED <<hour, choices, reminders, bell, held, call, recent,
                     called, sends, faults, edits, polled>>

DeliverEnd ==
  /\ worker.pc = "deliver" /\ worker.due = {}
  /\ worker' = Waiting
  /\ UNCHANGED <<hour, choices, tables, call, recent, ghosts>>

-----------------------------------------------------------------------------
(***************************************************************************)
(* The settings page                                                       *)
(***************************************************************************)

\* SetPreference refuses to turn a security event off in the bell.
SetPreference(k, ch, v) ==
  /\ "preference" \in Ops
  /\ ~(GroupOf[k] = "security" /\ ch = InApp /\ v = "off")
  /\ prefs[<<k, ch>>] # v
  /\ prefs' = [prefs EXCEPT ![<<k, ch>>] = v]
  /\ UNCHANGED <<hour, digestKinds, quietHours, walletOff, address,
                 tables, memory, ghosts>>

\* SetDigest refuses what is not digestible.
SetDigest(k) ==
  /\ "digest" \in Ops
  /\ digestible(k)
  /\ digestKinds' = IF k \in digestKinds THEN digestKinds \ {k} ELSE digestKinds \cup {k}
  /\ UNCHANGED <<hour, prefs, quietHours, walletOff, address,
                 tables, memory, ghosts>>

SetSettings ==
  /\ "settings" \in Ops
  /\ quietHours' = ~quietHours
  /\ UNCHANGED <<hour, prefs, digestKinds, walletOff, address, tables, memory, ghosts>>

SetWallet ==
  /\ "wallet" \in Ops
  /\ walletOff' = ~walletOff
  /\ UNCHANGED <<hour, prefs, digestKinds, quietHours, address,
                 tables, memory, ghosts>>

\* A new address, the first or in place of another.  On a channel of the
\* installation's it is sent a code, which counts towards the cap, and waits
\* for it; one of the person's own is used at once.
SaveChannel(ch) ==
  /\ "channels" \in Ops /\ edits < MaxEdits
  /\ ~Capped(ch)
  /\ edits' = edits + 1
  /\ address' = [address EXCEPT ![ch] = IF ch \in ViaInstallation THEN "unproved" ELSE "proved"]
  /\ recent' = Counted(ch)
  /\ UNCHANGED <<hour, prefs, digestKinds, quietHours, walletOff, tables,
                 call, worker, called, sends, dropped, faults, polled>>

ConfirmChannel(ch) ==
  /\ "channels" \in Ops
  /\ address[ch] = "unproved"
  /\ address' = [address EXCEPT ![ch] = "proved"]
  /\ UNCHANGED <<hour, prefs, digestKinds, quietHours, walletOff,
                 tables, memory, ghosts>>

\* The queue is left as it is: what it has for the address meets none, or the
\* next one, when it comes due.
DeleteChannel(ch) ==
  /\ "channels" \in Ops /\ edits < MaxEdits
  /\ address[ch] # "none"
  /\ edits' = edits + 1
  /\ address' = [address EXCEPT ![ch] = "none"]
  /\ UNCHANGED <<hour, prefs, digestKinds, quietHours, walletOff, tables,
                 memory, called, sends, dropped, faults, polled>>

-----------------------------------------------------------------------------
(***************************************************************************)
(* Time and faults                                                         *)
(***************************************************************************)

\* The worker polls every 15 seconds, so an hour does not pass without it, but
\* may pass while it is at work.
\* What was held for the digest may leave from the next digest time on.
HourPasses ==
  /\ polled
  /\ hour' = (hour + 1) % Hours
  /\ polled' = FALSE
  /\ held' = IF hour' = DigestHour
             THEN {IF r.digest THEN [r EXCEPT !.ripe = TRUE] ELSE r : r \in held}
             ELSE held
  /\ UNCHANGED <<choices, reminders, bell, queue, memory, called, sends, dropped, faults, edits>>

\* The wait of a delivery is over.
ComesDue(d) ==
  /\ ~d.due
  /\ queue' = (queue \ {d}) \cup {[d EXCEPT !.due = TRUE]}
  /\ UNCHANGED <<hour, choices, reminders, bell, held, memory, ghosts>>

\* A send of the last hour no longer counts.
Expire(ch) ==
  /\ recent[ch] > 0
  /\ recent' = [recent EXCEPT ![ch] = @ - 1]
  /\ UNCHANGED <<hour, choices, tables, call, worker, ghosts>>

\* The process dies; the tables stay.
Crash ==
  /\ "crash" \in Ops /\ faults < MaxFaults
  /\ call # [p \in Callers |-> NotCalling] \/ worker # Waiting
  /\ faults' = faults + 1
  /\ call' = [p \in Callers |-> NotCalling]
  /\ worker' = Waiting
  /\ recent' = [ch \in ViaInstallation |-> 0]
  /\ UNCHANGED <<hour, choices, tables, called, sends, dropped, edits, polled>>

\* A statement of the worker fails, and it goes on: the row it was about stays
\* as it is.
LoseWrite ==
  /\ "lose" \in Ops /\ faults < MaxFaults
  /\ \/ /\ worker.pc \in {"sending", "sent"}
        /\ worker' = [worker EXCEPT !.pc = "deliver", !.cur = 0]
     \/ /\ worker.pc = "deliver"
        /\ \E id \in worker.due : worker' = [worker EXCEPT !.due = @ \ {id}]
     \/ /\ worker.pc = "unhold"
        /\ \E r \in worker.now : worker' = [worker EXCEPT !.now = @ \ {r}]
     \/ /\ worker.pc = "bundle"
        /\ \E ch \in Channels : OnChannel(ch) # {} /\ worker' = [worker EXCEPT !.rows = @ \ OnChannel(ch)]
  /\ faults' = faults + 1
  /\ UNCHANGED <<hour, choices, tables, call, recent, called, sends, dropped, edits, polled>>

Notifying ==
  \E p \in Callers :
    \/ \E e \in Events : Claim(p, e)
    \/ Bell(p) \/ Decide(p) \/ Return(p) \/ Abort(p)
    \/ \E ch \in Channels : Queue(p, ch)

Release ==
  \/ ReleaseRead \/ ReleaseNext \/ ReleaseEnd
  \/ \E ch \in Channels : ReleaseBundle(ch)
  \/ \E r \in worker.now : ReleaseDelete(r)

Deliver ==
  \/ DeliverList \/ DeliverEnd \/ SendOK \/ Sent \/ SendRetry \/ SendDrop
  \/ \E id \in worker.due : DeliverNowhere(id) \/ DeliverCapped(id) \/ DeliverStart(id)

Choosing ==
  \/ \E k \in Kinds, ch \in AllChannels, v \in {"on", "off"} : SetPreference(k, ch, v)
  \/ \E k \in Kinds : SetDigest(k)
  \/ SetSettings \/ SetWallet
  \/ \E ch \in Addressed : SaveChannel(ch) \/ ConfirmChannel(ch) \/ DeleteChannel(ch)

Next ==
  \/ Notifying \/ Wake \/ Release \/ Deliver \/ Choosing
  \/ HourPasses \/ Crash \/ LoseWrite
  \/ \E d \in queue : ComesDue(d)
  \/ \E ch \in ViaInstallation : Expire(ch)

Spec == Init /\ [][Next]_vars

\* The worker loops for as long as the process lives, a started process calls
\* it again, and time passes.
FairSpec ==
  /\ Spec
  /\ WF_vars(Wake) /\ WF_vars(Release) /\ WF_vars(Deliver)
  /\ WF_vars(HourPasses)
  /\ WF_vars(\E d \in queue : ComesDue(d))
  /\ \A ch \in ViaInstallation : WF_vars(Expire(ch))

-----------------------------------------------------------------------------
(***************************************************************************)
(* Properties                                                              *)
(***************************************************************************)

waiting == {<<r.event, r.ch>> : r \in held}
             \cup UNION {d.events \X {d.ch} : d \in queue}

told == {m \in Messages : sends[m] > 0}

\* The queue keeps its promise (Outbox) through crashes, lost writes and
\* changes of mind: what was accepted is told or given up for a reason, it is
\* never lost on the way from held to queued, and it does not come back.
Box == INSTANCE Outbox WITH Messages <- Messages, waiting <- waiting, told <- told,
                            dropped <- dropped

ImplementsOutbox == Box!Spec

\* A message is sent twice only when a crash or a lost write came between a
\* send, or the queueing of a bundle, and the delete that follows it.
DuplicatesCostAFault == \A m \in Messages : sends[m] <= 1 + faults

\* service.go:135: a second event with the same ref is dropped, also when both
\* come at once: nothing of it reaches the bell or a channel.
Surfaced == bell \cup {m[1] : m \in waiting \cup told \cup dropped}

Twins(e, f) == e = f \/ (RefOf[e] = RefOf[f] /\ RefOf[e] # NoRef)

RefToldOnce == \A e, f \in Surfaced : Twins(e, f) => e = f

\* timing.go:195: security never waits, problems wait for nothing but a digest
\* the person put them in, and the summaries for nothing but the quiet hours.
UrgentNeverHeld ==
  \A r \in held : /\ Group(r.event) # "security"
                  /\ Group(r.event) = "problems" => r.digest
                  /\ Group(r.event) = "summaries" => ~r.digest

\* The queue, through crashes and lost writes: nothing is sent twice without one of
\* them to blame, and what is urgent is never held (queue.go, timing.go).
QueueIsSound == TypeOK /\ DuplicatesCostAFault /\ UrgentNeverHeld

\* An event put in the digest leaves the app no earlier than the digest time.
\* (Only what a call of Notify decided to hold is ever in a held row.)
DigestKept ==
  [][\A r \in held : r.digest /\ ~r.ripe =>
       r \in held' \/ [r EXCEPT !.ripe = TRUE] \in held']_vars

\* service.go:99: a security event always reaches the bell, whatever the person
\* turned off: once the calls for it are over it is there, itself or the one of
\* its ref that was first.
SecurityInBell ==
  \A e \in called :
    /\ Group(e) = "security" /\ e \notin WalletEvents
    /\ \A f \in Events : Twins(e, f) => \A p \in Callers : call[p].event # f
    => \E f \in bell : Twins(e, f)

\* Every message that is accepted is over in the end.
EveryMessageEnds == \A m \in Messages : []<>(m \notin waiting)
=============================================================================
