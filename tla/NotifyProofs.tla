----------------------------- MODULE NotifyProofs -----------------------------
(***************************************************************************)
(* Proofs about Notify, for any events, channels, concurrent calls and     *)
(* number of crashes and lost writes.                                      *)
(***************************************************************************)
EXTENDS Notify, FiniteSetTheorems, TLAPS

\* The steps that leave the calls, the worker, the tables and what was sent alone:
\* what the person chooses, and the sends of the last hour that no longer count.
Aside == UNCHANGED <<reminders, bell, held, queue, call, worker, called, sends, dropped, faults>>

LEMMA ChoosingIsAside == ASSUME TypeOK, Choosing
                         PROVE  Aside /\ TypeOK'
<1> USE DEF Aside, choices, tables, memory, ghosts
<1>1. ASSUME NEW k \in Kinds, NEW ch \in AllChannels, NEW v \in {"on", "off"}, SetPreference(k, ch, v)
      PROVE  Aside /\ TypeOK'
  BY <1>1 DEF SetPreference, TypeOK
<1>2. ASSUME NEW k \in Kinds, SetDigest(k)
      PROVE  Aside /\ TypeOK'
  BY <1>2 DEF SetDigest, TypeOK
<1>3. CASE SetSettings
  BY <1>3 DEF SetSettings, TypeOK
<1>4. CASE SetWallet
  BY <1>4 DEF SetWallet, TypeOK
<1>5. ASSUME NEW ch \in Addressed, SaveChannel(ch)
      PROVE  Aside /\ TypeOK'
  <2>1. recent' \in [ViaInstallation -> 0 .. HourlyLimit]
    BY <1>5, NotifyConstants DEF SaveChannel, Counted, Capped, TypeOK
  <2>2. address' \in [Addressed -> {"none", "unproved", "proved"}]
    BY <1>5 DEF SaveChannel, TypeOK
  <2>3. edits' \in 0 .. MaxEdits
    BY <1>5, NotifyConstants DEF SaveChannel, TypeOK
  <2> QED BY <1>5, <2>1, <2>2, <2>3 DEF SaveChannel, TypeOK
<1>6. ASSUME NEW ch \in Addressed, ConfirmChannel(ch)
      PROVE  Aside /\ TypeOK'
  BY <1>6 DEF ConfirmChannel, TypeOK
<1>7. ASSUME NEW ch \in Addressed, DeleteChannel(ch)
      PROVE  Aside /\ TypeOK'
  BY <1>7, NotifyConstants DEF DeleteChannel, TypeOK
<1> QED BY <1>1, <1>2, <1>3, <1>4, <1>5, <1>6, <1>7 DEF Choosing

\* A row of the queue under a free id, and the row of an id.
LEMMA EnqueuedRow ==
  ASSUME FreeIds # {}, NEW ch \in Channels, NEW events \in (SUBSET Events) \ {{}}
  PROVE  \E d \in QueueRow : /\ d.ch = ch /\ d.events = events /\ d.due
                             /\ \A q \in queue : q.id # d.id
                             /\ Enqueued(ch, events) = queue \cup {d}
<1> DEFINE i == CHOOSE j \in FreeIds : TRUE
           d == [id |-> i, ch |-> ch, events |-> events, tries |-> 0, due |-> TRUE]
<1>1. i \in FreeIds
  OBVIOUS
<1>2. d \in QueueRow
  BY <1>1, NotifyConstants DEF QueueRow, FreeIds
<1>3. \A q \in queue : q.id # d.id
  BY <1>1 DEF FreeIds
<1>4. Enqueued(ch, events) = queue \cup {d}
  BY DEF Enqueued
<1> QED BY <1>2, <1>3, <1>4

\* Every row of one set is in the other, for all it carries and where it goes.
AsIn(Q, R) == \A q \in Q : \E r \in R : r.id = q.id /\ r.ch = q.ch /\ r.events = q.events

LEMMA RescheduledRows ==
  ASSUME queue \subseteq QueueRow, NEW id, NEW tries \in 0 .. Backoffs
  PROVE  /\ Reschedule(id, tries) \subseteq QueueRow
         /\ AsIn(Reschedule(id, tries), queue) /\ AsIn(queue, Reschedule(id, tries))
<1>1. \A d \in queue : d \in QueueRow
  OBVIOUS
<1> DEFINE late(d) == IF d.id = id THEN [d EXCEPT !.tries = tries, !.due = FALSE] ELSE d
<1>2. ASSUME NEW d \in queue
      PROVE  /\ late(d) \in QueueRow
             /\ late(d).id = d.id /\ late(d).ch = d.ch /\ late(d).events = d.events
  BY <1>1 DEF QueueRow
<1>3. Reschedule(id, tries) = {late(d) : d \in queue}
  BY DEF Reschedule
<1> HIDE DEF late
<1> QED BY <1>2, <1>3 DEF AsIn

LEMMA RowIsRow ==
  ASSUME NEW id, \E d \in queue : d.id = id
  PROVE  Row(id) \in queue /\ Row(id).id = id
BY DEF Row

-----------------------------------------------------------------------------
(***************************************************************************)
(* The inductive invariant                                                 *)
(***************************************************************************)

\* Where a message is: held, in a row of the queue, or already over, in part or whole.
HeldIn(H, e, ch)   == \E r \in H : r.event = e /\ r.ch = ch
QueuedIn(Q, e, ch) == \E d \in Q : e \in d.events /\ d.ch = ch
IsHeld(e, ch)      == HeldIn(held, e, ch)
IsQueued(e, ch)    == QueuedIn(queue, e, ch)
Over               == waiting \cup told \cup dropped

\* A call of an event is the only one there will be; what it decided to hold is
\* not urgent.
MayBeHeld(e, digest) == /\ Group(e) # "security"
                        /\ Group(e) = "problems" => digest
                        /\ Group(e) = "summaries" => ~digest

Calls ==
  \A p \in Callers :
    /\ call[p].pc = "idle" => call[p] = NotCalling
    /\ call[p].pc # "idle" =>
         /\ call[p].event \in called
         /\ \A q \in Callers : call[q].event = call[p].event => q = p
    /\ call[p].pc = "queue" /\ call[p].hold => MayBeHeld(call[p].event, call[p].digest)

\* What a call may still accept is new.
MayCome(e, ch) == \/ e \notin called
                  \/ \E p \in Callers : /\ call[p].event = e
                                        /\ call[p].pc = "bell" \/ ch \in call[p].todo

ComesOnce == \A e \in Events, ch \in Channels : MayCome(e, ch) => <<e, ch>> \notin Over

\* A message is held in one row.  The rows the worker read are still held, those
\* for the digest are ripe, and those of the bundle it queued are in the queue.
HeldRows ==
  /\ \A r, s \in held : r.event = s.event /\ r.ch = s.ch => r = s
  /\ \A r \in held : MayBeHeld(r.event, r.digest)
  /\ worker.rows \subseteq held /\ worker.now \subseteq held
  /\ \A r \in worker.rows \cup worker.now : r.digest => r.ripe
  /\ \A r \in worker.now : r \notin worker.rows /\ IsQueued(r.event, r.ch)
  /\ worker.now # {} => worker.pc = "unhold"

\* Rows have ids of their own.  Every id the worker has yet to try, and the one it
\* sends, is of a row, for only the worker takes rows away; what was just sent is told.
WorksOnRows ==
  /\ \A d, q \in queue : d.id = q.id => d = q
  /\ \A i \in worker.due : i # worker.cur /\ \E d \in queue : d.id = i
  /\ IF worker.pc \in {"sending", "sent"} THEN \E d \in queue : d.id = worker.cur
                                           ELSE worker.cur = 0
  /\ worker.pc = "sent" =>
       \A d \in queue : d.id = worker.cur => \A e \in d.events : sends[<<e, d.ch>>] > 0

\* The copies of a message that may still be sent: the rows of the queue that carry
\* it, but the one just sent, and its held row, when it is not in the bundle queued.
Unsent(m) == {i \in 1 .. MaxRows : /\ \E d \in queue : d.id = i /\ m \in d.events \X {d.ch}
                                   /\ ~(worker.pc = "sent" /\ i = worker.cur)}

ToRelease(m) == \E r \in held \ worker.now : m = <<r.event, r.ch>>

Copies(m) == sends[m] + Cardinality(Unsent(m)) + (IF ToRelease(m) THEN 1 ELSE 0)

CopiesCostFaults == \A m \in Messages : Copies(m) <= 1 + faults

\* Every event that shows, or is on its way, has claimed its ref.
Active == Surfaced \cup {call[p].event : p \in {q \in Callers : call[q].pc # "idle"}}

RefsClaimed ==
  /\ Active \subseteq called
  /\ \A e \in Active : RefOf[e] # NoRef => RefOf[e] \in reminders
  /\ \A e, f \in Active : Twins(e, f) => e = f

NotifyInv == /\ TypeOK /\ Calls /\ ComesOnce /\ HeldRows /\ WorksOnRows
             /\ CopiesCostFaults /\ RefsClaimed

-----------------------------------------------------------------------------
(***************************************************************************)
(* Types                                                                   *)
(***************************************************************************)

LEMMA TypesNotifying == ASSUME NotifyInv, Notifying PROVE TypeOK'
<1> USE DEF NotifyInv, choices, tables, memory, ghosts
<1>0. call \in [Callers -> Call]
  BY DEF TypeOK
<1>1. ASSUME NEW p \in Callers, NEW e \in Events, Claim(p, e)
      PROVE  TypeOK'
  <2>1. call' \in [Callers -> Call]
    BY <1>0, <1>1 DEF Claim, Call
  <2> QED BY <1>1, <2>1 DEF Claim, TypeOK
<1>2. ASSUME NEW p \in Callers, Bell(p)
      PROVE  TypeOK'
  <2>1. call[p].event \in Events
    BY <1>2 DEF Bell, Calls, TypeOK
  <2>2. channelsFor(KindOf[call[p].event]) \ {InApp} \subseteq Channels
    BY DEF channelsFor, AllChannels
  <2>3. call' \in [Callers -> Call]
    <3> DEFINE c == [call[p] EXCEPT !.pc = "decide",
                                    !.todo = channelsFor(KindOf[call[p].event]) \ {InApp}]
    <3>1. call' = [call EXCEPT ![p] = c]
      BY <1>0, <1>2 DEF Bell
    <3>2. c \in Call
      BY <1>0, <2>2 DEF Call
    <3> QED BY <1>0, <3>1, <3>2
  <2>4. bell' \subseteq Events
    BY <1>2, <2>1 DEF Bell, TypeOK
  <2>5. UNCHANGED <<hour, choices, reminders, held, queue, worker, recent, ghosts>>
    BY <1>2 DEF Bell
  <2> QED BY <2>3, <2>4, <2>5 DEF TypeOK
<1>3. ASSUME NEW p \in Callers, Decide(p)
      PROVE  TypeOK'
  <2>1. Holds(KindOf[call[p].event]) \in BOOLEAN /\ Digested(KindOf[call[p].event]) \in BOOLEAN
    BY DEF Holds, Digested, digestible
  <2> DEFINE todo == {ch \in call[p].todo : Reachable(ch)}
  <2>2. todo \subseteq Channels
    BY <1>0 DEF Call
  <2>3. call' = [call EXCEPT ![p].pc = "queue", ![p].todo = todo,
                             ![p].hold = Holds(KindOf[call[p].event]),
                             ![p].digest = Digested(KindOf[call[p].event])]
    BY <1>3 DEF Decide
  <2>4. call' \in [Callers -> Call]
    <3> HIDE DEF todo
    <3>1. [call[p] EXCEPT !.pc = "queue", !.todo = todo, !.hold = Holds(KindOf[call[p].event]),
                          !.digest = Digested(KindOf[call[p].event])] \in Call
      BY <1>0, <2>1, <2>2 DEF Call
    <3> QED BY <1>0, <2>3, <3>1
  <2> QED BY <1>3, <2>4 DEF Decide, TypeOK
<1>4. ASSUME NEW p \in Callers, Return(p) \/ Abort(p)
      PROVE  TypeOK'
  <2>1. NotCalling \in Call
    BY DEF NotCalling, Call
  <2>2. call' \in [Callers -> Call]
    BY <1>0, <1>4, <2>1 DEF Return, Abort
  <2> QED BY <1>4, <2>2 DEF Return, Abort, TypeOK
<1>5. ASSUME NEW p \in Callers, NEW ch \in Channels, Queue(p, ch)
      PROVE  TypeOK'
  <2>1. call' \in [Callers -> Call]
    BY <1>0, <1>5 DEF Queue, Call
  <2>2. call[p].event \in Events
    BY <1>5 DEF Queue, Calls, TypeOK
  <2>3. held' \subseteq HeldRow
    <3>1. [event |-> call[p].event, ch |-> ch, digest |-> call[p].digest, ripe |-> FALSE] \in HeldRow
      BY <1>0, <2>2 DEF Call, HeldRow
    <3> QED BY <1>5, <3>1 DEF Queue, TypeOK
  <2>4. queue' \subseteq QueueRow
    <3>1. CASE queue' = queue
      BY <3>1 DEF TypeOK
    <3>2. CASE FreeIds # {} /\ queue' = Enqueued(ch, {call[p].event})
      <4>1. {call[p].event} \in (SUBSET Events) \ {{}}
        BY <2>2
      <4>2. queue \subseteq QueueRow
        BY DEF TypeOK
      <4> HIDE DEF NotifyInv
      <4> QED BY <3>2, <4>1, <4>2, EnqueuedRow
    <3> QED BY <1>5, <3>1, <3>2 DEF Queue
  <2> QED BY <1>5, <2>1, <2>3, <2>4 DEF Queue, TypeOK
<1> QED BY <1>1, <1>2, <1>3, <1>4, <1>5 DEF Notifying

LEMMA TypesRelease == ASSUME NotifyInv, Release PROVE TypeOK'
<1> USE DEF NotifyInv, choices, tables, memory, ghosts
<1>0. worker \in Worker /\ held \subseteq HeldRow
  BY DEF TypeOK
<1>1. CASE ReleaseRead
  <2>1. worker' \in Worker
    BY <1>0, <1>1 DEF ReleaseRead, Worker
  <2> QED BY <1>1, <2>1 DEF ReleaseRead, TypeOK
<1>2. CASE ReleaseNext \/ ReleaseEnd
  <2>1. worker' \in Worker
    BY <1>0, <1>2 DEF ReleaseNext, ReleaseEnd, Worker
  <2> QED BY <1>2, <2>1 DEF ReleaseNext, ReleaseEnd, TypeOK
<1>3. ASSUME NEW ch \in Channels, ReleaseBundle(ch)
      PROVE  TypeOK'
  <2> DEFINE events == {r.event : r \in OnChannel(ch)}
  <2>1. events \in (SUBSET Events) \ {{}}
    BY <1>0, <1>3 DEF ReleaseBundle, OnChannel, HeldRow, HeldRows
  <2>2. queue' \subseteq QueueRow
    <3>1. queue' = Enqueued(ch, events) /\ FreeIds # {}
      BY <1>3 DEF ReleaseBundle
    <3> HIDE DEF events
    <3>2. PICK d \in QueueRow : queue' = queue \cup {d}
      BY <2>1, <3>1, EnqueuedRow
    <3> QED BY <3>2 DEF TypeOK
  <2>3. worker' \in Worker
    BY <1>0, <1>3 DEF ReleaseBundle, OnChannel, Worker
  <2> QED BY <1>3, <2>2, <2>3 DEF ReleaseBundle, TypeOK
<1>4. ASSUME NEW r \in worker.now, ReleaseDelete(r)
      PROVE  TypeOK'
  <2>1. worker' \in Worker
    BY <1>0, <1>4 DEF ReleaseDelete, Worker
  <2> QED BY <1>4, <2>1 DEF ReleaseDelete, TypeOK
<1> QED BY <1>1, <1>2, <1>3, <1>4 DEF Release

LEMMA TypesDeliver == ASSUME NotifyInv, Deliver PROVE TypeOK'
<1> USE DEF NotifyInv, choices, tables, memory, ghosts
<1>0. worker \in Worker /\ queue \subseteq QueueRow
  BY DEF TypeOK
<1>1. CASE DeliverList
  <2>1. {d.id : d \in {q \in queue : q.due}} \subseteq 1 .. MaxRows
    BY <1>0 DEF QueueRow
  <2>2. worker' \in Worker
    BY <1>0, <1>1, <2>1 DEF DeliverList, Worker
  <2> QED BY <1>1, <2>2 DEF DeliverList, TypeOK
<1>2. CASE DeliverEnd
  <2>1. worker' \in Worker
    BY <1>2, NotifyConstants DEF DeliverEnd, Waiting, Worker
  <2> QED BY <1>2, <2>1 DEF DeliverEnd, TypeOK
<1>3. CASE SendOK
  <2>1. worker' \in Worker
    BY <1>0, <1>3 DEF SendOK, Worker
  <2>2. sends' \in [Messages -> Nat]
    BY <1>3 DEF SendOK, TypeOK
  <2> QED BY <1>3, <2>1, <2>2 DEF SendOK, TypeOK
<1>4. worker.pc \in {"sending", "sent"} => Row(worker.cur) \in QueueRow
  BY <1>0, RowIsRow DEF WorksOnRows
<1>5. ASSUME worker' = [worker EXCEPT !.pc = "deliver", !.cur = 0]
      PROVE  worker' \in Worker
  <2>1. 0 \in 0 .. MaxRows
    BY NotifyConstants
  <2> QED BY <1>0, <1>5, <2>1 DEF Worker
<1>6. CASE Sent
  <2>1. worker' \in Worker
    BY <1>5, <1>6 DEF Sent
  <2> QED BY <1>6, <2>1 DEF Sent, Delete, TypeOK
<1>7. CASE SendRetry
  <2> DEFINE d == Row(worker.cur)
  <2>1. d.tries + 1 \in 0 .. Backoffs
    BY <1>4, <1>7, NotifyConstants DEF SendRetry, QueueRow
  <2>2. queue' = Reschedule(d.id, d.tries + 1)
    BY <1>7 DEF SendRetry
  <2>3. queue' \subseteq QueueRow
    BY <2>1, <2>2, RescheduledRows DEF TypeOK
  <2>4. worker' \in Worker
    BY <1>5, <1>7 DEF SendRetry
  <2> QED BY <1>7, <2>3, <2>4 DEF SendRetry, TypeOK
<1>8. CASE SendDrop
  <2>1. worker' \in Worker
    BY <1>5, <1>8 DEF SendDrop
  <2>2. Row(worker.cur).events \X {Row(worker.cur).ch} \subseteq Messages
    BY <1>4, <1>8 DEF SendDrop, QueueRow, Messages
  <2> QED BY <1>8, <2>1, <2>2 DEF SendDrop, Delete, TypeOK
<1>9. ASSUME NEW id \in worker.due, DeliverNowhere(id) \/ DeliverCapped(id) \/ DeliverStart(id)
      PROVE  TypeOK'
  <2>1. Row(id) \in QueueRow
    BY <1>0, RowIsRow DEF WorksOnRows
  <2>2. worker' \in Worker
    <3>1. id \in 0 .. MaxRows /\ worker.due \ {id} \in SUBSET (1 .. MaxRows)
      BY <1>0 DEF Worker
    <3>2. \/ worker' = [worker EXCEPT !.due = @ \ {id}]
          \/ worker' = [worker EXCEPT !.pc = "sending", !.due = @ \ {id}, !.cur = id]
      BY <1>9 DEF DeliverNowhere, DeliverCapped, DeliverStart
    <3> QED BY <1>0, <3>1, <3>2 DEF Worker
  <2>3. CASE DeliverNowhere(id)
    <3>1. Row(id).events \X {Row(id).ch} \subseteq Messages
      BY <2>1 DEF QueueRow, Messages
    <3> QED BY <2>2, <2>3, <3>1 DEF DeliverNowhere, Delete, TypeOK
  <2>4. CASE DeliverCapped(id)
    <3>1. queue' = Reschedule(id, Row(id).tries) /\ Row(id).tries \in 0 .. Backoffs
      BY <2>1, <2>4 DEF DeliverCapped, QueueRow
    <3>2. queue' \subseteq QueueRow
      BY <3>1, RescheduledRows DEF TypeOK
    <3> QED BY <2>2, <2>4, <3>2 DEF DeliverCapped, TypeOK
  <2>5. CASE DeliverStart(id)
    <3>1. recent' \in [ViaInstallation -> 0 .. HourlyLimit]
      BY <2>5, NotifyConstants DEF DeliverStart, Counted, Capped, TypeOK
    <3> QED BY <2>2, <2>5, <3>1 DEF DeliverStart, TypeOK
  <2> QED BY <1>9, <2>3, <2>4, <2>5
<1> QED BY <1>1, <1>2, <1>3, <1>6, <1>7, <1>8, <1>9 DEF Deliver

\* Time, crashes and lost writes.
Befalls == \/ Wake \/ HourPasses \/ Crash \/ LoseWrite
           \/ \E d \in queue : ComesDue(d)
           \/ \E ch \in ViaInstallation : Expire(ch)

LEMMA TypesBefalls == ASSUME NotifyInv, Befalls PROVE TypeOK'
<1> USE DEF NotifyInv, choices, tables, memory, ghosts
<1>0. worker \in Worker /\ queue \subseteq QueueRow
  BY DEF TypeOK
<1>1. CASE Wake
  <2>1. worker' \in Worker
    BY <1>0, <1>1 DEF Wake, Worker
  <2> QED BY <1>1, <2>1 DEF Wake, TypeOK
<1>2. CASE HourPasses
  <2>1. hour' \in 0 .. Hours - 1
    BY <1>2, NotifyConstants DEF HourPasses, TypeOK
  <2>2. held' \subseteq HeldRow
    <3>1. ASSUME NEW r \in held
          PROVE  r \in HeldRow /\ [r EXCEPT !.ripe = TRUE] \in HeldRow
      BY DEF HeldRow, TypeOK
    <3>2. {IF r.digest THEN [r EXCEPT !.ripe = TRUE] ELSE r : r \in held} \subseteq HeldRow
      BY <3>1
    <3> QED BY <1>2, <3>1, <3>2 DEF HourPasses
  <2> QED BY <1>2, <2>1, <2>2 DEF HourPasses, TypeOK
<1>3. CASE Crash
  <2>1. NotCalling \in Call /\ Waiting \in Worker
    <3>1. 0 \in 0 .. MaxRows
      BY NotifyConstants
    <3> QED BY <3>1 DEF NotCalling, Call, Waiting, Worker
  <2>2. faults' \in 0 .. MaxFaults
    BY <1>3, NotifyConstants DEF Crash, TypeOK
  <2>3. recent' \in [ViaInstallation -> 0 .. HourlyLimit]
    BY <1>3, NotifyConstants DEF Crash
  <2>4. call' \in [Callers -> Call] /\ worker' \in Worker
    BY <1>3, <2>1 DEF Crash
  <2> QED BY <1>3, <2>2, <2>3, <2>4 DEF Crash, TypeOK
<1>4. CASE LoseWrite
  <2>1. faults' \in 0 .. MaxFaults
    BY <1>4, NotifyConstants DEF LoseWrite, TypeOK
  <2>2. 0 \in 0 .. MaxRows
    BY NotifyConstants
  <2>3. worker' \in Worker
    BY <1>0, <1>4, <2>2 DEF LoseWrite, Worker
  <2> QED BY <1>4, <2>1, <2>3 DEF LoseWrite, TypeOK
<1>5. ASSUME NEW d \in queue, ComesDue(d)
      PROVE  TypeOK'
  <2>1. [d EXCEPT !.due = TRUE] \in QueueRow
    BY <1>0 DEF QueueRow
  <2> QED BY <1>5, <2>1 DEF ComesDue, TypeOK
<1>6. ASSUME NEW ch \in ViaInstallation, Expire(ch)
      PROVE  TypeOK'
  BY <1>6, NotifyConstants DEF Expire, TypeOK
<1> QED BY <1>1, <1>2, <1>3, <1>4, <1>5, <1>6 DEF Befalls

LEMMA TypesStep == ASSUME NotifyInv, [Next]_vars PROVE TypeOK'
<1>1. CASE vars' = vars
  BY <1>1 DEF NotifyInv, TypeOK, vars, choices, tables, memory, ghosts
<1> QED BY <1>1, TypesNotifying, TypesRelease, TypesDeliver, TypesBefalls, ChoosingIsAside
        DEF Next, Befalls, NotifyInv

-----------------------------------------------------------------------------
(***************************************************************************)
(* What each kind of step leaves alone, and the calls                      *)
(***************************************************************************)

LEMMA NotifyingKeeps == Notifying => UNCHANGED <<worker, sends, dropped, faults>>
BY DEF Notifying, Claim, Bell, Decide, Queue, Return, Abort, choices, tables, memory, ghosts

LEMMA ReleaseKeeps == Release => UNCHANGED <<reminders, bell, call, called, sends, dropped, faults>>
BY DEF Release, ReleaseRead, ReleaseNext, ReleaseEnd, ReleaseBundle, ReleaseDelete,
       choices, tables, memory, ghosts

LEMMA DeliverKeeps == Deliver => UNCHANGED <<reminders, bell, held, call, called, faults>>
BY DEF Deliver, DeliverList, DeliverEnd, SendOK, Sent, SendRetry, SendDrop, DeliverNowhere,
       DeliverCapped, DeliverStart, choices, tables, memory, ghosts

LEMMA BefallsKeeps == Befalls => /\ UNCHANGED <<reminders, bell, called, sends, dropped>>
                                 /\ call' = call \/ call' = [p \in Callers |-> NotCalling]
BY DEF Befalls, Wake, HourPasses, Crash, LoseWrite, ComesDue, Expire, choices, tables, memory, ghosts

LEMMA StillKeeps == vars' = vars => Aside
BY DEF vars, Aside, tables, memory, ghosts

LEMMA CallsStep == ASSUME NotifyInv, [Next]_vars PROVE Calls'
<1> USE DEF NotifyInv
<1>0. call \in [Callers -> Call]
  BY DEF TypeOK
<1>1. ASSUME UNCHANGED <<call, called>>
      PROVE  Calls'
  BY <1>1 DEF Calls, MayBeHeld, Group
<1>2. ASSUME NEW p \in Callers, called' = called, call' = [call EXCEPT ![p] = NotCalling]
      PROVE  Calls'
  <2>1. call'[p] = NotCalling /\ \A q \in Callers \ {p} : call'[q] = call[q]
    BY <1>0, <1>2
  <2>2. NotCalling.pc = "idle" /\ NotCalling.event \notin called
    BY NotifyConstants DEF NotCalling, TypeOK
  <2> QED BY <1>2, <2>1, <2>2 DEF Calls, MayBeHeld, Group
<1>3. ASSUME called' = called, call' = [p \in Callers |-> NotCalling]
      PROVE  Calls'
  BY <1>3 DEF Calls, NotCalling
<1>4. ASSUME NEW p \in Callers, NEW e \in Events, Claim(p, e)
      PROVE  Calls'
  <2>1. CASE call' = call
    BY <1>4, <2>1 DEF Claim, Calls, MayBeHeld, Group
  <2>2. CASE call' = [call EXCEPT ![p].pc = "bell", ![p].event = e]
    <3>1. /\ call'[p].pc = "bell" /\ call'[p].event = e
          /\ \A q \in Callers \ {p} : call'[q] = call[q]
      BY <1>0, <2>2 DEF Call
    <3>2. \A q \in Callers : call[q].event # e
      <4>1. ASSUME NEW q \in Callers
            PROVE  call[q].event \in called \cup {NoEvent}
        BY DEF Calls, NotCalling
      <4> QED BY <1>4, <4>1, NotifyConstants DEF Claim
    <3>3. called' = called \cup {e}
      BY <1>4 DEF Claim
    <3> QED BY <3>1, <3>2, <3>3 DEF Calls, MayBeHeld, Group
  <2> QED BY <1>4, <2>1, <2>2 DEF Claim
<1>5. ASSUME NEW p \in Callers, Bell(p) \/ Decide(p) \/ \E ch \in Channels : Queue(p, ch)
      PROVE  Calls'
  <2>1. /\ called' = called /\ \A q \in Callers \ {p} : call'[q] = call[q]
        /\ call'[p].event = call[p].event /\ call'[p].pc # "idle" /\ call[p].pc # "idle"
    <3>1. CASE Bell(p)
      BY <1>0, <3>1 DEF Bell, Call, ghosts
    <3>2. CASE Decide(p)
      BY <1>0, <3>2 DEF Decide, Call
    <3>3. ASSUME NEW ch \in Channels, Queue(p, ch)
          PROVE  /\ called' = called /\ \A q \in Callers \ {p} : call'[q] = call[q]
                 /\ call'[p].event = call[p].event /\ call'[p].pc # "idle" /\ call[p].pc # "idle"
      BY <1>0, <3>3 DEF Queue, Call, ghosts
    <3> QED BY <1>5, <3>1, <3>2, <3>3
  <2> DEFINE e == call[p].event
  <2>2. call'[p].pc = "queue" /\ call'[p].hold => MayBeHeld(call'[p].event, call'[p].digest)
    <3>1. CASE Bell(p)
      BY <1>0, <3>1 DEF Bell, Call
    <3>2. CASE Decide(p)
      <4>1. call'[p].hold = Holds(KindOf[e]) /\ call'[p].digest = Digested(KindOf[e])
        BY <1>0, <3>2 DEF Decide, Call
      <4> QED BY <2>1, <4>1 DEF MayBeHeld, Group, Holds, Digested, digestible
    <3>3. ASSUME NEW ch \in Channels, Queue(p, ch)
          PROVE  call'[p].hold => MayBeHeld(call'[p].event, call'[p].digest)
      <4>1. call[p].pc = "queue" /\ call'[p].hold = call[p].hold /\ call'[p].digest = call[p].digest
        BY <1>0, <3>3 DEF Queue, Call
      <4> QED BY <2>1, <4>1 DEF Calls, MayBeHeld, Group
    <3> QED BY <1>5, <3>1, <3>2, <3>3
  <2> QED BY <2>1, <2>2 DEF Calls, MayBeHeld, Group
<1>6. ASSUME NEW p \in Callers, Return(p) \/ Abort(p)
      PROVE  Calls'
  BY <1>2, <1>6 DEF Return, Abort, ghosts
<1>7. CASE Notifying
  BY <1>4, <1>5, <1>6, <1>7 DEF Notifying
<1>8. CASE Befalls
  BY <1>1, <1>3, <1>8, BefallsKeeps
<1>9. CASE Choosing \/ vars' = vars
  BY <1>1, <1>9, ChoosingIsAside, StillKeeps DEF Aside
<1>10. CASE Release \/ Deliver
  BY <1>1, <1>10, ReleaseKeeps, DeliverKeeps
<1> QED BY <1>7, <1>8, <1>9, <1>10 DEF Next, Befalls

-----------------------------------------------------------------------------
(***************************************************************************)
(* What a step does to the messages: it implements a step of Outbox        *)
(***************************************************************************)

\* The messages of held rows and rows of the queue.
InRows(H, Q) == {<<r.event, r.ch>> : r \in H} \cup UNION {d.events \X {d.ch} : d \in Q}

LEMMA InRowsIs ==
  ASSUME NEW H \in SUBSET HeldRow, NEW Q \in SUBSET QueueRow
  PROVE  /\ InRows(H, Q) \subseteq Messages
         /\ \A e \in Events, ch \in Channels :
              <<e, ch>> \in InRows(H, Q) <=> HeldIn(H, e, ch) \/ QueuedIn(Q, e, ch)
<1>1. ASSUME NEW r \in H
      PROVE  <<r.event, r.ch>> \in Messages
  BY DEF HeldRow, Messages
<1>2. ASSUME NEW d \in Q
      PROVE  d.events \X {d.ch} \subseteq Messages
  BY DEF QueueRow, Messages
<1>3. InRows(H, Q) \subseteq Messages
  BY <1>1, <1>2 DEF InRows
<1>4. ASSUME NEW e \in Events, NEW ch \in Channels
      PROVE  <<e, ch>> \in InRows(H, Q) <=> HeldIn(H, e, ch) \/ QueuedIn(Q, e, ch)
  <2>1. <<e, ch>> \in {<<r.event, r.ch>> : r \in H} <=> HeldIn(H, e, ch)
    BY DEF HeldIn
  <2>2. <<e, ch>> \in UNION {d.events \X {d.ch} : d \in Q} <=> QueuedIn(Q, e, ch)
    BY DEF QueuedIn
  <2> QED BY <2>1, <2>2 DEF InRows
<1> QED BY <1>3, <1>4

LEMMA SameMessages ==
  ASSUME NEW S \in SUBSET Messages, NEW T \in SUBSET Messages,
         \A e \in Events, ch \in Channels : <<e, ch>> \in S <=> <<e, ch>> \in T
  PROVE  S = T
BY DEF Messages

LEMMA WaitingIs ==
  ASSUME TypeOK
  PROVE  /\ waiting = InRows(held, queue) /\ waiting \subseteq Messages
         /\ told \subseteq Messages /\ dropped \subseteq Messages
         /\ \A e \in Events, ch \in Channels :
              <<e, ch>> \in waiting <=> IsHeld(e, ch) \/ IsQueued(e, ch)
<1>1. waiting = InRows(held, queue)
  BY DEF waiting, InRows
<1>2. held \in SUBSET HeldRow /\ queue \in SUBSET QueueRow
  BY DEF TypeOK
<1>3. /\ waiting \subseteq Messages
      /\ \A e \in Events, ch \in Channels : <<e, ch>> \in waiting <=> IsHeld(e, ch) \/ IsQueued(e, ch)
  BY <1>1, <1>2, InRowsIs DEF IsHeld, IsQueued
<1> QED BY <1>1, <1>3 DEF told, TypeOK

\* The same rows, for what they carry: the same messages.
LEMMA SameRows ==
  ASSUME TypeOK, TypeOK',
         \A e \in Events, ch \in Channels :
           HeldIn(held', e, ch) \/ QueuedIn(queue', e, ch) <=> IsHeld(e, ch) \/ IsQueued(e, ch)
  PROVE  waiting' = waiting
<1>1. held' \in SUBSET HeldRow /\ queue' \in SUBSET QueueRow
  BY DEF TypeOK
<1>2. waiting' = InRows(held', queue')
  BY DEF waiting, InRows
<1>3. waiting' \subseteq Messages /\ waiting \subseteq Messages
  BY <1>1, <1>2, InRowsIs, WaitingIs
<1>4. \A e \in Events, ch \in Channels : <<e, ch>> \in waiting' <=> <<e, ch>> \in waiting
  BY <1>1, <1>2, InRowsIs, WaitingIs
<1> QED BY <1>3, <1>4, SameMessages

\* A call that queues a message, or holds it, accepts one that is new.
LEMMA QueueAccepts ==
  ASSUME NotifyInv, TypeOK', NEW p \in Callers, NEW ch \in Channels, Queue(p, ch)
  PROVE  /\ call[p].event \in Events /\ <<call[p].event, ch>> \in Messages
         /\ <<call[p].event, ch>> \notin waiting \cup told \cup dropped
         /\ waiting' = waiting \cup {<<call[p].event, ch>>}
         /\ told' = told /\ dropped' = dropped
<1> USE DEF NotifyInv
<1> DEFINE e == call[p].event
<1>1. e \in Events /\ call[p].pc = "queue" /\ ch \in call[p].todo
  BY DEF Queue, Calls, TypeOK
<1>2. MayCome(e, ch)
  BY <1>1 DEF MayCome
<1>3. <<e, ch>> \notin waiting \cup told \cup dropped
  BY <1>1, <1>2 DEF ComesOnce, Over
<1> HIDE DEF e
<1>4. <<e, ch>> \in Messages
  BY <1>1 DEF Messages
<1>5. waiting = InRows(held, queue) /\ waiting' = InRows(held', queue')
  BY DEF waiting, InRows
<1>6. waiting' = waiting \cup {<<e, ch>>}
  <2>1. CASE /\ queue' = queue
             /\ held' = held \cup {[event |-> e, ch |-> ch, digest |-> call[p].digest, ripe |-> FALSE]}
    <3>1. PICK r : r.event = e /\ r.ch = ch /\ held' = held \cup {r}
      BY <2>1
    <3>2. InRows(held \cup {r}, queue) = InRows(held, queue) \cup {<<r.event, r.ch>>}
      BY DEF InRows
    <3> QED BY <1>5, <2>1, <3>1, <3>2
  <2>2. CASE FreeIds # {} /\ queue' = Enqueued(ch, {e}) /\ held' = held
    <3>1. {e} \in (SUBSET Events) \ {{}}
      BY <1>1
    <3>2. PICK d \in QueueRow : d.ch = ch /\ d.events = {e} /\ queue' = queue \cup {d}
      BY <2>2, <3>1, EnqueuedRow
    <3>3. InRows(held, queue \cup {d}) = InRows(held, queue) \cup d.events \X {d.ch}
      BY DEF InRows
    <3>4. {e} \X {ch} = {<<e, ch>>}
      OBVIOUS
    <3> QED BY <1>5, <2>2, <3>2, <3>3, <3>4
  <2> QED BY <2>1, <2>2 DEF Queue, e
<1>7. sends' = sends /\ dropped' = dropped
  BY DEF Queue, ghosts
<1> QED BY <1>1, <1>3, <1>4, <1>6, <1>7 DEF told, e

\* On the way from held to queued no message is lost, and none appears.
LEMMA ReleaseKeepsMessages ==
  ASSUME NotifyInv, TypeOK', Release
  PROVE  UNCHANGED <<waiting, told, dropped>>
<1> USE DEF NotifyInv
<1>1. told' = told /\ dropped' = dropped
  BY ReleaseKeeps DEF told
<1>2. ASSUME UNCHANGED <<held, queue>>
      PROVE  waiting' = waiting
  BY <1>2 DEF waiting
<1>3. CASE ReleaseRead \/ ReleaseNext \/ ReleaseEnd
  BY <1>1, <1>2, <1>3 DEF ReleaseRead, ReleaseNext, ReleaseEnd, tables
<1>4. ASSUME NEW ch \in Channels, ReleaseBundle(ch)
      PROVE  waiting' = waiting
  <2> DEFINE events == {r.event : r \in OnChannel(ch)}
  <2>1. events \in (SUBSET Events) \ {{}}
    <3>1. OnChannel(ch) \subseteq HeldRow /\ OnChannel(ch) # {}
      BY <1>4 DEF ReleaseBundle, OnChannel, HeldRows, TypeOK
    <3> QED BY <3>1 DEF HeldRow
  <2>2. PICK d \in QueueRow : d.ch = ch /\ d.events = events /\ queue' = queue \cup {d}
    <3>1. queue' = Enqueued(ch, events) /\ FreeIds # {}
      BY <1>4 DEF ReleaseBundle
    <3> HIDE DEF events
    <3> QED BY <2>1, <3>1, EnqueuedRow
  <2>3. \A f \in d.events : IsHeld(f, ch)
    BY <2>2 DEF OnChannel, HeldRows, IsHeld, HeldIn
  <2>4. held' = held
    BY <1>4 DEF ReleaseBundle
  <2> HIDE DEF events
  <2> QED BY <2>2, <2>3, <2>4, SameRows DEF IsHeld, IsQueued, HeldIn, QueuedIn
<1>5. ASSUME NEW r \in worker.now, ReleaseDelete(r)
      PROVE  waiting' = waiting
  <2>1. IsQueued(r.event, r.ch) /\ r \in held
    BY DEF HeldRows
  <2>2. held' = held \ {r} /\ queue' = queue
    BY <1>5 DEF ReleaseDelete
  <2> QED BY <2>1, <2>2, SameRows DEF IsHeld, IsQueued, HeldIn, QueuedIn
<1> QED BY <1>1, <1>3, <1>4, <1>5 DEF Release

\* The messages of a row, and what goes with it.
Of(d) == d.events \X {d.ch}

LEMMA RowsMessages ==
  ASSUME NotifyInv, NEW d \in queue
  PROVE  Of(d) \subseteq waiting /\ Of(d) # {} /\ Of(d) \subseteq Messages
<1>1. d \in QueueRow
  BY DEF NotifyInv, TypeOK
<1>2. Of(d) \subseteq waiting
  BY DEF waiting, Of
<1>3. Of(d) # {}
  <2>1. PICK e \in d.events : TRUE
    BY <1>1 DEF QueueRow
  <2>2. <<e, d.ch>> \in Of(d)
    BY DEF Of
  <2> QED BY <2>2
<1>4. Of(d) \subseteq Messages
  BY <1>1 DEF Of, QueueRow, Messages
<1> QED BY <1>2, <1>3, <1>4

LEMMA DeletedRow ==
  ASSUME NotifyInv, NEW d \in queue, queue' = Delete(d.id), held' = held
  PROVE  waiting' \subseteq waiting /\ waiting \ waiting' \subseteq Of(d)
<1>1. \A q \in queue : q # d => q \in queue'
  BY DEF Delete, NotifyInv, WorksOnRows
<1>2. queue' \subseteq queue
  BY DEF Delete
<1> QED BY <1>1, <1>2 DEF waiting, Of

LEMMA RescheduledKeepsMessages ==
  ASSUME NotifyInv, TypeOK', held' = held, AsIn(queue, queue'), AsIn(queue', queue)
  PROVE  waiting' = waiting
<1>1. \A e, ch : QueuedIn(queue', e, ch) <=> QueuedIn(queue, e, ch)
  BY DEF AsIn, QueuedIn
<1> QED BY <1>1, SameRows DEF NotifyInv, IsHeld, IsQueued

LEMMA DeliverMessages ==
  ASSUME NotifyInv, TypeOK', Deliver
  PROVE  \/ UNCHANGED <<waiting, told, dropped>>
         \/ Box!Tell \/ Box!Finish \/ Box!GiveUp
<1> USE DEF NotifyInv
<1>1. held' = held
  BY DeliverKeeps
<1>2. ASSUME UNCHANGED <<queue, sends, dropped>>
      PROVE  UNCHANGED <<waiting, told, dropped>>
  BY <1>1, <1>2 DEF waiting, told
<1>3. CASE DeliverList \/ DeliverEnd
  BY <1>2, <1>3 DEF DeliverList, DeliverEnd, tables, ghosts
<1>4. ASSUME NEW d \in queue, queue' = Reschedule(d.id, d.tries) \/ queue' = Reschedule(d.id, d.tries + 1),
             d.tries + 1 \in 0 .. Backoffs \/ queue' = Reschedule(d.id, d.tries), UNCHANGED <<sends, dropped>>
      PROVE  UNCHANGED <<waiting, told, dropped>>
  <2>1. d.tries \in 0 .. Backoffs /\ queue \subseteq QueueRow
    BY DEF TypeOK, QueueRow
  <2>2. AsIn(queue, queue') /\ AsIn(queue', queue)
    BY <1>4, <2>1, RescheduledRows
  <2>3. waiting' = waiting
    BY <1>1, <2>2, RescheduledKeepsMessages
  <2> QED BY <1>4, <2>3 DEF told
<1>5. ASSUME NEW d \in queue, queue' = Delete(d.id), sends' = sends, dropped' = dropped \cup Of(d)
      PROVE  Box!GiveUp
  <2>1. Of(d) \in (SUBSET waiting) \ {{}}
    BY RowsMessages
  <2>2. waiting' \subseteq waiting /\ waiting \ waiting' \subseteq Of(d)
    BY <1>1, <1>5, DeletedRow
  <2>3. waiting' = waiting \ (waiting \ waiting') /\ waiting \ waiting' \in SUBSET Of(d)
    BY <2>2
  <2>4. told' = told
    BY <1>5 DEF told
  <2> QED BY <1>5, <2>1, <2>3, <2>4 DEF Box!GiveUp
<1>6. worker.pc \in {"sending", "sent"} =>
        Row(worker.cur) \in queue /\ Row(worker.cur).id = worker.cur
  BY RowIsRow DEF WorksOnRows
<1>7. CASE SendOK
  <2> DEFINE d == Row(worker.cur)
  <2>1. d \in queue
    BY <1>6, <1>7 DEF SendOK
  <2>2. sends' = [m \in Messages |-> sends[m] + (IF m \in Of(d) THEN 1 ELSE 0)] /\ UNCHANGED <<queue, dropped>>
    BY <1>7 DEF SendOK, Of, tables
  <2> HIDE DEF d
  <2>3. Of(d) \in (SUBSET waiting) \ {{}} /\ Of(d) \subseteq Messages
    BY <2>1, RowsMessages
  <2>4. told' = told \cup Of(d)
    BY <2>2, <2>3 DEF told, TypeOK
  <2>5. waiting' = waiting
    BY <1>1, <2>2 DEF waiting
  <2> QED BY <2>2, <2>3, <2>4, <2>5 DEF Box!Tell
<1>8. CASE Sent
  <2> DEFINE d == Row(worker.cur)
  <2>1. d \in queue /\ queue' = Delete(d.id) /\ UNCHANGED <<sends, dropped>>
    BY <1>6, <1>8 DEF Sent, ghosts
  <2>2. \A e \in d.events : sends[<<e, d.ch>>] > 0
    BY <1>6, <1>8 DEF Sent, WorksOnRows
  <2> HIDE DEF d
  <2>3. Of(d) \subseteq told /\ Of(d) \subseteq waiting
    BY <2>1, <2>2, RowsMessages DEF told, Of
  <2>4. waiting' \subseteq waiting /\ waiting \ waiting' \subseteq Of(d)
    BY <1>1, <2>1, DeletedRow
  <2>5. waiting' = waiting \ (waiting \ waiting') /\ waiting \ waiting' \in SUBSET (waiting \cap told)
    BY <2>3, <2>4
  <2>6. told' = told
    BY <2>1 DEF told
  <2> QED BY <2>1, <2>5, <2>6 DEF Box!Finish
<1>9. CASE SendRetry
  <2> DEFINE d == Row(worker.cur)
  <2>1. d \in queue /\ queue' = Reschedule(d.id, d.tries + 1) /\ UNCHANGED <<sends, dropped>> /\ d.tries + 1 <= Backoffs
    BY <1>6, <1>9 DEF SendRetry, ghosts
  <2> HIDE DEF d
  <2>2. d.tries + 1 \in 0 .. Backoffs
    BY <2>1, NotifyConstants DEF TypeOK, QueueRow
  <2> QED BY <1>4, <2>1, <2>2
<1>10. CASE SendDrop
  BY <1>5, <1>6, <1>10 DEF SendDrop, Of
<1>11. ASSUME NEW id \in worker.due, DeliverNowhere(id) \/ DeliverCapped(id) \/ DeliverStart(id)
       PROVE  UNCHANGED <<waiting, told, dropped>> \/ Box!GiveUp
  <2>1. Row(id) \in queue /\ Row(id).id = id
    BY RowIsRow DEF WorksOnRows
  <2>2. CASE DeliverNowhere(id)
    BY <1>5, <2>1, <2>2 DEF DeliverNowhere, Of
  <2>3. CASE DeliverCapped(id)
    BY <1>4, <2>1, <2>3 DEF DeliverCapped, ghosts
  <2>4. CASE DeliverStart(id)
    BY <1>2, <2>4 DEF DeliverStart, tables, ghosts
  <2> QED BY <1>11, <2>2, <2>3, <2>4
<1> QED BY <1>3, <1>7, <1>8, <1>9, <1>10, <1>11 DEF Deliver

LEMMA BefallsKeepsMessages ==
  ASSUME NotifyInv, TypeOK', Befalls
  PROVE  UNCHANGED <<waiting, told, dropped>>
<1>1. told' = told /\ dropped' = dropped
  BY BefallsKeeps DEF told
<1>2. CASE HourPasses
  <2>1. queue' = queue
    BY <1>2 DEF HourPasses
  <2>2. \A e, ch : HeldIn(held', e, ch) <=> HeldIn(held, e, ch)
    <3>1. ASSUME NEW r \in held
          PROVE  LET q == IF r.digest THEN [r EXCEPT !.ripe = TRUE] ELSE r
                 IN  q.event = r.event /\ q.ch = r.ch
      BY DEF NotifyInv, TypeOK, HeldRow
    <3> QED BY <1>2, <3>1 DEF HourPasses, HeldIn
  <2> QED BY <1>1, <2>1, <2>2, SameRows DEF NotifyInv, IsHeld, IsQueued
<1>3. ASSUME NEW d \in queue, ComesDue(d)
      PROVE  waiting' = waiting
  <2>1. LET q == [d EXCEPT !.due = TRUE] IN q.id = d.id /\ q.ch = d.ch /\ q.events = d.events
    BY DEF NotifyInv, TypeOK, QueueRow
  <2>2. AsIn(queue, queue') /\ AsIn(queue', queue)
    BY <1>3, <2>1 DEF ComesDue, AsIn
  <2>3. held' = held
    BY <1>3 DEF ComesDue
  <2> QED BY <2>2, <2>3, RescheduledKeepsMessages
<1>4. CASE UNCHANGED <<held, queue>>
  BY <1>1, <1>4 DEF waiting
<1> QED BY <1>1, <1>2, <1>3, <1>4 DEF Befalls, Wake, Crash, LoseWrite, Expire, tables

\* Every step is a step of Outbox or leaves the messages alone.
LEMMA MessagesStep ==
  ASSUME NotifyInv, TypeOK', [Next]_vars
  PROVE  \/ UNCHANGED <<waiting, told, dropped>>
         \/ Box!Tell \/ Box!Finish \/ Box!GiveUp
         \/ \E p \in Callers, ch \in Channels : Queue(p, ch)
<1>1. ASSUME UNCHANGED <<held, queue, sends, dropped>>
      PROVE  UNCHANGED <<waiting, told, dropped>>
  BY <1>1 DEF waiting, told
<1>2. ASSUME NEW p \in Callers, (\E e \in Events : Claim(p, e)) \/ Bell(p) \/ Decide(p) \/ Return(p) \/ Abort(p)
      PROVE  UNCHANGED <<waiting, told, dropped>>
  BY <1>1, <1>2 DEF Claim, Bell, Decide, Return, Abort, tables, ghosts
<1>3. CASE Choosing \/ vars' = vars
  BY <1>1, <1>3, ChoosingIsAside, StillKeeps DEF Aside, NotifyInv
<1> QED BY <1>2, <1>3, ReleaseKeepsMessages, DeliverMessages, BefallsKeepsMessages
        DEF Next, Notifying, Befalls

LEMMA OutboxStep ==
  ASSUME NotifyInv, TypeOK', [Next]_vars
  PROVE  [Box!Next]_(Box!box)
<1>1. ASSUME NEW p \in Callers, NEW ch \in Channels, Queue(p, ch)
      PROVE  Box!Accept
  BY <1>1, QueueAccepts DEF Box!Accept
<1> QED BY <1>1, MessagesStep DEF Box!Next, Box!box

\* What was accepted stays so, and only a call accepts.
LEMMA OverStep ==
  ASSUME NotifyInv, TypeOK', [Next]_vars
  PROVE  \/ Over' = Over
         \/ \E p \in Callers, ch \in Channels : Queue(p, ch) /\ Over' = Over \cup {<<call[p].event, ch>>}
<1>1. ASSUME NEW p \in Callers, NEW ch \in Channels, Queue(p, ch)
      PROVE  Over' = Over \cup {<<call[p].event, ch>>}
  BY <1>1, QueueAccepts DEF Over
<1>2. CASE UNCHANGED <<waiting, told, dropped>>
  BY <1>2 DEF Over
<1>3. CASE Box!Tell \/ Box!Finish \/ Box!GiveUp
  BY <1>3 DEF Over, Box!Tell, Box!Finish, Box!GiveUp
<1> QED BY <1>1, <1>2, <1>3, MessagesStep

LEMMA ComesOnceStep ==
  ASSUME NotifyInv, TypeOK', [Next]_vars
  PROVE  ComesOnce'
<1> USE DEF NotifyInv
<1>0. call \in [Callers -> Call]
  BY DEF TypeOK
<1>1. ASSUME ~Notifying
      PROVE  ComesOnce'
  <2>1. called' = called /\ (call' = call \/ call' = [p \in Callers |-> NotCalling])
    BY <1>1, ReleaseKeeps, DeliverKeeps, BefallsKeeps, ChoosingIsAside, StillKeeps DEF Next, Befalls, Aside
  <2>2. \A e \in Events, ch \in Channels : MayCome(e, ch)' => MayCome(e, ch)
    BY <2>1, NotifyConstants DEF MayCome, NotCalling
  <2>3. Over' = Over
    BY <1>1, OverStep DEF Notifying
  <2> QED BY <2>2, <2>3 DEF ComesOnce
<1>2. ASSUME NEW p \in Callers, NEW e \in Events, Claim(p, e)
      PROVE  ComesOnce'
  <2>1. Over' = Over
    BY <1>2, MessagesStep DEF Claim, Over, waiting, told
  <2>2. \A f \in Events, ch \in Channels : MayCome(f, ch)' => MayCome(f, ch)
    BY <1>0, <1>2 DEF Claim, MayCome, Call
  <2> QED BY <2>1, <2>2 DEF ComesOnce
<1>3. ASSUME NEW p \in Callers, Bell(p) \/ Decide(p) \/ Return(p) \/ Abort(p)
      PROVE  ComesOnce'
  <2>1. Over' = Over
    BY <1>3 DEF Bell, Decide, Return, Abort, Over, waiting, told, tables, ghosts
  <2>2. called' = called
    BY <1>3 DEF Bell, Decide, Return, Abort, ghosts
  <2>3. /\ \A q \in Callers \ {p} : call'[q] = call[q]
        /\ \/ call'[p] = NotCalling
           \/ call'[p].event = call[p].event /\ call[p].pc = "bell" /\ call'[p].pc # "bell"
           \/ call'[p].event = call[p].event /\ call'[p].pc # "bell" /\ call'[p].todo \subseteq call[p].todo
    <3>1. CASE Bell(p)
      BY <1>0, <3>1 DEF Bell, Call
    <3>2. CASE Decide(p)
      BY <1>0, <3>2 DEF Decide, Call
    <3>3. CASE Return(p) \/ Abort(p)
      BY <1>0, <3>3 DEF Return, Abort
    <3> QED BY <1>3, <3>1, <3>2, <3>3
  <2>4. \A f \in Events, ch \in Channels : MayCome(f, ch)' => MayCome(f, ch)
    BY <2>2, <2>3, NotifyConstants DEF MayCome, NotCalling
  <2> QED BY <2>1, <2>4 DEF ComesOnce
<1>4. ASSUME NEW p \in Callers, NEW ch \in Channels, Queue(p, ch)
      PROVE  ComesOnce'
  <2>1. Over' = Over \cup {<<call[p].event, ch>>}
    BY <1>4, QueueAccepts DEF Over
  <2>2. called' = called /\ call[p].pc = "queue"
    BY <1>4 DEF Queue, ghosts
  <2>3. /\ \A q \in Callers \ {p} : call'[q] = call[q]
        /\ call'[p].event = call[p].event /\ call'[p].pc = "queue" /\ call'[p].todo = call[p].todo \ {ch}
    BY <1>0, <1>4 DEF Queue, Call
  <2>4. \A f \in Events, c \in Channels : MayCome(f, c)' => MayCome(f, c)
    BY <2>2, <2>3 DEF MayCome
  <2>5. ASSUME NEW f \in Events, NEW c \in Channels, MayCome(f, c)'
        PROVE  <<f, c>> \notin Over'
    <3>1. <<f, c>> \notin Over
      BY <2>4, <2>5 DEF ComesOnce
    <3>2. ~(f = call[p].event /\ c = ch)
      BY <2>2, <2>3, <2>5 DEF MayCome, Calls
    <3> QED BY <2>1, <3>1, <3>2
  <2> QED BY <2>5 DEF ComesOnce
<1> QED BY <1>1, <1>2, <1>3, <1>4 DEF Notifying

-----------------------------------------------------------------------------
(***************************************************************************)
(* The held rows                                                           *)
(***************************************************************************)

LEMMA HeldRowsNotifying ==
  ASSUME NotifyInv, Notifying
  PROVE  HeldRows'
<1> USE DEF NotifyInv
<1>0. worker' = worker
  BY NotifyingKeeps
<1>1. ASSUME UNCHANGED <<held, queue>>
      PROVE  HeldRows'
  BY <1>0, <1>1 DEF HeldRows, IsQueued, MayBeHeld, Group
<1>2. ASSUME NEW p \in Callers, (\E e \in Events : Claim(p, e)) \/ Bell(p) \/ Decide(p) \/ Return(p) \/ Abort(p)
      PROVE  HeldRows'
  BY <1>1, <1>2 DEF Claim, Bell, Decide, Return, Abort, tables
<1>3. ASSUME NEW p \in Callers, NEW ch \in Channels, Queue(p, ch)
      PROVE  HeldRows'
  <2> DEFINE e == call[p].event
             x == [event |-> e, ch |-> ch, digest |-> call[p].digest, ripe |-> FALSE]
  <2>1. call[p].pc = "queue" /\ e \in Events
    BY <1>3 DEF Queue, Calls, TypeOK
  <2>2. ~IsHeld(e, ch)
    <3>1. ch \in call[p].todo
      BY <1>3 DEF Queue
    <3>2. <<e, ch>> \notin waiting
      BY <2>1, <3>1 DEF ComesOnce, MayCome, Over
    <3> QED BY <2>1, <3>2, WaitingIs
  <2>3. CASE call[p].hold /\ held' = held \cup {x} /\ queue' = queue
    <3>1. x.event = e /\ x.ch = ch /\ MayBeHeld(x.event, x.digest)
      BY <2>1, <2>3 DEF Calls
    <3> HIDE DEF x, e
    <3>2. \A r, s \in held' : r.event = s.event /\ r.ch = s.ch => r = s
      BY <2>2, <2>3, <3>1 DEF HeldRows, IsHeld, HeldIn
    <3>3. \A r \in held' : MayBeHeld(r.event, r.digest)
      BY <2>3, <3>1 DEF HeldRows
    <3>4. held \subseteq held'
      BY <2>3
    <3> QED BY <1>0, <2>3, <3>2, <3>3, <3>4 DEF HeldRows, IsQueued, MayBeHeld, Group
  <2>4. CASE held' = held /\ FreeIds # {} /\ queue' = Enqueued(ch, {e})
    <3>1. queue \subseteq queue'
      BY <2>4 DEF Enqueued
    <3> QED BY <1>0, <2>4, <3>1 DEF HeldRows, IsQueued, QueuedIn, MayBeHeld, Group
  <2> QED BY <1>3, <2>3, <2>4 DEF Queue
<1> QED BY <1>2, <1>3 DEF Notifying

LEMMA HeldRowsRelease ==
  ASSUME NotifyInv, Release
  PROVE  HeldRows'
<1> USE DEF NotifyInv
<1>0. worker \in Worker
  BY DEF TypeOK
<1>1. CASE ReleaseRead
  <2>1. /\ held' = held /\ queue' = queue /\ worker'.now = {}
        /\ worker'.rows \subseteq {r \in held : r.digest => r.ripe}
    BY <1>0, <1>1 DEF ReleaseRead, HeldRows, Worker, tables
  <2> QED BY <2>1 DEF HeldRows, MayBeHeld, Group
<1>2. CASE ReleaseNext \/ ReleaseEnd
  <2>1. held' = held /\ queue' = queue /\ worker'.now = {} /\ worker'.rows = worker.rows
    BY <1>0, <1>2 DEF ReleaseNext, ReleaseEnd, HeldRows, Worker, tables
  <2> QED BY <2>1 DEF HeldRows, MayBeHeld, Group
<1>3. ASSUME NEW ch \in Channels, ReleaseBundle(ch)
      PROVE  HeldRows'
  <2> DEFINE events == {r.event : r \in OnChannel(ch)}
  <2>1. /\ worker'.now = OnChannel(ch) /\ worker'.rows = worker.rows \ OnChannel(ch)
        /\ worker'.pc = "unhold" /\ held' = held
    BY <1>0, <1>3 DEF ReleaseBundle, Worker
  <2>2. \A r \in OnChannel(ch) : r \in worker.rows /\ r.ch = ch /\ r.event \in events
    BY DEF OnChannel
  <2>3. PICK d \in QueueRow : d.ch = ch /\ d.events = events /\ queue' = queue \cup {d}
    <3>1. events \in (SUBSET Events) \ {{}}
      <4>1. OnChannel(ch) \subseteq HeldRow /\ OnChannel(ch) # {}
        BY <1>3 DEF ReleaseBundle, OnChannel, HeldRows, TypeOK
      <4> QED BY <4>1 DEF HeldRow
    <3>2. queue' = Enqueued(ch, events) /\ FreeIds # {}
      BY <1>3 DEF ReleaseBundle
    <3> HIDE DEF events
    <3> QED BY <3>1, <3>2, EnqueuedRow
  <2> HIDE DEF events
  <2>4. \A r \in worker'.now : IsQueued(r.event, r.ch)'
    BY <2>1, <2>2, <2>3 DEF IsQueued, QueuedIn
  <2> QED BY <2>1, <2>2, <2>4 DEF HeldRows, MayBeHeld, Group
<1>4. ASSUME NEW r \in worker.now, ReleaseDelete(r)
      PROVE  HeldRows'
  <2>1. /\ worker'.now = worker.now \ {r} /\ worker'.rows = worker.rows /\ worker'.pc = worker.pc
        /\ held' = held \ {r} /\ queue' = queue
    BY <1>0, <1>4 DEF ReleaseDelete, Worker
  <2> QED BY <2>1 DEF HeldRows, IsQueued, MayBeHeld, Group
<1> QED BY <1>1, <1>2, <1>3, <1>4 DEF Release

\* A worker that is past the release has nothing left of a bundle.
LEMMA HeldRowsDeliver ==
  ASSUME NotifyInv, Deliver
  PROVE  HeldRows'
<1> USE DEF NotifyInv
<1>0. worker \in Worker
  BY DEF TypeOK
<1>1. held' = held
  BY DeliverKeeps
<1>2. worker.pc \notin {"unhold"}
  BY DEF Deliver, DeliverList, DeliverEnd, SendOK, Sent, SendRetry, SendDrop,
         DeliverNowhere, DeliverCapped, DeliverStart
<1>3. worker'.rows \subseteq worker.rows /\ worker'.now = worker.now
  <2>1. CASE DeliverEnd
    BY <1>2, <2>1 DEF DeliverEnd, Waiting, HeldRows
  <2>2. CASE DeliverList \/ SendOK \/ Sent \/ SendRetry \/ SendDrop
    BY <1>0, <2>2 DEF DeliverList, SendOK, Sent, SendRetry, SendDrop, Worker
  <2>3. ASSUME NEW id \in worker.due, DeliverNowhere(id) \/ DeliverCapped(id) \/ DeliverStart(id)
        PROVE  worker'.rows \subseteq worker.rows /\ worker'.now = worker.now
    BY <1>0, <2>3 DEF DeliverNowhere, DeliverCapped, DeliverStart, Worker
  <2> QED BY <2>1, <2>2, <2>3 DEF Deliver
<1> QED BY <1>1, <1>2, <1>3 DEF HeldRows, MayBeHeld, Group

LEMMA HeldRowsBefalls ==
  ASSUME NotifyInv, Befalls
  PROVE  HeldRows'
<1> USE DEF NotifyInv
<1>0. worker \in Worker /\ held \subseteq HeldRow /\ queue \subseteq QueueRow
  BY DEF TypeOK
<1>1. CASE HourPasses
  <2>1. worker' = worker /\ queue' = queue
    BY <1>1 DEF HourPasses, memory
  <2> DEFINE q(r) == IF r.digest THEN [r EXCEPT !.ripe = TRUE] ELSE r
  <2>2. ASSUME NEW r \in held
        PROVE  /\ q(r).event = r.event /\ q(r).ch = r.ch /\ q(r).digest = r.digest
               /\ (r.digest => r.ripe) => q(r) = r
    BY <1>0 DEF HeldRow
  <2>3. held' = held \/ held' = {q(r) : r \in held}
    BY <1>1 DEF HourPasses
  <2> HIDE DEF q
  <2>4. worker.rows \subseteq held' /\ worker.now \subseteq held'
    BY <2>2, <2>3 DEF HeldRows
  <2>5. \A r, s \in held' : r.event = s.event /\ r.ch = s.ch => r = s
    BY <2>2, <2>3 DEF HeldRows
  <2>6. \A r \in held' : MayBeHeld(r.event, r.digest)
    BY <2>2, <2>3 DEF HeldRows
  <2> QED BY <2>1, <2>4, <2>5, <2>6 DEF HeldRows, IsQueued, MayBeHeld, Group
<1>2. CASE Wake \/ \E ch \in ViaInstallation : Expire(ch)
  <2>1. held' = held /\ queue' = queue /\ worker'.rows = worker.rows /\ worker'.now = worker.now
    BY <1>0, <1>2 DEF Wake, Expire, tables, Worker
  <2>2. worker'.pc = worker.pc \/ worker.pc = "wait"
    BY <1>2 DEF Wake, Expire
  <2> QED BY <2>1, <2>2 DEF HeldRows, IsQueued, MayBeHeld, Group
<1>3. CASE Crash
  <2>1. held' = held /\ worker'.rows = {} /\ worker'.now = {}
    BY <1>3 DEF Crash, tables, Waiting
  <2> QED BY <2>1 DEF HeldRows, MayBeHeld, Group
<1>4. CASE LoseWrite
  <2>1. held' = held /\ queue' = queue
    BY <1>4 DEF LoseWrite, tables
  <2>2. /\ worker'.rows \subseteq worker.rows /\ worker'.now \subseteq worker.now
        /\ worker'.now # {} => worker'.pc = "unhold"
    BY <1>0, <1>4 DEF LoseWrite, Worker, OnChannel, HeldRows
  <2> QED BY <2>1, <2>2 DEF HeldRows, IsQueued, MayBeHeld, Group
<1>5. ASSUME NEW d \in queue, ComesDue(d)
      PROVE  HeldRows'
  <2>1. held' = held /\ worker' = worker
    BY <1>5 DEF ComesDue, memory
  <2>2. \A e, ch : IsQueued(e, ch) => IsQueued(e, ch)'
    <3>1. LET q == [d EXCEPT !.due = TRUE] IN q.ch = d.ch /\ q.events = d.events
      BY <1>0 DEF QueueRow
    <3> QED BY <1>5, <3>1 DEF ComesDue, IsQueued, QueuedIn
  <2> QED BY <2>1, <2>2 DEF HeldRows, MayBeHeld, Group
<1> QED BY <1>1, <1>2, <1>3, <1>4, <1>5 DEF Befalls

LEMMA HeldRowsStep ==
  ASSUME NotifyInv, [Next]_vars
  PROVE  HeldRows'
<1>1. CASE Choosing \/ vars' = vars
  <2>1. held' = held /\ queue' = queue /\ worker' = worker
    BY <1>1, ChoosingIsAside, StillKeeps DEF Aside, NotifyInv
  <2> QED BY <2>1 DEF NotifyInv, HeldRows, IsQueued, MayBeHeld, Group
<1> QED BY <1>1, HeldRowsNotifying, HeldRowsRelease, HeldRowsDeliver, HeldRowsBefalls DEF Next, Befalls

-----------------------------------------------------------------------------
(***************************************************************************)
(* The rows the worker is at                                               *)
(***************************************************************************)

\* A new row has an id that nobody names.
LEMMA WorksOnMoreRows ==
  ASSUME NotifyInv, NEW d, \A q \in queue : q.id # d.id, queue' = queue \cup {d}, sends' = sends,
         worker'.pc = worker.pc \/ {worker'.pc, worker.pc} \cap {"sending", "sent"} = {},
         worker'.due = worker.due, worker'.cur = worker.cur
  PROVE  WorksOnRows'
<1> USE DEF NotifyInv, WorksOnRows
<1>1. \A e, q \in queue' : e.id = q.id => e = q
  OBVIOUS
<1>2. \A i \in worker'.due : i # worker'.cur /\ \E q \in queue' : q.id = i
  OBVIOUS
<1>3. CASE worker.pc \in {"sending", "sent"}
  <2>1. worker'.pc = worker.pc /\ \E q \in queue : q.id = worker.cur
    BY <1>3
  <2>2. d.id # worker.cur
    BY <2>1
  <2> QED BY <1>1, <1>2, <1>3, <2>1, <2>2
<1>4. CASE worker.pc \notin {"sending", "sent"}
  <2>1. worker'.pc \notin {"sending", "sent"}
    BY <1>4
  <2> QED BY <1>1, <1>2, <1>4, <2>1
<1> QED BY <1>3, <1>4

\* Rows that change in nothing that matters here.
LEMMA WorksOnSameRows ==
  ASSUME NotifyInv, AsIn(queue, queue'), AsIn(queue', queue), sends' = sends,
         \A d, q \in queue' : d.id = q.id => d = q,
         worker'.due \subseteq worker.due,
         \/ worker'.pc = worker.pc /\ worker'.cur = worker.cur
         \/ worker'.pc \notin {"sending", "sent"} /\ worker'.cur = 0,
         \A i \in worker'.due : i # 0
  PROVE  WorksOnRows'
<1> USE DEF NotifyInv
<1>1. \A i \in worker'.due : i # worker'.cur /\ \E d \in queue' : d.id = i
  BY DEF WorksOnRows, AsIn
<1>2. CASE worker'.pc = worker.pc /\ worker'.cur = worker.cur
  <2>1. IF worker'.pc \in {"sending", "sent"} THEN \E d \in queue' : d.id = worker'.cur
                                              ELSE worker'.cur = 0
    BY <1>2 DEF WorksOnRows, AsIn
  <2>2. worker'.pc = "sent" =>
          \A d \in queue' : d.id = worker'.cur => \A e \in d.events : sends'[<<e, d.ch>>] > 0
    BY <1>2 DEF WorksOnRows, AsIn
  <2> QED BY <1>1, <2>1, <2>2 DEF WorksOnRows
<1>3. CASE worker'.pc \notin {"sending", "sent"} /\ worker'.cur = 0
  BY <1>1, <1>3 DEF WorksOnRows
<1> QED BY <1>2, <1>3

\* A row goes, and the worker is done with it.
LEMMA WorksOnFewerRows ==
  ASSUME NotifyInv, NEW i, queue' = Delete(i),
         worker'.due \subseteq worker.due \ {i}, \A j \in worker'.due : j # 0,
         worker'.pc \notin {"sending", "sent"}, worker'.cur = 0
  PROVE  WorksOnRows'
<1>1. \A d, q \in queue' : d.id = q.id => d = q
  BY DEF NotifyInv, WorksOnRows, Delete
<1>2. \A j \in worker'.due : j # worker'.cur /\ \E d \in queue' : d.id = j
  BY DEF NotifyInv, WorksOnRows, Delete
<1> QED BY <1>1, <1>2 DEF WorksOnRows

LEMMA WorksOnRowsDeliver ==
  ASSUME NotifyInv, Deliver
  PROVE  WorksOnRows'
<1> USE DEF NotifyInv
<1>0. worker \in Worker /\ queue \subseteq QueueRow /\ \A i \in worker.due : i # 0
  BY DEF TypeOK, Worker
<1>1. AsIn(queue, queue)
  BY DEF AsIn
<1>2. CASE DeliverList
  <2>1. /\ queue' = queue /\ sends' = sends /\ worker'.pc = "deliver" /\ worker'.cur = worker.cur
        /\ worker'.due = {d.id : d \in {q \in queue : q.due}} /\ worker.pc = "list"
    BY <1>0, <1>2 DEF DeliverList, Worker, tables, ghosts
  <2>2. \A d \in queue : d.id # 0
    BY <1>0 DEF QueueRow
  <2> QED BY <2>1, <2>2 DEF WorksOnRows
<1>3. CASE DeliverEnd
  <2>1. worker'.due = {} /\ worker'.cur = 0 /\ worker'.pc = "wait" /\ queue' = queue /\ sends' = sends
    BY <1>3 DEF DeliverEnd, Waiting, tables, ghosts
  <2> QED BY <1>1, <2>1, WorksOnSameRows DEF WorksOnRows
<1>4. CASE SendOK
  <2> DEFINE d == Row(worker.cur)
  <2>1. /\ worker'.pc = "sent" /\ worker'.due = worker.due /\ worker'.cur = worker.cur /\ queue' = queue
        /\ worker.pc = "sending"
    BY <1>0, <1>4 DEF SendOK, Worker, tables
  <2>2. d \in queue /\ \A q \in queue : q.id = worker.cur => q = d
    BY <2>1, RowIsRow DEF WorksOnRows
  <2>3. sends' = [m \in Messages |-> sends[m] + (IF m \in d.events \X {d.ch} THEN 1 ELSE 0)]
    BY <1>4 DEF SendOK
  <2> HIDE DEF d
  <2>4. ASSUME NEW e \in d.events
        PROVE  sends'[<<e, d.ch>>] > 0
    <3>1. <<e, d.ch>> \in Messages /\ <<e, d.ch>> \in d.events \X {d.ch}
      BY <1>0, <2>2 DEF QueueRow, Messages
    <3>2. sends[<<e, d.ch>>] \in Nat
      BY <3>1 DEF TypeOK
    <3> QED BY <2>3, <3>1, <3>2
  <2> QED BY <2>1, <2>2, <2>4 DEF WorksOnRows
<1>5. CASE Sent \/ SendDrop
  <2>1. /\ worker'.pc = "deliver" /\ worker'.due = worker.due /\ worker'.cur = 0
        /\ worker.pc \in {"sending", "sent"}
    BY <1>0, <1>5 DEF Sent, SendDrop, Worker
  <2>2. queue' = Delete(worker.cur)
    <3>1. Row(worker.cur).id = worker.cur
      BY <2>1, RowIsRow DEF WorksOnRows
    <3> QED BY <1>5, <3>1 DEF Sent, SendDrop
  <2>3. worker'.due \subseteq worker.due \ {worker.cur}
    BY <2>1 DEF WorksOnRows
  <2> QED BY <1>0, <2>1, <2>2, <2>3, WorksOnFewerRows
<1>6. ASSUME NEW i, NEW tries \in 0 .. Backoffs, queue' = Reschedule(i, tries), sends' = sends,
             worker'.due \subseteq worker.due, worker'.pc \notin {"sending", "sent"}, worker'.cur = 0
      PROVE  WorksOnRows'
  <2>1. AsIn(queue, queue') /\ AsIn(queue', queue)
    BY <1>0, <1>6, RescheduledRows
  <2>2. \A d, q \in queue' : d.id = q.id => d = q
    <3> DEFINE late(d) == IF d.id = i THEN [d EXCEPT !.tries = tries, !.due = FALSE] ELSE d
    <3>1. \A d \in queue : late(d).id = d.id
      BY <1>0 DEF QueueRow
    <3>2. queue' = {late(d) : d \in queue}
      BY <1>6 DEF Reschedule
    <3> HIDE DEF late
    <3> QED BY <3>1, <3>2 DEF WorksOnRows
  <2> QED BY <1>0, <1>6, <2>1, <2>2, WorksOnSameRows
<1>7. CASE SendRetry
  <2> DEFINE d == Row(worker.cur)
  <2>1. d \in queue /\ d.tries + 1 <= Backoffs
    BY <1>7, RowIsRow DEF SendRetry, WorksOnRows
  <2>2. d.tries + 1 \in 0 .. Backoffs
    BY <1>0, <2>1, NotifyConstants DEF QueueRow
  <2>3. /\ queue' = Reschedule(d.id, d.tries + 1) /\ sends' = sends
        /\ worker'.due = worker.due /\ worker'.pc = "deliver" /\ worker'.cur = 0
    BY <1>0, <1>7 DEF SendRetry, Worker, ghosts
  <2> QED BY <1>6, <2>2, <2>3
<1>8. ASSUME NEW id \in worker.due, DeliverNowhere(id) \/ DeliverCapped(id) \/ DeliverStart(id)
      PROVE  WorksOnRows'
  <2>1. Row(id) \in queue /\ Row(id).id = id /\ worker.pc = "deliver" /\ worker.cur = 0
    BY <1>8, RowIsRow DEF WorksOnRows, DeliverNowhere, DeliverCapped, DeliverStart
  <2>2. CASE DeliverNowhere(id)
    <3>1. queue' = Delete(id) /\ worker'.due = worker.due \ {id} /\ worker'.pc = "deliver" /\ worker'.cur = 0
      BY <1>0, <2>1, <2>2 DEF DeliverNowhere, Worker
    <3> QED BY <1>0, <3>1, WorksOnFewerRows
  <2>3. CASE DeliverCapped(id)
    <3>1. /\ queue' = Reschedule(id, Row(id).tries) /\ sends' = sends
          /\ worker'.due = worker.due \ {id} /\ worker'.pc = "deliver" /\ worker'.cur = 0
      BY <1>0, <2>1, <2>3 DEF DeliverCapped, Worker, ghosts
    <3>2. Row(id).tries \in 0 .. Backoffs
      BY <1>0, <2>1 DEF QueueRow
    <3> QED BY <1>6, <3>1, <3>2
  <2>4. CASE DeliverStart(id)
    <3>1. /\ queue' = queue /\ sends' = sends
          /\ worker'.due = worker.due \ {id} /\ worker'.pc = "sending" /\ worker'.cur = id
      BY <1>0, <2>4 DEF DeliverStart, Worker, tables, ghosts
    <3> QED BY <2>1, <3>1 DEF WorksOnRows
  <2> QED BY <1>8, <2>2, <2>3, <2>4
<1> QED BY <1>2, <1>3, <1>4, <1>5, <1>7, <1>8 DEF Deliver

LEMMA WorksOnRowsStep ==
  ASSUME NotifyInv, [Next]_vars
  PROVE  WorksOnRows'
<1> USE DEF NotifyInv
<1>0. worker \in Worker /\ queue \subseteq QueueRow /\ \A i \in worker.due : i # 0
  BY DEF TypeOK, Worker
<1>1. AsIn(queue, queue)
  BY DEF AsIn
<1>2. ASSUME UNCHANGED <<worker, queue, sends>>
      PROVE  WorksOnRows'
  BY <1>2 DEF WorksOnRows
<1>3. CASE Choosing \/ vars' = vars
  BY <1>2, <1>3, ChoosingIsAside, StillKeeps DEF Aside
<1>4. CASE Notifying
  <2>1. worker' = worker /\ sends' = sends
    BY <1>4, NotifyingKeeps
  <2>2. CASE queue' = queue
    BY <1>2, <2>1, <2>2
  <2>3. ASSUME NEW p \in Callers, NEW ch \in Channels, FreeIds # {}, queue' = Enqueued(ch, {call[p].event}),
               Queue(p, ch)
        PROVE  WorksOnRows'
    <3>1. {call[p].event} \in (SUBSET Events) \ {{}}
      BY <2>3 DEF Queue, Calls, TypeOK
    <3>2. PICK d \in QueueRow : queue' = queue \cup {d} /\ \A q \in queue : q.id # d.id
      BY <2>3, <3>1, EnqueuedRow
    <3> QED BY <2>1, <3>2, WorksOnMoreRows
  <2> QED BY <1>4, <2>2, <2>3 DEF Notifying, Claim, Bell, Decide, Return, Abort, Queue, tables
<1>5. CASE Release
  <2>1. sends' = sends
    BY <1>5, ReleaseKeeps
  <2>2. CASE queue' = queue /\ ~\E ch \in Channels : ReleaseBundle(ch)
    <3> DEFINE Steady == /\ worker'.due = worker.due /\ worker'.cur = worker.cur
                         /\ worker.pc \notin {"sending", "sent"}
                         /\ worker'.pc \notin {"sending", "sent"}
    <3>1. ASSUME ReleaseRead PROVE Steady
      BY <1>0, <3>1 DEF ReleaseRead, Worker
    <3>2. ASSUME ReleaseNext \/ ReleaseEnd PROVE Steady
      <4>1. \E to \in {"bundle", "list"} : worker' = [worker EXCEPT !.pc = to]
        BY <3>2 DEF ReleaseNext, ReleaseEnd
      <4>2. worker.pc \in {"unhold", "bundle"}
        BY <3>2 DEF ReleaseNext, ReleaseEnd
      <4> QED BY <1>0, <4>1, <4>2 DEF Worker
    <3>3. ASSUME NEW r \in worker.now, ReleaseDelete(r)
          PROVE  Steady
      BY <1>0, <3>3 DEF ReleaseDelete, Worker
    <3>4. Steady
      BY <1>5, <2>2, <3>1, <3>2, <3>3 DEF Release
    <3> QED BY <2>1, <2>2, <3>4 DEF WorksOnRows
  <2>3. ASSUME NEW ch \in Channels, ReleaseBundle(ch)
        PROVE  WorksOnRows'
    <3> DEFINE events == {r.event : r \in OnChannel(ch)}
    <3>1. events \in (SUBSET Events) \ {{}}
      <4>1. OnChannel(ch) \subseteq HeldRow /\ OnChannel(ch) # {}
        BY <2>3 DEF ReleaseBundle, OnChannel, HeldRows, TypeOK
      <4> QED BY <4>1 DEF HeldRow
    <3>2. queue' = Enqueued(ch, events) /\ FreeIds # {}
      BY <2>3 DEF ReleaseBundle
    <3> HIDE DEF events
    <3>3. PICK d \in QueueRow : queue' = queue \cup {d} /\ \A q \in queue : q.id # d.id
      BY <3>1, <3>2, EnqueuedRow
    <3>4. worker'.due = worker.due /\ worker'.cur = worker.cur /\ worker'.pc = "unhold" /\ worker.pc = "bundle"
      BY <1>0, <2>3 DEF ReleaseBundle, Worker
    <3> QED BY <2>1, <3>3, <3>4, WorksOnMoreRows
  <2> QED BY <1>5, <2>2, <2>3 DEF Release, ReleaseRead, ReleaseNext, ReleaseEnd, ReleaseDelete, tables
<1>6. CASE Befalls
  <2>1. sends' = sends
    BY <1>6, BefallsKeeps
  <2>2. CASE HourPasses \/ \E ch \in ViaInstallation : Expire(ch)
    BY <1>2, <2>1, <2>2 DEF HourPasses, Expire, tables, memory
  <2>3. CASE Wake
    <3>1. /\ worker'.due = worker.due /\ worker'.cur = worker.cur
          /\ worker'.pc = "release" /\ worker.pc = "wait" /\ queue' = queue
      BY <1>0, <2>3 DEF Wake, Worker, tables
    <3> QED BY <2>1, <3>1 DEF WorksOnRows
  <2>4. CASE Crash
    <3>1. worker'.due = {} /\ worker'.cur = 0 /\ worker'.pc = "wait" /\ queue' = queue
      BY <2>4 DEF Crash, Waiting, tables
    <3> QED BY <1>1, <2>1, <3>1, WorksOnSameRows DEF WorksOnRows
  <2>5. CASE LoseWrite
    <3>1. queue' = queue /\ worker'.due \subseteq worker.due
      BY <1>0, <2>5 DEF LoseWrite, tables, Worker
    <3>2. \/ worker'.pc = worker.pc /\ worker'.cur = worker.cur
          \/ worker'.pc = "deliver" /\ worker'.cur = 0
      BY <1>0, <2>5 DEF LoseWrite, Worker
    <3> QED BY <1>0, <1>1, <2>1, <3>1, <3>2, WorksOnSameRows DEF WorksOnRows
  <2>6. ASSUME NEW d \in queue, ComesDue(d)
        PROVE  WorksOnRows'
    <3> DEFINE x == [d EXCEPT !.due = TRUE]
    <3>1. x.id = d.id /\ x.ch = d.ch /\ x.events = d.events /\ queue' = (queue \ {d}) \cup {x}
      BY <1>0, <2>6 DEF ComesDue, QueueRow
    <3> HIDE DEF x
    <3>2. AsIn(queue, queue') /\ AsIn(queue', queue)
      BY <3>1 DEF AsIn
    <3>3. \A a, b \in queue' : a.id = b.id => a = b
      BY <3>1 DEF WorksOnRows
    <3>4. worker' = worker
      BY <2>6 DEF ComesDue, memory
    <3> QED BY <1>0, <2>1, <3>2, <3>3, <3>4, WorksOnSameRows
  <2> QED BY <1>6, <2>2, <2>3, <2>4, <2>5, <2>6 DEF Befalls
<1> QED BY <1>3, <1>4, <1>5, <1>6, WorksOnRowsDeliver DEF Next, Befalls

-----------------------------------------------------------------------------
(***************************************************************************)
(* The copies that may still be sent                                       *)
(***************************************************************************)

LEMMA IdsAreFew ==
  ASSUME NEW S \in SUBSET (1 .. MaxRows), NEW T \in SUBSET (1 .. MaxRows)
  PROVE  /\ Cardinality(S) \in Nat
         /\ S \subseteq T => Cardinality(S) <= Cardinality(T)
         /\ \A i : S \subseteq T \cup {i} => Cardinality(S) <= Cardinality(T) + 1
         /\ \A i \in T : S \subseteq T \ {i} => Cardinality(S) + 1 <= Cardinality(T)
<1>1. IsFiniteSet(1 .. MaxRows)
  BY FS_Interval, NotifyConstants
<1>2. IsFiniteSet(S) /\ IsFiniteSet(T)
  BY <1>1, FS_Subset
<1>3. Cardinality(S) \in Nat /\ Cardinality(T) \in Nat
  BY <1>2, FS_CardinalityType
<1>4. S \subseteq T => Cardinality(S) <= Cardinality(T)
  BY <1>2, FS_Subset
<1>5. ASSUME NEW i, S \subseteq T \cup {i}
      PROVE  Cardinality(S) <= Cardinality(T) + 1
  <2>1. IsFiniteSet(T \cup {i}) /\ Cardinality(T \cup {i}) \in {Cardinality(T), Cardinality(T) + 1}
    BY <1>2, FS_AddElement
  <2>2. Cardinality(S) <= Cardinality(T \cup {i})
    BY <1>5, <2>1, FS_Subset
  <2> QED BY <1>3, <2>1, <2>2
<1>6. ASSUME NEW i \in T, S \subseteq T \ {i}
      PROVE  Cardinality(S) + 1 <= Cardinality(T)
  <2>1. IsFiniteSet(T \ {i}) /\ Cardinality(T \ {i}) = Cardinality(T) - 1
    BY <1>2, FS_RemoveElement
  <2>2. Cardinality(S) <= Cardinality(T \ {i})
    BY <1>6, <2>1, FS_Subset
  <2> QED BY <1>3, <2>1, <2>2
<1> QED BY <1>3, <1>4, <1>5, <1>6

Bounded(m) == Copies(m) <= 1 + faults

\* No more rows, no more sends.
LEMMA NoMoreCopies ==
  ASSUME NotifyInv, TypeOK', NEW m \in Messages, Unsent(m)' \subseteq Unsent(m),
         sends'[m] = sends[m], ToRelease(m)' => ToRelease(m), faults' = faults
  PROVE  Bounded(m)'
<1>1. Unsent(m) \subseteq 1 .. MaxRows /\ Unsent(m)' \subseteq 1 .. MaxRows
  BY DEF Unsent
<1>2. /\ Cardinality(Unsent(m)') <= Cardinality(Unsent(m))
      /\ Cardinality(Unsent(m)) \in Nat /\ Cardinality(Unsent(m)') \in Nat
  BY <1>1, IdsAreFew
<1>3. sends[m] \in Nat /\ faults \in Nat
  BY DEF NotifyInv, TypeOK
<1>4. Bounded(m)
  BY DEF NotifyInv, CopiesCostFaults, Bounded
<1> QED BY <1>2, <1>3, <1>4 DEF Bounded, Copies

\* One more, for a fault.
LEMMA CopyForAFault ==
  ASSUME NotifyInv, TypeOK', NEW m \in Messages, NEW i,
         sends'[m] = sends[m], faults' = faults + 1,
         \/ Unsent(m)' \subseteq Unsent(m)
         \/ Unsent(m)' \subseteq Unsent(m) \cup {i} /\ (ToRelease(m)' => ToRelease(m))
  PROVE  Bounded(m)'
<1>1. Unsent(m) \subseteq 1 .. MaxRows /\ Unsent(m)' \subseteq 1 .. MaxRows
  BY DEF Unsent
<1>2. /\ Unsent(m)' \subseteq Unsent(m) => Cardinality(Unsent(m)') <= Cardinality(Unsent(m))
      /\ Unsent(m)' \subseteq Unsent(m) \cup {i} => Cardinality(Unsent(m)') <= Cardinality(Unsent(m)) + 1
      /\ Cardinality(Unsent(m)) \in Nat /\ Cardinality(Unsent(m)') \in Nat
  BY <1>1, IdsAreFew
<1>3. sends[m] \in Nat /\ faults \in Nat
  BY DEF NotifyInv, TypeOK
<1>4. Bounded(m)
  BY DEF NotifyInv, CopiesCostFaults, Bounded
<1> QED BY <1>2, <1>3, <1>4 DEF Bounded, Copies

\* The held row becomes a row of the queue, or a row that was unsent is sent.
LEMMA CopyMoves ==
  ASSUME NotifyInv, TypeOK', NEW m \in Messages, NEW i, faults' = faults,
         \/ /\ sends'[m] = sends[m] /\ ToRelease(m) /\ ~ToRelease(m)'
            /\ Unsent(m)' \subseteq Unsent(m) \cup {i}
         \/ /\ sends'[m] = sends[m] + 1 /\ (ToRelease(m)' => ToRelease(m))
            /\ i \in Unsent(m) /\ Unsent(m)' \subseteq Unsent(m) \ {i}
  PROVE  Bounded(m)'
<1>1. Unsent(m) \subseteq 1 .. MaxRows /\ Unsent(m)' \subseteq 1 .. MaxRows
  BY DEF Unsent
<1>2. /\ Unsent(m)' \subseteq Unsent(m) \cup {i} => Cardinality(Unsent(m)') <= Cardinality(Unsent(m)) + 1
      /\ i \in Unsent(m) /\ Unsent(m)' \subseteq Unsent(m) \ {i} =>
           Cardinality(Unsent(m)') + 1 <= Cardinality(Unsent(m))
      /\ Cardinality(Unsent(m)) \in Nat /\ Cardinality(Unsent(m)') \in Nat
  BY <1>1, IdsAreFew
<1>3. sends[m] \in Nat /\ faults \in Nat
  BY DEF NotifyInv, TypeOK
<1>4. Bounded(m)
  BY DEF NotifyInv, CopiesCostFaults, Bounded
<1> QED BY <1>2, <1>3, <1>4 DEF Bounded, Copies

\* A message that was new has its first copy.
LEMMA FirstCopy ==
  ASSUME NotifyInv, TypeOK', NEW m \in Messages, NEW i, faults' = faults,
         m \notin Over, sends' = sends,
         \/ Unsent(m)' = {}
         \/ Unsent(m)' \subseteq {i} /\ ~ToRelease(m)'
  PROVE  Bounded(m)'
<1>1. sends[m] = 0 /\ faults \in Nat
  BY DEF NotifyInv, TypeOK, Over, told
<1>2. Unsent(m)' \subseteq 1 .. MaxRows /\ {} \subseteq 1 .. MaxRows
  BY DEF Unsent
<1>3. Cardinality({}) = 0
  BY FS_EmptySet
<1>4. Cardinality(Unsent(m)') \in Nat
  BY <1>2, IdsAreFew
<1>5. Unsent(m)' \subseteq {i} => Cardinality(Unsent(m)') <= 1
  <2>1. Unsent(m)' \subseteq {i} => Unsent(m)' \subseteq {} \cup {i}
    OBVIOUS
  <2> QED BY <1>2, <1>3, <2>1, IdsAreFew
<1>6. CASE Unsent(m)' = {}
  <2>1. Cardinality(Unsent(m)') = 0
    BY <1>3, <1>6
  <2> QED BY <1>1, <2>1 DEF Bounded, Copies
<1>7. CASE Unsent(m)' \subseteq {i} /\ ~ToRelease(m)'
  BY <1>1, <1>4, <1>5, <1>7 DEF Bounded, Copies
<1> QED BY <1>6, <1>7

LEMMA CopiesNotifying ==
  ASSUME NotifyInv, TypeOK', Notifying
  PROVE  CopiesCostFaults'
<1> USE DEF NotifyInv
<1>1. worker' = worker /\ sends' = sends /\ faults' = faults
  BY NotifyingKeeps
<1>2. ASSUME UNCHANGED <<held, queue>>
      PROVE  CopiesCostFaults'
  BY <1>1, <1>2 DEF CopiesCostFaults, Copies, Unsent, ToRelease
<1>3. ASSUME NEW p \in Callers, (\E e \in Events : Claim(p, e)) \/ Bell(p) \/ Decide(p) \/ Return(p) \/ Abort(p)
      PROVE  CopiesCostFaults'
  BY <1>2, <1>3 DEF Claim, Bell, Decide, Return, Abort, tables
<1>4. ASSUME NEW p \in Callers, NEW ch \in Channels, Queue(p, ch), NEW m \in Messages
      PROVE  Bounded(m)'
  <2> DEFINE e == call[p].event
             x == [event |-> e, ch |-> ch, digest |-> call[p].digest, ripe |-> FALSE]
  <2>1. e \in Events /\ <<e, ch>> \in Messages /\ <<e, ch>> \notin Over
    BY <1>4, QueueAccepts DEF Over
  <2>2. <<e, ch>> \notin InRows(held, queue)
    BY <2>1, WaitingIs DEF Over
  <2>3. CASE held' = held \cup {x} /\ queue' = queue
    <3>1. Unsent(m)' = Unsent(m)
      BY <1>1, <2>3 DEF Unsent
    <3>2. x.event = e /\ x.ch = ch
      OBVIOUS
    <3> HIDE DEF x, e
    <3>3. CASE m = <<e, ch>>
      <4>1. Unsent(m) = {}
        BY <2>2, <3>3 DEF Unsent, InRows
      <4> QED BY <1>1, <2>1, <3>1, <3>3, <4>1, FirstCopy
    <3>4. CASE m # <<e, ch>>
      <4>1. ToRelease(m)' => ToRelease(m)
        BY <1>1, <2>3, <3>2, <3>4 DEF ToRelease
      <4> QED BY <1>1, <3>1, <4>1, NoMoreCopies
    <3> QED BY <3>3, <3>4
  <2>4. CASE held' = held /\ FreeIds # {} /\ queue' = Enqueued(ch, {e})
    <3> HIDE DEF e
    <3>1. {e} \in (SUBSET Events) \ {{}}
      BY <2>1
    <3>2. PICK d \in QueueRow : d.ch = ch /\ d.events = {e} /\ queue' = queue \cup {d}
      BY <2>4, <3>1, EnqueuedRow
    <3>3. CASE m = <<e, ch>>
      <4>1. Unsent(m)' \subseteq {d.id}
        BY <1>1, <2>2, <3>2, <3>3 DEF Unsent, InRows
      <4>2. ~ToRelease(m)'
        BY <1>1, <2>2, <2>4, <3>3 DEF ToRelease, InRows
      <4> QED BY <1>1, <2>1, <3>3, <4>1, <4>2, FirstCopy
    <3>4. CASE m # <<e, ch>>
      <4>1. m \notin d.events \X {d.ch}
        BY <3>2, <3>4
      <4>2. Unsent(m)' \subseteq Unsent(m)
        BY <1>1, <3>2, <4>1 DEF Unsent
      <4>3. ToRelease(m)' => ToRelease(m)
        BY <1>1, <2>4 DEF ToRelease
      <4> QED BY <1>1, <4>2, <4>3, NoMoreCopies
    <3> QED BY <3>3, <3>4
  <2> QED BY <1>4, <2>3, <2>4 DEF Queue
<1> QED BY <1>3, <1>4 DEF Notifying, CopiesCostFaults, Bounded

LEMMA CopiesRelease ==
  ASSUME NotifyInv, TypeOK', Release
  PROVE  CopiesCostFaults'
<1> SUFFICES ASSUME NEW m \in Messages
             PROVE  Bounded(m)'
  BY DEF CopiesCostFaults, Bounded
<1> USE DEF NotifyInv
<1>0. worker \in Worker
  BY DEF TypeOK
<1>1. sends' = sends /\ faults' = faults
  BY ReleaseKeeps
<1>2. CASE ReleaseRead \/ ReleaseNext \/ ReleaseEnd
  <2>1. /\ held' = held /\ queue' = queue /\ worker'.now = worker.now
        /\ "sent" \notin {worker.pc, worker'.pc}
    BY <1>0, <1>2 DEF ReleaseRead, ReleaseNext, ReleaseEnd, Worker, tables
  <2>2. Unsent(m)' \subseteq Unsent(m) /\ (ToRelease(m)' => ToRelease(m))
    BY <2>1 DEF Unsent, ToRelease
  <2> QED BY <1>1, <2>2, NoMoreCopies
<1>3. ASSUME NEW ch \in Channels, ReleaseBundle(ch)
      PROVE  Bounded(m)'
  <2> DEFINE events == {r.event : r \in OnChannel(ch)}
  <2>1. /\ held' = held /\ worker'.now = OnChannel(ch) /\ worker.now = {}
        /\ "sent" \notin {worker.pc, worker'.pc}
    BY <1>0, <1>3 DEF ReleaseBundle, Worker, HeldRows
  <2>2. PICK d \in QueueRow : d.ch = ch /\ d.events = events /\ queue' = queue \cup {d}
    <3>1. events \in (SUBSET Events) \ {{}}
      <4>1. OnChannel(ch) \subseteq HeldRow /\ OnChannel(ch) # {}
        BY <1>3 DEF ReleaseBundle, OnChannel, HeldRows, TypeOK
      <4> QED BY <4>1 DEF HeldRow
    <3>2. queue' = Enqueued(ch, events) /\ FreeIds # {}
      BY <1>3 DEF ReleaseBundle
    <3> HIDE DEF events
    <3> QED BY <3>1, <3>2, EnqueuedRow
  <2>3. ASSUME NEW r \in OnChannel(ch)
        PROVE  r \in held /\ r.ch = ch /\ \A s \in held : s.event = r.event /\ s.ch = r.ch => s = r
    BY DEF OnChannel, HeldRows
  <2>4. Unsent(m)' \subseteq Unsent(m) \cup {d.id}
    BY <2>1, <2>2 DEF Unsent
  <2>5. CASE \E r \in OnChannel(ch) : m = <<r.event, r.ch>>
    <3>1. PICK r \in OnChannel(ch) : m = <<r.event, r.ch>>
      BY <2>5
    <3>2. ToRelease(m)
      BY <2>1, <2>3, <3>1 DEF ToRelease
    <3>3. ~ToRelease(m)'
      BY <2>1, <2>3, <3>1 DEF ToRelease
    <3> QED BY <1>1, <2>4, <3>2, <3>3, CopyMoves
  <2>6. CASE ~\E r \in OnChannel(ch) : m = <<r.event, r.ch>>
    <3>1. m \notin d.events \X {d.ch}
      BY <2>2, <2>3, <2>6
    <3>2. Unsent(m)' \subseteq Unsent(m)
      BY <2>1, <2>2, <3>1 DEF Unsent
    <3>3. ToRelease(m)' => ToRelease(m)
      BY <2>1 DEF ToRelease
    <3> QED BY <1>1, <3>2, <3>3, NoMoreCopies
  <2> QED BY <2>5, <2>6
<1>4. ASSUME NEW r \in worker.now, ReleaseDelete(r)
      PROVE  Bounded(m)'
  <2>1. /\ held' = held \ {r} /\ queue' = queue /\ worker'.now = worker.now \ {r}
        /\ "sent" \notin {worker.pc, worker'.pc}
    BY <1>0, <1>4 DEF ReleaseDelete, Worker
  <2>2. Unsent(m)' \subseteq Unsent(m) /\ (ToRelease(m)' => ToRelease(m))
    BY <2>1 DEF Unsent, ToRelease
  <2> QED BY <1>1, <2>2, NoMoreCopies
<1> QED BY <1>2, <1>3, <1>4 DEF Release

LEMMA CopiesDeliver ==
  ASSUME NotifyInv, TypeOK', Deliver
  PROVE  CopiesCostFaults'
<1> SUFFICES ASSUME NEW m \in Messages
             PROVE  Bounded(m)'
  BY DEF CopiesCostFaults, Bounded
<1> USE DEF NotifyInv
<1>0. worker \in Worker /\ queue \subseteq QueueRow
  BY DEF TypeOK
<1>1. held' = held /\ faults' = faults
  BY DeliverKeeps
<1>2. worker.now = {}
  BY DEF HeldRows, Deliver, DeliverList, DeliverEnd, SendOK, Sent, SendRetry, SendDrop,
         DeliverNowhere, DeliverCapped, DeliverStart
<1>3. ToRelease(m)' => ToRelease(m)
  BY <1>1, <1>2 DEF ToRelease
<1>4. ASSUME sends' = sends, worker'.pc # "sent", worker.pc # "sent", AsIn(queue', queue)
      PROVE  Bounded(m)'
  <2>1. \A q \in queue' : \E d \in queue : d.id = q.id /\ d.events \X {d.ch} = q.events \X {q.ch}
    BY <1>4 DEF AsIn
  <2>2. Unsent(m)' \subseteq Unsent(m)
    BY <1>4, <2>1 DEF Unsent
  <2> QED BY <1>1, <1>3, <1>4, <2>2, NoMoreCopies
<1>5. AsIn(queue, queue) /\ \A i : AsIn(Delete(i), queue)
  BY DEF AsIn, Delete
<1>6. CASE DeliverList \/ DeliverEnd
  <2>1. queue' = queue /\ sends' = sends /\ "sent" \notin {worker.pc, worker'.pc}
    <3>1. CASE DeliverList
      BY <1>0, <3>1 DEF DeliverList, Worker, tables, ghosts
    <3>2. CASE DeliverEnd
      BY <3>2 DEF DeliverEnd, Waiting, tables, ghosts
    <3> QED BY <1>6, <3>1, <3>2
  <2> QED BY <1>4, <1>5, <2>1
<1>7. CASE SendOK
  <2> DEFINE d == Row(worker.cur)
  <2>1. /\ worker'.pc = "sent" /\ worker'.cur = worker.cur /\ queue' = queue /\ worker.pc = "sending"
    BY <1>0, <1>7 DEF SendOK, Worker, tables
  <2>2. d \in queue /\ d.id = worker.cur /\ \A q \in queue : q.id = worker.cur => q = d
    BY <2>1, RowIsRow DEF WorksOnRows
  <2>3. sends' = [n \in Messages |-> sends[n] + (IF n \in d.events \X {d.ch} THEN 1 ELSE 0)]
    BY <1>7 DEF SendOK
  <2> HIDE DEF d
  <2>4. d.id \in 1 .. MaxRows
    BY <1>0, <2>2 DEF QueueRow
  <2>5. Unsent(m)' \subseteq Unsent(m) \ {d.id}
    BY <2>1, <2>2 DEF Unsent
  <2>6. CASE m \in d.events \X {d.ch}
    <3>1. d.id \in Unsent(m)
      BY <2>1, <2>2, <2>4, <2>6 DEF Unsent
    <3>2. sends'[m] = sends[m] + 1
      BY <2>3, <2>6
    <3> QED BY <1>1, <1>3, <2>5, <3>1, <3>2, CopyMoves
  <2>7. CASE m \notin d.events \X {d.ch}
    <3>1. sends'[m] = sends[m]
      BY <2>3, <2>7 DEF TypeOK
    <3> QED BY <1>1, <1>3, <2>5, <3>1, NoMoreCopies
  <2> QED BY <2>6, <2>7
<1>8. CASE Sent
  <2>1. /\ queue' = Delete(worker.cur) /\ sends' = sends /\ worker'.pc = "deliver"
    BY <1>0, <1>8 DEF Sent, Worker, ghosts
  <2>2. Unsent(m)' \subseteq Unsent(m)
    BY <2>1 DEF Unsent, Delete
  <2> QED BY <1>1, <1>3, <2>1, <2>2, NoMoreCopies
<1>9. CASE SendRetry
  <2> DEFINE d == Row(worker.cur)
  <2>1. d \in queue /\ d.tries + 1 <= Backoffs
    BY <1>9, RowIsRow DEF SendRetry, WorksOnRows
  <2>2. d.tries + 1 \in 0 .. Backoffs
    BY <1>0, <2>1, NotifyConstants DEF QueueRow
  <2>3. /\ queue' = Reschedule(d.id, d.tries + 1) /\ sends' = sends
        /\ "sent" \notin {worker.pc, worker'.pc}
    BY <1>0, <1>9 DEF SendRetry, Worker, ghosts
  <2>4. AsIn(queue', queue)
    BY <1>0, <2>2, <2>3, RescheduledRows
  <2> QED BY <1>4, <2>3, <2>4
<1>10. CASE SendDrop
  <2>1. /\ queue' = Delete(Row(worker.cur).id) /\ sends' = sends
        /\ "sent" \notin {worker.pc, worker'.pc}
    BY <1>0, <1>10 DEF SendDrop, Worker
  <2> QED BY <1>4, <1>5, <2>1
<1>11. ASSUME NEW id \in worker.due, DeliverNowhere(id) \/ DeliverCapped(id) \/ DeliverStart(id)
       PROVE  Bounded(m)'
  <2>1. Row(id) \in queue /\ sends' = sends /\ "sent" \notin {worker.pc, worker'.pc}
    BY <1>0, <1>11, RowIsRow DEF WorksOnRows, DeliverNowhere, DeliverCapped, DeliverStart, Worker, ghosts
  <2>2. Row(id).tries \in 0 .. Backoffs
    BY <1>0, <2>1 DEF QueueRow
  <2>3. AsIn(queue', queue)
    BY <1>0, <1>5, <1>11, <2>2, RescheduledRows DEF DeliverNowhere, DeliverCapped, DeliverStart, tables
  <2> QED BY <1>4, <2>1, <2>3
<1> QED BY <1>6, <1>7, <1>8, <1>9, <1>10, <1>11 DEF Deliver

LEMMA CopiesBefalls ==
  ASSUME NotifyInv, TypeOK', Befalls
  PROVE  CopiesCostFaults'
<1> SUFFICES ASSUME NEW m \in Messages
             PROVE  Bounded(m)'
  BY DEF CopiesCostFaults, Bounded
<1> USE DEF NotifyInv
<1>0. worker \in Worker /\ queue \subseteq QueueRow /\ held \subseteq HeldRow
  BY DEF TypeOK
<1>1. sends' = sends
  BY BefallsKeeps
<1>2. CASE Wake \/ \E ch \in ViaInstallation : Expire(ch)
  <2>1. /\ held' = held /\ queue' = queue /\ faults' = faults
        /\ worker'.now = worker.now /\ worker'.cur = worker.cur
        /\ worker'.pc = "sent" <=> worker.pc = "sent"
    BY <1>0, <1>2 DEF Wake, Expire, Worker, tables, ghosts
  <2>2. Unsent(m)' \subseteq Unsent(m) /\ (ToRelease(m)' => ToRelease(m))
    BY <2>1 DEF Unsent, ToRelease
  <2> QED BY <1>1, <2>1, <2>2, NoMoreCopies
<1>3. CASE HourPasses
  <2>1. worker' = worker /\ queue' = queue /\ faults' = faults
    BY <1>3 DEF HourPasses, memory
  <2> DEFINE q(r) == IF r.digest THEN [r EXCEPT !.ripe = TRUE] ELSE r
  <2>2. ASSUME NEW r \in held
        PROVE  /\ q(r).event = r.event /\ q(r).ch = r.ch
               /\ r \in worker.now => q(r) = r
    <3>1. r \in worker.now => (r.digest => r.ripe)
      BY DEF HeldRows
    <3> QED BY <1>0, <3>1 DEF HeldRow
  <2>3. held' = held \/ held' = {q(r) : r \in held}
    BY <1>3 DEF HourPasses
  <2> HIDE DEF q
  <2>4. ToRelease(m)' => ToRelease(m)
    BY <2>1, <2>2, <2>3 DEF ToRelease
  <2>5. Unsent(m)' \subseteq Unsent(m)
    BY <2>1 DEF Unsent
  <2> QED BY <1>1, <2>1, <2>4, <2>5, NoMoreCopies
<1>4. CASE Crash \/ LoseWrite
  <2>1. held' = held /\ queue' = queue /\ faults' = faults + 1
    BY <1>4 DEF Crash, LoseWrite, tables
  <2>2. worker'.pc # "sent" \/ (worker'.pc = worker.pc /\ worker'.cur = worker.cur)
    <3>1. CASE Crash
      BY <3>1 DEF Crash, Waiting
    <3>2. CASE LoseWrite
      BY <1>0, <3>2 DEF LoseWrite, Worker
    <3> QED BY <1>4, <3>1, <3>2
  <2>3. CASE worker.pc = "sent"
    <3>1. Unsent(m)' \subseteq Unsent(m) \cup {worker.cur}
      BY <2>1, <2>2 DEF Unsent
    <3>2. ToRelease(m)' => ToRelease(m)
      BY <2>1, <2>3 DEF HeldRows, ToRelease
    <3> QED BY <1>1, <2>1, <3>1, <3>2, CopyForAFault
  <2>4. CASE worker.pc # "sent"
    <3>1. Unsent(m)' \subseteq Unsent(m)
      BY <2>1, <2>2, <2>4 DEF Unsent
    <3> QED BY <1>1, <2>1, <3>1, CopyForAFault
  <2> QED BY <2>3, <2>4
<1>5. ASSUME NEW d \in queue, ComesDue(d)
      PROVE  Bounded(m)'
  <2> DEFINE x == [d EXCEPT !.due = TRUE]
  <2>1. x.id = d.id /\ x.ch = d.ch /\ x.events = d.events /\ queue' = (queue \ {d}) \cup {x}
    BY <1>0, <1>5 DEF ComesDue, QueueRow
  <2>2. held' = held /\ worker' = worker /\ faults' = faults
    BY <1>5 DEF ComesDue, memory, ghosts
  <2> HIDE DEF x
  <2>3. \A a \in queue' : \E b \in queue : b.id = a.id /\ b.events \X {b.ch} = a.events \X {a.ch}
    BY <2>1
  <2>4. Unsent(m)' \subseteq Unsent(m)
    BY <2>2, <2>3 DEF Unsent
  <2>5. ToRelease(m)' => ToRelease(m)
    BY <2>2 DEF ToRelease
  <2> QED BY <1>1, <2>2, <2>4, <2>5, NoMoreCopies
<1> QED BY <1>2, <1>3, <1>4, <1>5 DEF Befalls

LEMMA CopiesStep ==
  ASSUME NotifyInv, TypeOK', [Next]_vars
  PROVE  CopiesCostFaults'
<1>1. CASE Choosing \/ vars' = vars
  <2>1. UNCHANGED <<held, queue, worker, sends, faults>>
    BY <1>1, ChoosingIsAside, StillKeeps DEF Aside, NotifyInv
  <2> QED BY <2>1 DEF NotifyInv, CopiesCostFaults, Copies, Unsent, ToRelease
<1> QED BY <1>1, CopiesNotifying, CopiesRelease, CopiesDeliver, CopiesBefalls DEF Next, Befalls

-----------------------------------------------------------------------------
(***************************************************************************)
(* The refs                                                                *)
(***************************************************************************)

LEMMA RefsClaimedStep ==
  ASSUME NotifyInv, TypeOK', [Next]_vars
  PROVE  RefsClaimed'
<1> USE DEF NotifyInv
<1>0. call \in [Callers -> Call]
  BY DEF TypeOK
<1>1. Active = bell \cup {m[1] : m \in Over} \cup {call[p].event : p \in {q \in Callers : call[q].pc # "idle"}}
  BY DEF Active, Surfaced, Over
<1>2. Active' = bell' \cup {m[1] : m \in Over'} \cup {call'[p].event : p \in {q \in Callers : call'[q].pc # "idle"}}
  BY DEF Active, Surfaced, Over
<1>3. ASSUME Active' \subseteq Active, called' = called, reminders' = reminders
      PROVE  RefsClaimed'
  BY <1>3 DEF RefsClaimed, Twins
<1>4. ASSUME NEW p \in Callers, NEW e \in Events, Claim(p, e)
      PROVE  RefsClaimed'
  <2>1. Over' = Over /\ bell' = bell
    BY <1>4 DEF Claim, Over, waiting, told
  <2>2. CASE UNCHANGED <<reminders, call>>
    <3>1. Active' = Active /\ called \subseteq called'
      BY <1>1, <1>2, <1>4, <2>1, <2>2 DEF Claim
    <3> QED BY <2>2, <3>1 DEF RefsClaimed, Twins
  <2>3. CASE /\ RefOf[e] \notin reminders
             /\ reminders' = reminders \cup ({RefOf[e]} \cap Refs)
             /\ call' = [call EXCEPT ![p].pc = "bell", ![p].event = e]
    <3>1. \A q \in Callers \ {p} : call'[q] = call[q]
      BY <1>0, <2>3
    <3>2. call'[p].event = e
      BY <1>0, <2>3 DEF Call
    <3>3. Active' \subseteq Active \cup {e}
      BY <1>1, <1>2, <2>1, <3>1, <3>2
    <3>4. called' = called \cup {e}
      BY <1>4 DEF Claim
    <3>5. RefOf[e] # NoRef => RefOf[e] \in reminders' /\ RefOf[e] \notin reminders
      BY <2>3, NotifyConstants
    <3> QED BY <2>3, <3>3, <3>4, <3>5 DEF RefsClaimed, Twins
  <2> QED BY <1>4, <2>2, <2>3 DEF Claim
<1>5. ASSUME NEW p \in Callers, Bell(p) \/ Decide(p) \/ Return(p) \/ Abort(p)
      PROVE  RefsClaimed'
  <2>1. Over' = Over /\ called' = called /\ reminders' = reminders
    BY <1>5 DEF Bell, Decide, Return, Abort, Over, waiting, told, tables, ghosts
  <2>2. bell' \subseteq bell \cup {call[p].event} /\ (bell' = bell \/ call[p].pc # "idle")
    BY <1>5 DEF Bell, Decide, Return, Abort, tables
  <2>3. \A q \in Callers \ {p} : call'[q] = call[q]
    BY <1>0, <1>5 DEF Bell, Decide, Return, Abort
  <2>4. call'[p].pc = "idle" \/ (call'[p].event = call[p].event /\ call[p].pc # "idle")
    <3>1. CASE Bell(p)
      BY <1>0, <3>1 DEF Bell, Call
    <3>2. CASE Decide(p)
      BY <1>0, <3>2 DEF Decide, Call
    <3>3. CASE Return(p) \/ Abort(p)
      BY <1>0, <3>3 DEF Return, Abort, NotCalling
    <3> QED BY <1>5, <3>1, <3>2, <3>3
  <2>5. Active' \subseteq Active
    BY <1>1, <1>2, <2>1, <2>2, <2>3, <2>4
  <2> QED BY <1>3, <2>1, <2>5
<1>6. ASSUME NEW p \in Callers, NEW ch \in Channels, Queue(p, ch)
      PROVE  RefsClaimed'
  <2>1. Over' = Over \cup {<<call[p].event, ch>>}
    BY <1>6, QueueAccepts DEF Over
  <2>2. bell' = bell /\ called' = called /\ reminders' = reminders /\ call[p].pc = "queue"
    BY <1>6 DEF Queue, ghosts
  <2>3. \A q \in Callers : call'[q].event = call[q].event /\ call'[q].pc = call[q].pc
    BY <1>0, <1>6 DEF Queue, Call
  <2>4. Active' \subseteq Active
    BY <1>1, <1>2, <2>1, <2>2, <2>3
  <2> QED BY <1>3, <2>2, <2>4
<1>7. CASE ~Notifying
  <2>1. UNCHANGED <<bell, called, reminders>> /\ (call' = call \/ call' = [p \in Callers |-> NotCalling])
    BY <1>7, ReleaseKeeps, DeliverKeeps, BefallsKeeps, ChoosingIsAside, StillKeeps DEF Next, Befalls, Aside
  <2>2. Over' = Over
    BY <1>7, OverStep DEF Notifying
  <2>3. Active' \subseteq Active
    BY <1>1, <1>2, <2>1, <2>2 DEF NotCalling
  <2> QED BY <1>3, <2>1, <2>3
<1> QED BY <1>4, <1>5, <1>6, <1>7 DEF Notifying

-----------------------------------------------------------------------------
(***************************************************************************)
(* The theorems                                                            *)
(***************************************************************************)

LEMMA InvStarts == Init => NotifyInv
<1> SUFFICES ASSUME Init PROVE NotifyInv
  OBVIOUS
<1> USE DEF Init
<1>1. TypeOK
  <2>1. NotCalling \in Call /\ Waiting \in Worker
    <3>1. 0 \in 0 .. MaxRows
      BY NotifyConstants
    <3> QED BY <3>1 DEF NotCalling, Call, Waiting, Worker
  <2>2. prefs \in [Kinds \X AllChannels -> {"unset", "on", "off"}]
    OBVIOUS
  <2>3. digestKinds \subseteq Kinds
    OBVIOUS
  <2>4. hour \in 0 .. Hours - 1 /\ faults \in 0 .. MaxFaults /\ edits \in 0 .. MaxEdits
    BY NotifyConstants
  <2>5. recent \in [ViaInstallation -> 0 .. HourlyLimit]
    <3>1. 0 \in 0 .. HourlyLimit
      BY NotifyConstants
    <3> QED BY <3>1
  <2>6. address \in [Addressed -> {"none", "unproved", "proved"}] /\ sends \in [Messages -> Nat]
    OBVIOUS
  <2>7. call \in [Callers -> Call] /\ worker \in Worker
    BY <2>1
  <2> QED BY <2>2, <2>3, <2>4, <2>5, <2>6, <2>7 DEF TypeOK
<1>2. waiting = {} /\ told = {} /\ Over = {}
  BY DEF waiting, told, Over
<1>3. Calls /\ ComesOnce
  BY <1>2 DEF Calls, NotCalling, ComesOnce
<1>4. HeldRows /\ WorksOnRows
  BY DEF HeldRows, WorksOnRows, Waiting
<1>5. ASSUME NEW m \in Messages
      PROVE  Copies(m) <= 1 + faults
  <2>1. Unsent(m) = {} /\ ~ToRelease(m) /\ sends[m] = 0
    BY DEF Unsent, ToRelease
  <2>2. Cardinality(Unsent(m)) = 0
    BY <2>1, FS_EmptySet
  <2> QED BY <2>1, <2>2 DEF Copies
<1>6. RefsClaimed
  BY <1>2 DEF RefsClaimed, Active, Surfaced, NotCalling
<1> QED BY <1>1, <1>3, <1>4, <1>5, <1>6 DEF NotifyInv, CopiesCostFaults

LEMMA InvHolds == NotifyInv /\ [Next]_vars => NotifyInv'
BY TypesStep, CallsStep, ComesOnceStep, HeldRowsStep, WorksOnRowsStep, CopiesStep, RefsClaimedStep
   DEF NotifyInv

\* The inductive invariant of the queue and of the calls that fill it.
THEOREM NotifyInvariant == Spec => []NotifyInv
BY InvStarts, InvHolds, PTL DEF Spec

LEMMA InvIsSound == NotifyInv => QueueIsSound
<1> SUFFICES ASSUME NotifyInv PROVE QueueIsSound
  OBVIOUS
<1>1. ASSUME NEW m \in Messages
      PROVE  sends[m] <= 1 + faults
  <2>1. Copies(m) <= 1 + faults
    BY DEF NotifyInv, CopiesCostFaults
  <2>2. Unsent(m) \subseteq 1 .. MaxRows
    BY DEF Unsent
  <2>3. Cardinality(Unsent(m)) \in Nat
    BY <2>2, IdsAreFew
  <2>4. sends[m] \in Nat /\ faults \in Nat
    BY DEF NotifyInv, TypeOK
  <2> QED BY <2>1, <2>3, <2>4 DEF Copies
<1> QED BY <1>1 DEF NotifyInv, QueueIsSound, DuplicatesCostAFault, UrgentNeverHeld, HeldRows, MayBeHeld

\* Nothing is sent twice without a crash or a lost write to blame, and what is
\* urgent is never held, whatever calls, edits and faults interleave (queue.go,
\* timing.go).
THEOREM QueueStaysSound == Spec => []QueueIsSound
BY NotifyInvariant, InvIsSound, PTL

\* However many calls are told the same at once, an event surfaces once for its ref
\* (service.go:135).
THEOREM ToldOnce == Spec => []RefToldOnce
<1>1. NotifyInv => RefToldOnce
  BY DEF NotifyInv, RefsClaimed, RefToldOnce, Active
<1> QED BY <1>1, NotifyInvariant, PTL

\* What was put in the digest does not leave before the digest time.
THEOREM DigestIsKept == Spec => DigestKept
<1>1. ASSUME NotifyInv, [Next]_vars, NEW r \in held, r.digest, ~r.ripe
      PROVE  r \in held' \/ [r EXCEPT !.ripe = TRUE] \in held'
  <2>1. CASE UNCHANGED held
    BY <1>1, <2>1
  <2>2. CASE Notifying
    BY <1>1, <2>2 DEF Notifying, Claim, Bell, Decide, Return, Abort, Queue, tables
  <2>3. CASE Release
    <3>1. ASSUME NEW q \in worker.now, ReleaseDelete(q)
          PROVE  r \in held'
      <4>1. q.digest => q.ripe
        BY <1>1 DEF NotifyInv, HeldRows
      <4> QED BY <1>1, <3>1, <4>1 DEF ReleaseDelete
    <3> QED BY <1>1, <2>3, <3>1 DEF Release, ReleaseRead, ReleaseNext, ReleaseEnd, ReleaseBundle, tables
  <2>4. CASE HourPasses
    BY <1>1, <2>4 DEF HourPasses
  <2>5. CASE Choosing \/ vars' = vars
    BY <1>1, <2>5, ChoosingIsAside, StillKeeps DEF Aside, NotifyInv
  <2>6. CASE Deliver
    BY <1>1, <2>6, DeliverKeeps
  <2>7. CASE \/ Wake \/ Crash \/ LoseWrite \/ \E d \in queue : ComesDue(d)
             \/ \E ch \in ViaInstallation : Expire(ch)
    BY <1>1, <2>7 DEF Wake, Crash, LoseWrite, ComesDue, Expire, tables
  <2> QED BY <1>1, <2>2, <2>3, <2>4, <2>5, <2>6, <2>7 DEF Next
<1>2. NotifyInv /\ [Next]_vars =>
        [\A r \in held : r.digest /\ ~r.ripe => r \in held' \/ [r EXCEPT !.ripe = TRUE] \in held']_vars
  BY <1>1
<1> QED BY <1>2, NotifyInvariant, PTL DEF DigestKept, Spec

\* A security event that was told, or whose ref is claimed, is in the bell or a call of one of
\* its ref is about to put it there.
OnItsWay(e) == \/ \E f \in bell : Twins(e, f)
               \/ \E p \in Callers : call[p].pc = "bell" /\ Twins(e, call[p].event)

SecurityArrives ==
  \A e \in Events : Group(e) = "security" =>
    /\ e \in called /\ e \notin WalletEvents => OnItsWay(e)
    /\ RefOf[e] \in reminders => OnItsWay(e)

\* What the refs of the code do: two events of one ref are of one kind.
RefsAreOfAKind == \A e, f \in Events : Twins(e, f) => KindOf[e] = KindOf[f]

LEMMA SecurityStep ==
  ASSUME "abort" \notin Ops, "crash" \notin Ops, RefsAreOfAKind,
         NotifyInv, SecurityArrives, [Next]_vars
  PROVE  SecurityArrives'
<1> USE DEF NotifyInv
<1>0. call \in [Callers -> Call]
  BY DEF TypeOK
<1>1. ASSUME UNCHANGED <<called, reminders>>, bell \subseteq bell',
             \A p \in Callers : call[p].pc = "bell" =>
               \/ call'[p].pc = "bell" /\ call'[p].event = call[p].event
               \/ Group(call[p].event) = "security" => call[p].event \in bell'
      PROVE  SecurityArrives'
  <2> SUFFICES ASSUME NEW e \in Events, Group(e) = "security", OnItsWay(e)
               PROVE  OnItsWay(e)'
    BY <1>1 DEF SecurityArrives
  <2>1. ASSUME NEW p \in Callers, call[p].pc = "bell", Twins(e, call[p].event)
        PROVE  \/ \E f \in bell' : Twins(e, f)
               \/ \E q \in Callers : call'[q].pc = "bell" /\ Twins(e, call'[q].event)
    <3>1. call[p].event \in called
      BY <2>1 DEF Calls
    <3>2. call[p].event \in Events
      BY <3>1 DEF TypeOK
    <3>3. Group(call[p].event) = "security"
      BY <2>1, <3>2 DEF RefsAreOfAKind, Group
    <3> QED BY <1>1, <2>1, <3>3
  <2> QED BY <1>1, <2>1 DEF OnItsWay, Twins
<1>2. ASSUME NEW p \in Callers, NEW e \in Events, Claim(p, e)
      PROVE  SecurityArrives'
  <2>1. /\ call[p].pc = "idle" /\ bell' = bell /\ called' = called \cup {e}
    BY <1>2 DEF Claim
  <2>2. CASE UNCHANGED <<reminders, call>> /\ ((e \in WalletEvents /\ walletOff) \/ RefOf[e] \in reminders)
    BY <2>1, <2>2 DEF SecurityArrives, OnItsWay, Twins
  <2>3. CASE /\ reminders' = reminders \cup ({RefOf[e]} \cap Refs)
             /\ call' = [call EXCEPT ![p].pc = "bell", ![p].event = e]
    <3>1. /\ \A q \in Callers : q # p => call'[q] = call[q]
          /\ call'[p].pc = "bell" /\ call'[p].event = e
      BY <1>0, <2>3 DEF Call
    <3>2. \A f \in Events : OnItsWay(f) => OnItsWay(f)'
      BY <2>1, <3>1 DEF OnItsWay, Twins
    <3>3. \A f \in Events : Twins(f, e) => OnItsWay(f)'
      BY <3>1 DEF OnItsWay, Twins
    <3>4. \A f \in Events : RefOf[f] \in reminders' => RefOf[f] \in reminders \/ Twins(f, e)
      BY <2>3, NotifyConstants DEF Twins
    <3>5. Twins(e, e)
      BY DEF Twins
    <3> QED BY <2>1, <3>2, <3>3, <3>4, <3>5 DEF SecurityArrives
  <2> QED BY <1>2, <2>2, <2>3 DEF Claim
<1>3. ASSUME NEW p \in Callers, Bell(p)
      PROVE  SecurityArrives'
  <2>1. /\ \A q \in Callers : q # p => call'[q] = call[q]
        /\ UNCHANGED <<called, reminders>> /\ bell \subseteq bell'
    BY <1>0, <1>3 DEF Bell, ghosts
  <2>2. call[p].event \in Events
    BY <1>3 DEF Bell, Calls, TypeOK
  <2>3. Group(call[p].event) = "security" => InApp \in channelsFor(KindOf[call[p].event])
    BY <2>2 DEF channelsFor, AllChannels, Group
  <2>4. Group(call[p].event) = "security" => call[p].event \in bell'
    BY <1>3, <2>3 DEF Bell
  <2> QED BY <1>1, <2>1, <2>4
<1>4. ASSUME NEW p \in Callers, Decide(p) \/ Return(p) \/ \E ch \in Channels : Queue(p, ch)
      PROVE  SecurityArrives'
  <2>1. /\ \A q \in Callers : q # p => call'[q] = call[q]
        /\ call[p].pc # "bell"
        /\ UNCHANGED <<called, reminders, bell>>
    BY <1>0, <1>4 DEF Decide, Return, Queue, tables, ghosts
  <2> QED BY <1>1, <2>1
<1>5. CASE ~Notifying
  <2> DEFINE Spared == UNCHANGED <<bell, called, reminders, call>>
  <2>1. CASE Release
    BY <1>1, <2>1, ReleaseKeeps
  <2>2. CASE Deliver
    BY <1>1, <2>2, DeliverKeeps
  <2>3. CASE Choosing
    BY <1>1, <2>3, ChoosingIsAside DEF Aside
  <2>4. CASE Wake \/ HourPasses \/ LoseWrite
    <3>1. Spared
      BY <2>4 DEF Wake, HourPasses, LoseWrite, tables, memory, ghosts
    <3> QED BY <1>1, <3>1
  <2>5. ASSUME NEW d \in queue, ComesDue(d)
        PROVE  SecurityArrives'
    <3>1. Spared
      BY <2>5 DEF ComesDue, memory, ghosts
    <3> QED BY <1>1, <3>1
  <2>6. ASSUME NEW ch \in ViaInstallation, Expire(ch)
        PROVE  SecurityArrives'
    <3>1. Spared
      BY <2>6 DEF Expire, tables, ghosts
    <3> QED BY <1>1, <3>1
  <2>7. CASE UNCHANGED vars
    <3>1. Spared
      BY <2>7 DEF vars, choices, tables, memory, ghosts
    <3> QED BY <1>1, <3>1
  <2>8. ~Crash
    BY DEF Crash
  <2> QED BY <1>5, <2>1, <2>2, <2>3, <2>4, <2>5, <2>6, <2>7, <2>8 DEF Next
<1>6. \A p \in Callers : ~Abort(p)
  BY DEF Abort
<1> QED BY <1>2, <1>3, <1>4, <1>5, <1>6 DEF Notifying

\* As long as no call is cut short, a security event is in the bell once the calls for its ref
\* are over, whatever the person turned off and however many calls tell it at once
\* (service.go:99, 135).
THEOREM SecurityIsInTheBell ==
  ASSUME "abort" \notin Ops, "crash" \notin Ops, RefsAreOfAKind
  PROVE  Spec => []SecurityInBell
<1>1. Init => SecurityArrives
  BY DEF Init, SecurityArrives
<1>2. NotifyInv /\ SecurityArrives /\ [Next]_vars => SecurityArrives'
  BY SecurityStep
<1>3. NotifyInv /\ SecurityArrives => SecurityInBell
  <2> SUFFICES ASSUME NotifyInv, SecurityArrives, NEW e \in called, Group(e) = "security",
                      e \notin WalletEvents,
                      \A f \in Events : Twins(e, f) => \A p \in Callers : call[p].event # f
               PROVE  \E f \in bell : Twins(e, f)
    BY DEF SecurityInBell
  <2>1. e \in Events /\ OnItsWay(e)
    BY DEF NotifyInv, TypeOK, SecurityArrives
  <2>2. ASSUME NEW p \in Callers, call[p].pc = "bell", Twins(e, call[p].event)
        PROVE  FALSE
    <3>1. call[p].event \in called
      BY <2>2 DEF NotifyInv, Calls
    <3>2. call[p].event \in Events
      BY <3>1 DEF NotifyInv, TypeOK
    <3> QED BY <2>2, <3>2
  <2> QED BY <2>1, <2>2 DEF OnItsWay
<1> QED BY <1>1, <1>2, <1>3, NotifyInvariant, PTL DEF Spec

\* The queue implements Outbox: what was accepted is told or given up, never lost,
\* and does not come back.
THEOREM QueueImplementsOutbox == Spec => ImplementsOutbox
<1>1. Init => Box!Init
  BY DEF Init, Box!Init, waiting, told
<1>2. NotifyInv /\ [Next]_vars => [Box!Next]_(Box!box)
  BY OutboxStep, TypesStep
<1> QED BY <1>1, <1>2, NotifyInvariant, PTL DEF Spec, ImplementsOutbox, Box!Spec
=============================================================================
