---------------------------- MODULE ScheduleProofs ----------------------------
(***************************************************************************)
(* Type correctness of Schedule for every interleaving, and what the       *)
(* package comment of schedule/service.go promises, for a server on which  *)
(* no two readers of a schedule overlap (Serial), with crashes and restarts*)
(* anywhere, for any schedules, cadences and bounds.                       *)
(***************************************************************************)
EXTENDS Schedule, RecurrenceProofs, WellFoundedInduction, SequenceTheorems

\* What a posting writes: a row of the same cadence, later and with one
\* occurrence less.
LEMMA AdvancedIsRow ==
  ASSUME NEW row \in Row, NEW sc \in Row, ~Exhausts(sc), NextDue(sc) \in Days
  PROVE  /\ Advanced(row, sc) \in Row
         /\ Advanced(row, sc).nextDue = NextDue(sc)
         /\ NextDue(sc) > sc.nextDue
<1>1. sc.nextDue \in Nat /\ sc.unit \in Units /\ sc.everyN \in Nat \ {0}
  BY DaysAreDates DEF Row
<1>2. NextDue(sc) > sc.nextDue
  BY <1>1, AddIntervalAdvances DEF NextDue
<1>3. sc.remaining = NoLimit \/ sc.remaining - 1 \in Nat
  BY DEF Exhausts, Row, Limits
<1>4. (IF sc.remaining = NoLimit THEN NoLimit ELSE sc.remaining - 1) \in Limits
  BY <1>3 DEF Limits
<1> QED BY <1>2, <1>4 DEF Advanced, Row

\* The schedule a run is at is one of those left.
LEMMA CurrentIsLeft ==
  ASSUME TypeOK, todo # {}
  PROVE  Current \in todo
<1>1. todo \subseteq Nat
  BY SchedulesAreIds DEF TypeOK
<1> DEFINE Below == OpToRel(<, Nat)
<1>2. \A a, b \in Nat : a < b => <<a, b>> \in Below
  BY DEF OpToRel
<1>3. IsWellFoundedOn(Below, Nat)
  BY NatLessThanWellFounded
<1> HIDE DEF Below
<1>4. PICK s \in todo : \A t \in todo : ~(<<t, s>> \in Below)
  BY <1>1, <1>3, WFMin
<1>5. \A t \in todo : ~(t < s)
  BY <1>1, <1>2, <1>4
<1>6. \A t \in todo : s <= t
  BY <1>1, <1>5
<1> QED BY <1>6 DEF Current

LEMMA PostOnceTypes ==
  ASSUME TypeOK, NEW s \in Schedules, NEW sc \in Row, NEW post \in BOOLEAN,
         postOnce(s, sc, post)
  PROVE  /\ rows' \in [Schedules -> Row \cup {NoRow}]
         /\ history' \in [Schedules -> Seq(Entry)]
<1>1. Skips(sc) \in BOOLEAN
  BY DEF Skips, AdjustWeekend
<1>2. [due |-> sc.nextDue, registered |-> post /\ ~Skips(sc)] \in Entry
  BY <1>1 DEF Entry, Row
<1>3. history' \in [Schedules -> Seq(Entry)]
  BY <1>2 DEF postOnce, TypeOK
<1>4. rows[s] \in Row /\ ~Exhausts(sc) => Advanced(rows[s], sc) \in Row
  BY AdvancedIsRow DEF postOnce
<1>5. rows' \in [Schedules -> Row \cup {NoRow}]
  BY <1>4 DEF postOnce, TypeOK
<1> QED BY <1>3, <1>5

LEMMA TypeInit == Init => TypeOK
BY DaysAreDates, CatchUpCapPositive DEF Init, TypeOK, Pending

LEMMA TypeStep == TypeOK /\ [Next]_vars => TypeOK'
<1> SUFFICES ASSUME TypeOK, [Next]_vars PROVE TypeOK'
  OBVIOUS
<1> USE DEF runVars
<1>0. ASSUME runPc \in {"loop", "reload"}, todo # {}
      PROVE  Current \in Schedules
  BY <1>0, CurrentIsLeft DEF TypeOK
<1>1. CASE RunStart
  BY <1>1, CatchUpCapPositive DEF RunStart, TypeOK
<1>2. CASE RunNext
  BY <1>2, <1>0, CatchUpCapPositive DEF RunNext, Finished, TypeOK
<1>3. CASE RunPost
  <2>1. Current \in Schedules /\ snap[Current] \in Row
    BY <1>3, CurrentIsLeft DEF RunPost, TypeOK
  <2>2. /\ rows' \in [Schedules -> Row \cup {NoRow}]
        /\ history' \in [Schedules -> Seq(Entry)]
    BY <1>3, <2>1, PostOnceTypes DEF RunPost
  <2>3. posted' \in 0 .. CatchUpCap
    BY <1>3, CatchUpCapPositive DEF RunPost, TypeOK
  <2> QED BY <1>3, <2>2, <2>3 DEF RunPost, TypeOK
<1>4. CASE RunFails
  BY <1>4, DaysAreDates, CatchUpCapPositive DEF RunFails, Forget, TypeOK
<1>5. CASE RunReload
  <2>1. CASE rows[Current] = NoRow
    <3>1. /\ todo' = todo \ {Current} /\ posted' = 0
          /\ snap' = [snap EXCEPT ![Current] = NoRow]
      BY <1>5, <2>1 DEF RunReload, Finished
    <3>2. snap' \in [Schedules -> Row \cup {NoRow}]
      BY <3>1 DEF TypeOK
    <3>3. \A s \in todo' : snap'[s] \in Row
      BY <3>1 DEF TypeOK
    <3> QED BY <1>5, <3>1, <3>2, <3>3, CatchUpCapPositive DEF RunReload, TypeOK
  <2>2. CASE rows[Current] # NoRow
    <3>1. todo = {} \/ Current \in todo
      BY CurrentIsLeft
    <3>2. /\ snap' = [snap EXCEPT ![Current] = rows[Current]]
          /\ todo' = todo /\ posted' = posted
      BY <1>5, <2>2 DEF RunReload
    <3>3. snap' \in [Schedules -> Row \cup {NoRow}]
      BY <3>1, <3>2 DEF TypeOK
    <3>4. \A s \in todo' : snap'[s] \in Row
      BY <2>2, <3>1, <3>2 DEF TypeOK
    <3> QED BY <1>5, <3>2, <3>3, <3>4 DEF RunReload, TypeOK
  <2> QED BY <2>1, <2>2
<1>6. CASE RunEnd
  BY <1>6, DaysAreDates, CatchUpCapPositive DEF RunEnd, Forget, TypeOK
<1>7. CASE Edits
  BY <1>7, ConfigsAreRows
     DEF Edits, Create, Update, Delete, DeleteAccount, DeleteTemplate, DeleteWallet, TypeOK
<1>8. CASE Reads
  BY <1>8 DEF Reads, ReadForPost, TypeOK, Pending
<1>9. CASE Commits
  <2> PICK h \in Handlers, s \in Schedules : PostNow(h, s) \/ Skip(h, s)
    BY <1>9 DEF Commits
  <2>1. pending[h].sc \in Row
    BY DEF PostNow, Skip, TypeOK, Pending
  <2>2. /\ rows' \in [Schedules -> Row \cup {NoRow}]
        /\ history' \in [Schedules -> Seq(Entry)]
    BY <2>1, PostOnceTypes DEF PostNow, Skip
  <2> QED BY <2>2 DEF PostNow, Skip, TypeOK, Pending
<1>10. CASE GiveUps
  BY <1>10 DEF GiveUps, GiveUp, TypeOK, Pending
<1>11. CASE Tick
  BY <1>11 DEF Tick, TypeOK
<1>12. CASE Crash
  BY <1>12, DaysAreDates, CatchUpCapPositive DEF Crash, Forget, TypeOK, Pending
<1>13. CASE UNCHANGED vars
  BY <1>13 DEF vars, TypeOK
<1> QED BY <1>1, <1>2, <1>3, <1>4, <1>5, <1>6, <1>7, <1>8, <1>9, <1>10, <1>11, <1>12,
           <1>13 DEF Next, RunSteps

\* Every interleaving of requests, runs and crashes keeps the variables in
\* their types.
THEOREM TypeCorrect == Spec => []TypeOK
BY TypeInit, TypeStep, PTL DEF Spec

-----------------------------------------------------------------------------
\* A posting from a copy that is the row itself keeps the series in order.
LEMMA PostKeepsOrder ==
  ASSUME TypeOK, Ordered, NEW s \in Schedules, NEW post \in BOOLEAN,
         rows[s] \in Row, postOnce(s, rows[s], post), edited' = edited
  PROVE  Ordered'
<1> DEFINE e == [due |-> rows[s].nextDue, registered |-> post /\ ~Skips(rows[s])]
<1>1. history[s] \in Seq(Entry) /\ Len(history[s]) \in Nat
  BY DEF TypeOK
<1>2. e.due = rows[s].nextDue /\ rows[s].nextDue \in Nat
  BY DaysAreDates DEF Row
<1>3. /\ history' = [history EXCEPT ![s] = Append(@, e)]
      /\ rows' = [rows EXCEPT ![s] =
           IF @ = NoRow \/ Exhausts(rows[s]) THEN NoRow ELSE Advanced(@, rows[s])]
  BY DEF postOnce
<1>4. rows'[s] # NoRow => rows'[s].nextDue > rows[s].nextDue /\ rows'[s].nextDue \in Nat
  <2>1. NextDue(rows[s]) \in Days
    BY DEF postOnce
  <2>2. CASE Exhausts(rows[s])
    BY <1>3, <2>2 DEF TypeOK
  <2>3. CASE ~Exhausts(rows[s])
    <3>1. rows'[s] = Advanced(rows[s], rows[s])
      BY <1>3, <2>3, NoRowIsNoRow DEF TypeOK
    <3>2. Advanced(rows[s], rows[s]).nextDue = NextDue(rows[s])
      BY <2>1, <2>3, AdvancedIsRow
    <3>3. NextDue(rows[s]) > rows[s].nextDue
      BY <2>1, <2>3, AdvancedIsRow
    <3> QED BY <2>1, <3>1, <3>2, <3>3, DaysAreDates
  <2> QED BY <2>2, <2>3
<1>5. ASSUME NEW t \in Schedules, t # s
      PROVE  history'[t] = history[t] /\ rows'[t] = rows[t]
  BY <1>3, <1>5 DEF TypeOK
<1>6. /\ DOMAIN history'[s] = 1 .. Len(history[s]) + 1
      /\ \A i \in 1 .. Len(history[s]) : history'[s][i] = history[s][i]
      /\ history'[s][Len(history[s]) + 1] = e
  <2> HIDE DEF e
  <2>1. e \in Entry
    <3>1. Skips(rows[s]) \in BOOLEAN
      BY DEF Skips, AdjustWeekend
    <3> QED BY <3>1 DEF e, Entry, Row
  <2>2. history'[s] = Append(history[s], e)
    BY <1>3 DEF TypeOK
  <2> QED BY <1>1, <2>1, <2>2
<1>7. s \notin edited =>
        \A i \in 1 .. Len(history[s]) :
          /\ history[s][i].due \in Nat
          /\ history[s][i].due < rows[s].nextDue
          /\ \A j \in 1 .. Len(history[s]) : i < j => history[s][i].due < history[s][j].due
  <2>1. \A i \in 1 .. Len(history[s]) : history[s][i].due \in Nat
    <3>1. \A i \in 1 .. Len(history[s]) : history[s][i] \in Entry
      BY <1>1
    <3> QED BY <3>1, DaysAreDates DEF Entry
  <2>2. DOMAIN history[s] = 1 .. Len(history[s])
    BY <1>1
  <2> QED BY <2>1, <2>2, NoRowIsNoRow DEF Ordered
<1> HIDE DEF e
<1>8. ASSUME s \notin edited, NEW i \in DOMAIN history'[s]
      PROVE  /\ \A j \in DOMAIN history'[s] : i < j => history'[s][i].due < history'[s][j].due
             /\ rows'[s] # NoRow => history'[s][i].due < rows'[s].nextDue
  <2>1. CASE i \in 1 .. Len(history[s])
    <3>1. \A j \in DOMAIN history'[s] : i < j => history'[s][i].due < history'[s][j].due
      BY <1>1, <1>2, <1>6, <1>7, <1>8, <2>1, SMTT(20)
    <3>2. rows'[s] # NoRow => history'[s][i].due < rows'[s].nextDue
      BY <1>1, <1>2, <1>4, <1>6, <1>7, <1>8, <2>1
    <3> QED BY <3>1, <3>2
  <2>2. CASE i = Len(history[s]) + 1
    BY <1>1, <1>2, <1>4, <1>6, <2>2
  <2> QED BY <1>1, <1>6, <1>8, <2>1, <2>2
<1> QED BY <1>5, <1>8 DEF Ordered

LEMMA FreshInit == Init => Fresh
BY DEF Init, Fresh

\* What a posting leaves alone: every other row.
LEMMA PostTouchesOne ==
  ASSUME TypeOK, NEW s \in Schedules, NEW sc, NEW post, postOnce(s, sc, post)
  PROVE  \A t \in Schedules \ {s} : rows'[t] = rows[t]
BY DEF postOnce, TypeOK

LEMMA FreshStep == Serial /\ TypeOK /\ Fresh /\ [Next]_vars => Fresh'
<1> SUFFICES ASSUME Serial, TypeOK, Fresh, [Next]_vars PROVE Fresh'
  OBVIOUS
<1> USE DEF runVars
<1>1. CASE RunStart
  BY <1>1 DEF Alone, NobodyElse, RunStart, Fresh, TypeOK
<1>2. CASE RunNext
  <2>1. /\ todo' = todo \ {Current} /\ snap' = [snap EXCEPT ![Current] = NoRow]
        /\ runPc = "loop" /\ runPc' = "loop" /\ rows' = rows /\ pending' = pending
    BY <1>2 DEF RunNext, Finished
  <2>2. \A s \in todo' : snap'[s] = rows'[s]
    BY <2>1 DEF Fresh, TypeOK
  <2> QED BY <2>1, <2>2 DEF Fresh
<1>3. CASE RunPost
  <2>1. /\ runPc = "loop" /\ runPc' = "reload" /\ todo # {}
        /\ todo' = todo /\ snap' = snap /\ pending' = pending
        /\ postOnce(Current, snap[Current], TRUE)
    BY <1>3 DEF RunPost
  <2>2. Current' = Current
    BY <2>1 DEF Current
  <2>3. \A s \in todo' \ {Current} : snap'[s] = rows'[s]
    BY <2>1, CurrentIsLeft, PostTouchesOne DEF Fresh, TypeOK
  <2> QED BY <2>1, <2>2, <2>3 DEF Fresh
<1>4. CASE RunFails \/ RunEnd
  BY <1>4 DEF RunFails, RunEnd, Forget, Fresh
<1>5. CASE RunReload
  <2>1. /\ runPc = "reload" /\ runPc' = "loop" /\ rows' = rows /\ pending' = pending
        /\ todo' \subseteq todo
    BY <1>5 DEF RunReload, Finished
  <2>2. \A s \in todo' : snap'[s] = rows'[s]
    <3>1. CASE rows[Current] = NoRow
      <4>1. todo' = todo \ {Current} /\ snap' = [snap EXCEPT ![Current] = NoRow]
        BY <1>5, <3>1 DEF RunReload, Finished
      <4> QED BY <2>1, <4>1 DEF Fresh, TypeOK
    <3>2. CASE rows[Current] # NoRow
      <4>1. todo' = todo /\ snap' = [snap EXCEPT ![Current] = rows[Current]]
        BY <1>5, <3>2 DEF RunReload
      <4> QED BY <2>1, <4>1 DEF Fresh, TypeOK
    <3> QED BY <3>1, <3>2
  <2> QED BY <2>1, <2>2 DEF Fresh
<1>6. CASE Edits
  <2>1. Alone /\ runPc' = runPc /\ todo' = todo /\ pending' = pending
    BY <1>6 DEF Edits, Create, Update, Delete, DeleteAccount, DeleteTemplate, DeleteWallet
  <2> QED BY <2>1 DEF Alone, NobodyElse, Fresh
<1>7. CASE Reads
  <2> PICK h \in Handlers, s \in Schedules, op \in {"post", "skip"} : ReadForPost(h, s, op)
    BY <1>7 DEF Reads
  <2> QED BY DEF Alone, NobodyElse, ReadForPost, Fresh, TypeOK, Idle
<1>8. CASE Commits
  <2> PICK h \in Handlers, s \in Schedules : PostNow(h, s) \/ Skip(h, s)
    BY <1>8 DEF Commits
  <2>1. pending[h] # Idle /\ pending' = [pending EXCEPT ![h] = Idle]
        /\ runPc' = runPc /\ todo' = todo
    BY DEF PostNow, Skip
  <2>2. runPc = "idle" /\ \A g \in Handlers : g # h => pending[g] = Idle
    BY <2>1 DEF Fresh, TypeOK
  <2>3. \A g \in Handlers : pending'[g] = Idle
    BY <2>1, <2>2 DEF TypeOK
  <2> QED BY <2>1, <2>2, <2>3 DEF Fresh
<1>9. CASE GiveUps
  <2> PICK h \in Handlers : GiveUp(h)
    BY <1>9 DEF GiveUps
  <2> QED BY DEF GiveUp, Fresh, TypeOK
<1>10. CASE Tick
  <2>1. Current' = Current
    BY <1>10 DEF Tick, Current
  <2> QED BY <1>10, <2>1 DEF Tick, Fresh
<1>11. CASE Crash
  BY <1>11 DEF Crash, Forget, Fresh
<1>12. CASE UNCHANGED vars
  <2>1. Current' = Current
    BY <1>12 DEF vars, Current
  <2> QED BY <1>12, <2>1 DEF vars, Fresh
<1> QED BY <1>1, <1>2, <1>3, <1>4, <1>5, <1>6, <1>7, <1>8, <1>9, <1>10, <1>11, <1>12
        DEF Next, RunSteps

\* A step that writes no history, and no row except where it marks the series
\* as edited or removes the row, keeps the order.
LEMMA OrderedUntouched ==
  ASSUME Ordered, history' = history, edited \subseteq edited',
         \A s \in Schedules \ edited' :
           rows'[s] \in {rows[s], NoRow} \/ history[s] = <<>>
  PROVE  Ordered'
BY DEF Ordered

LEMMA OrderedStep == TypeOK /\ Fresh /\ Ordered /\ [Next]_vars => Ordered'
<1> SUFFICES ASSUME TypeOK, Fresh, Ordered, [Next]_vars PROVE Ordered'
  OBVIOUS
<1> USE DEF runVars
<1>1. CASE RunPost
  <2>1. Current \in Schedules /\ snap[Current] = rows[Current] /\ rows[Current] \in Row
    BY <1>1, CurrentIsLeft DEF RunPost, Fresh, TypeOK
  <2> QED BY <1>1, <2>1, PostKeepsOrder DEF RunPost
<1>2. CASE Commits
  <2> PICK h \in Handlers, s \in Schedules : PostNow(h, s) \/ Skip(h, s)
    BY <1>2 DEF Commits
  <2>1. pending[h].sc = rows[s] /\ rows[s] \in Row
    <3>1. pending[h] # Idle /\ pending[h].id = s
      BY DEF PostNow, Skip
    <3>2. pending[h].sc \in Row
      BY <3>1 DEF TypeOK, Pending
    <3> QED BY <3>1, <3>2 DEF Fresh
  <2>2. edited' = edited /\ (postOnce(s, rows[s], TRUE) \/ postOnce(s, rows[s], FALSE))
    BY <2>1 DEF PostNow, Skip
  <2> QED BY <2>1, <2>2, PostKeepsOrder
<1>3. CASE Edits
  <2> PICK s \in Schedules : \/ Create(s) \/ Update(s) \/ Delete(s)
                             \/ DeleteAccount(s) \/ DeleteTemplate(s) \/ DeleteWallet(s)
    BY <1>3 DEF Edits
  <2>1. history' = history /\ edited \subseteq edited'
    BY DEF Create, Update, Delete, DeleteAccount, DeleteTemplate, DeleteWallet
  <2>2. \A t \in Schedules \ edited' :
          rows'[t] \in {rows[t], NoRow} \/ history[t] = <<>>
    BY DEF Create, Update, Delete, DeleteAccount, DeleteTemplate, DeleteWallet, TypeOK
  <2> QED BY <2>1, <2>2, OrderedUntouched
<1>4. CASE RunStart \/ RunNext \/ RunFails \/ RunReload \/ RunEnd \/ Reads \/ GiveUps
           \/ Tick \/ Crash \/ UNCHANGED vars
  <2>1. rows' = rows /\ history' = history /\ edited' = edited
    BY <1>4 DEF RunStart, RunNext, RunFails, RunReload, RunEnd, Reads, ReadForPost,
                GiveUps, GiveUp, Tick, Crash, vars
  <2> QED BY <2>1, OrderedUntouched
<1> QED BY <1>1, <1>2, <1>3, <1>4 DEF Next, RunSteps

\* Nothing overlaps, so every copy is fresh and every series in order.
THEOREM SerialInvariant == Serial => (Spec => [](TypeOK /\ SerialInv))
<1> SUFFICES ASSUME Serial PROVE Spec => [](TypeOK /\ SerialInv)
  OBVIOUS
<1>1. Init => TypeOK /\ SerialInv
  BY TypeInit, FreshInit DEF Init, SerialInv, Ordered
<1>2. TypeOK /\ SerialInv /\ [Next]_vars => (TypeOK /\ SerialInv)'
  BY TypeStep, FreshStep, OrderedStep DEF SerialInv
<1> QED BY <1>1, <1>2, PTL DEF Spec

\* An occurrence is registered once: two entries of one date would be out of
\* order.
LEMMA OrderedIsOnce == TypeOK /\ Ordered => OncePerOccurrence
<1> SUFFICES ASSUME TypeOK, Ordered, NEW s \in Schedules \ edited,
                    NEW i \in Registered(s), NEW j \in Registered(s),
                    history[s][i].due = history[s][j].due
             PROVE  i = j
  BY DEF OncePerOccurrence
<1>1. i \in DOMAIN history[s] /\ j \in DOMAIN history[s]
  BY DEF Registered
<1>2. i \in Nat /\ j \in Nat /\ history[s] \in Seq(Entry)
  BY <1>1 DEF TypeOK
<1>3. history[s][i].due \in Nat /\ history[s][j].due \in Nat
  <2>1. history[s][i] \in Entry /\ history[s][j] \in Entry
    BY <1>1, <1>2
  <2> QED BY <2>1, DaysAreDates DEF Entry
<1> QED BY <1>1, <1>2, <1>3 DEF Ordered

\* service.go:4: "a restart never double-posts".
THEOREM NeverPostedTwice == Serial => (Spec => []OncePerOccurrence)
BY SerialInvariant, OrderedIsOnce, PTL DEF SerialInv

\* Whatever overlaps, a schedule that is gone stays gone: postOnce's UPDATE
\* affects no row, and only Create makes one, under an id of its own.
THEOREM GoneStaysGone == Spec => GoneForGood
<1>1. ASSUME TypeOK, [Next]_vars, NEW s \in Schedules, rows[s] = NoRow, rows'[s] # NoRow
      PROVE  history[s] = <<>> /\ s \notin edited
  <2>1. ASSUME NEW t \in Schedules, NEW sc, NEW post, postOnce(t, sc, post)
        PROVE  FALSE
    BY <1>1, <2>1 DEF postOnce, TypeOK
  <2>2. CASE RunPost
    <3>1. Current \in Schedules
      BY <1>1, <2>2, CurrentIsLeft DEF RunPost, TypeOK
    <3> QED BY <2>1, <2>2, <3>1 DEF RunPost
  <2>3. CASE Commits
    BY <2>1, <2>3 DEF Commits, PostNow, Skip
  <2>4. CASE Edits
    <3> PICK t \in Schedules : \/ Create(t) \/ Update(t) \/ Delete(t)
                               \/ DeleteAccount(t) \/ DeleteTemplate(t) \/ DeleteWallet(t)
      BY <2>4 DEF Edits
    <3>1. CASE Create(t)
      BY <1>1, <3>1 DEF Create, TypeOK
    <3>2. CASE Update(t)
      BY <1>1, <3>2 DEF Update, TypeOK
    <3>3. CASE Delete(t) \/ DeleteAccount(t) \/ DeleteTemplate(t) \/ DeleteWallet(t)
      BY <1>1, <3>3 DEF Delete, DeleteAccount, DeleteTemplate, DeleteWallet, TypeOK
    <3> QED BY <3>1, <3>2, <3>3
  <2>5. CASE RunStart \/ RunNext \/ RunFails \/ RunReload \/ RunEnd \/ Reads \/ GiveUps
             \/ Tick \/ Crash \/ UNCHANGED vars
    <3>1. rows' = rows
      BY <2>5 DEF RunStart, RunNext, RunFails, RunReload, RunEnd, Reads, ReadForPost,
                  GiveUps, GiveUp, Tick, Crash, vars
    <3> QED BY <1>1, <3>1
  <2> QED BY <1>1, <2>2, <2>3, <2>4, <2>5 DEF Next, RunSteps
<1>2. TypeOK /\ [Next]_vars => [StaysGone]_vars
  BY <1>1 DEF StaysGone
<1> QED BY <1>2, TypeCorrect, PTL DEF Spec, GoneForGood
-----------------------------------------------------------------------------
(***************************************************************************)
(* No occurrence is lost on the way, and a limit is kept                   *)
(***************************************************************************)

\* What a posting from a copy that is the row itself does to its series: one
\* entry more, and the row, if it is still there, moved on by one.
LEMMA PostMovesOn ==
  ASSUME TypeOK, NEW s \in Schedules, NEW post \in BOOLEAN,
         rows[s] \in Row, postOnce(s, rows[s], post)
  PROVE  /\ \A t \in Schedules \ {s} : history'[t] = history[t] /\ rows'[t] = rows[t]
         /\ Len(history'[s]) = Len(history[s]) + 1
         /\ \A i \in 1 .. Len(history[s]) : history'[s][i] = history[s][i]
         /\ history'[s][Len(history[s]) + 1].due = rows[s].nextDue
         /\ rows'[s] # NoRow =>
              /\ ~Exhausts(rows[s])
              /\ rows'[s].unit = rows[s].unit /\ rows'[s].everyN = rows[s].everyN
              /\ rows'[s].nextDue = NextDue(rows[s])
              /\ rows'[s].remaining =
                   IF rows[s].remaining = NoLimit THEN NoLimit ELSE rows[s].remaining - 1
<1> DEFINE e == [due |-> rows[s].nextDue, registered |-> post /\ ~Skips(rows[s])]
<1>1. /\ history' = [history EXCEPT ![s] = Append(@, e)]
      /\ rows' = [rows EXCEPT ![s] =
           IF @ = NoRow \/ Exhausts(rows[s]) THEN NoRow ELSE Advanced(@, rows[s])]
  BY DEF postOnce
<1>2. e.due = rows[s].nextDue
  OBVIOUS
<1>3. e \in Entry
  <2>1. Skips(rows[s]) \in BOOLEAN
    BY DEF Skips, AdjustWeekend
  <2> QED BY <2>1 DEF Entry, Row
<1>4. rows[s] # NoRow
  BY NoRowIsNoRow
<1> HIDE DEF e
<1>5. \A t \in Schedules \ {s} : history'[t] = history[t] /\ rows'[t] = rows[t]
  BY <1>1 DEF TypeOK
<1>6. history[s] \in Seq(Entry) /\ history'[s] = Append(history[s], e)
  BY <1>1 DEF TypeOK
<1>7. /\ Len(history'[s]) = Len(history[s]) + 1
      /\ \A i \in 1 .. Len(history[s]) : history'[s][i] = history[s][i]
      /\ history'[s][Len(history[s]) + 1] = e
  BY <1>3, <1>6
<1>8. CASE Exhausts(rows[s])
  <2>1. rows'[s] = NoRow
    BY <1>1, <1>8 DEF TypeOK
  <2> QED BY <1>2, <1>5, <1>7, <2>1
<1>9. CASE ~Exhausts(rows[s])
  <2>1. rows'[s] = Advanced(rows[s], rows[s])
    BY <1>1, <1>4, <1>9 DEF TypeOK
  <2>2. /\ rows'[s].unit = rows[s].unit /\ rows'[s].everyN = rows[s].everyN
        /\ rows'[s].nextDue = NextDue(rows[s])
        /\ rows'[s].remaining =
             IF rows[s].remaining = NoLimit THEN NoLimit ELSE rows[s].remaining - 1
    BY <2>1 DEF Advanced, Row
  <2> QED BY <1>2, <1>5, <1>7, <1>9, <2>2
<1> QED BY <1>8, <1>9

\* The two facts, by schedule.
Unbroken(s) ==
  rows[s] # NoRow =>
    \A i \in 1 .. Len(history[s]) :
      (IF i = Len(history[s]) THEN rows[s].nextDue ELSE history[s][i + 1].due)
        = AddInterval(history[s][i].due, rows[s].unit, rows[s].everyN)

Limited(s) ==
  rows[s] # NoRow /\ rows[s].remaining # NoLimit =>
    /\ history[s] # <<>> => rows[s].remaining >= 1
    /\ \E c \in Configs : /\ c.remaining # NoLimit
                          /\ c.remaining = rows[s].remaining + Len(history[s])

SeriesInv == \A s \in Schedules \ edited : Unbroken(s) /\ Limited(s)

LEMMA PostKeepsSeries ==
  ASSUME TypeOK, SeriesInv, NEW s \in Schedules, NEW post \in BOOLEAN,
         rows[s] \in Row, postOnce(s, rows[s], post), edited' = edited
  PROVE  SeriesInv'
<1>1. /\ history[s] \in Seq(Entry) /\ history'[s] \in Seq(Entry)
      /\ Len(history[s]) \in Nat /\ DOMAIN history[s] = 1 .. Len(history[s])
  BY PostOnceTypes DEF TypeOK
<1>2. rows[s] # NoRow
  BY NoRowIsNoRow
<1>3. ASSUME NEW t \in Schedules \ edited', t # s
      PROVE  Unbroken(t)' /\ Limited(t)'
  <2>1. history'[t] = history[t] /\ rows'[t] = rows[t]
    BY <1>3, PostMovesOn
  <2>2. Unbroken(t) /\ Limited(t)
    BY DEF SeriesInv
  <2> QED BY <2>1, <2>2 DEF Unbroken, Limited
<1>4. ASSUME s \notin edited'
      PROVE  Unbroken(s)'
  <2> SUFFICES ASSUME rows'[s] # NoRow, NEW i \in 1 .. Len(history'[s])
               PROVE  (IF i = Len(history'[s]) THEN rows'[s].nextDue ELSE history'[s][i + 1].due)
                        = AddInterval(history'[s][i].due, rows'[s].unit, rows'[s].everyN)
    BY DEF Unbroken
  <2>1. /\ Len(history'[s]) = Len(history[s]) + 1
        /\ \A j \in 1 .. Len(history[s]) : history'[s][j] = history[s][j]
        /\ history'[s][Len(history[s]) + 1].due = rows[s].nextDue
        /\ rows'[s].unit = rows[s].unit /\ rows'[s].everyN = rows[s].everyN
        /\ rows'[s].nextDue = NextDue(rows[s])
    BY PostMovesOn
  <2>2. \A j \in 1 .. Len(history[s]) :
          (IF j = Len(history[s]) THEN rows[s].nextDue ELSE history[s][j + 1].due)
            = AddInterval(history[s][j].due, rows[s].unit, rows[s].everyN)
    BY <1>2, <1>4 DEF SeriesInv, Unbroken
  <2>3. CASE i = Len(history[s]) + 1
    BY <1>1, <2>1, <2>3 DEF NextDue
  <2>4. CASE i = Len(history[s])
    <3>1. i \in 1 .. Len(history[s])
      BY <1>1, <2>4
    <3>2. i # Len(history'[s]) /\ history'[s][i] = history[s][i]
      BY <1>1, <2>1, <2>4, <3>1
    <3>3. history'[s][i + 1].due = rows[s].nextDue
      BY <2>1, <2>4
    <3> QED BY <2>1, <2>2, <2>4, <3>1, <3>2, <3>3
  <2>5. CASE i \in 1 .. Len(history[s]) /\ i # Len(history[s])
    <3>1. i + 1 \in 1 .. Len(history[s]) /\ i # Len(history'[s])
      BY <1>1, <2>1, <2>5
    <3>2. history'[s][i] = history[s][i] /\ history'[s][i + 1] = history[s][i + 1]
      BY <2>1, <2>5, <3>1
    <3> QED BY <2>1, <2>2, <2>5, <3>1, <3>2
  <2> QED BY <1>1, <2>1, <2>3, <2>4, <2>5
<1>5. ASSUME s \notin edited'
      PROVE  Limited(s)'
  <2> SUFFICES ASSUME rows'[s] # NoRow, rows'[s].remaining # NoLimit
               PROVE  /\ rows'[s].remaining >= 1
                      /\ \E c \in Configs :
                           /\ c.remaining # NoLimit
                           /\ c.remaining = rows'[s].remaining + Len(history'[s])
    BY DEF Limited
  <2>1. /\ Len(history'[s]) = Len(history[s]) + 1 /\ ~Exhausts(rows[s])
        /\ rows'[s].remaining =
             IF rows[s].remaining = NoLimit THEN NoLimit ELSE rows[s].remaining - 1
    BY PostMovesOn
  <2>2. rows[s].remaining # NoLimit /\ rows'[s].remaining = rows[s].remaining - 1
    BY <2>1
  <2>3. rows[s].remaining \in Int /\ rows[s].remaining > 1
    BY <2>1, <2>2 DEF Exhausts, Row, Limits
  <2>4. PICK c \in Configs : /\ c.remaining # NoLimit
                             /\ c.remaining = rows[s].remaining + Len(history[s])
    BY <1>2, <1>5, <2>2 DEF SeriesInv, Limited
  <2>5. c.remaining = rows'[s].remaining + Len(history'[s])
    <3> DEFINE left == rows[s].remaining
               done == Len(history[s])
    <3>1. left \in Int /\ done \in Nat /\ c.remaining = left + done
      BY <1>1, <2>3, <2>4
    <3>2. rows'[s].remaining = left - 1 /\ Len(history'[s]) = done + 1
      BY <2>1, <2>2
    <3> HIDE DEF left, done
    <3> QED BY <3>1, <3>2
  <2> QED BY <2>2, <2>3, <2>4, <2>5
<1> QED BY <1>3, <1>4, <1>5 DEF SeriesInv

LEMMA SeriesStep == TypeOK /\ Fresh /\ SeriesInv /\ [Next]_vars => SeriesInv'
<1> SUFFICES ASSUME TypeOK, Fresh, SeriesInv, [Next]_vars PROVE SeriesInv'
  OBVIOUS
<1> USE DEF runVars
<1>0. ASSUME history' = history, edited \subseteq edited',
             \A s \in Schedules \ edited' :
               \/ rows'[s] \in {rows[s], NoRow}
               \/ history[s] = <<>> /\ rows'[s] \in Configs
      PROVE  SeriesInv'
  <2> SUFFICES ASSUME NEW s \in Schedules \ edited'
               PROVE  Unbroken(s)' /\ Limited(s)'
    BY DEF SeriesInv
  <2>1. Unbroken(s) /\ Limited(s)
    BY <1>0 DEF SeriesInv
  <2>2. CASE rows'[s] \in {rows[s], NoRow}
    BY <1>0, <2>1, <2>2 DEF Unbroken, Limited
  <2>3. CASE history[s] = <<>> /\ rows'[s] \in Configs
    <3>1. Len(history'[s]) = 0 /\ history'[s] = <<>>
      BY <1>0, <2>3
    <3>2. rows'[s].remaining # NoLimit => rows'[s].remaining = rows'[s].remaining + 0
      BY <2>3, ConfigsAreRows DEF Row, Limits
    <3>3. 1 .. 0 = {}
      OBVIOUS
    <3> QED BY <2>3, <3>1, <3>2, <3>3 DEF Unbroken, Limited
  <2> QED BY <1>0, <2>2, <2>3
<1>1. CASE RunPost
  <2>1. Current \in Schedules /\ snap[Current] = rows[Current] /\ rows[Current] \in Row
    BY <1>1, CurrentIsLeft DEF RunPost, Fresh, TypeOK
  <2> QED BY <1>1, <2>1, PostKeepsSeries DEF RunPost
<1>2. CASE Commits
  <2> PICK h \in Handlers, s \in Schedules : PostNow(h, s) \/ Skip(h, s)
    BY <1>2 DEF Commits
  <2>1. pending[h].sc = rows[s] /\ rows[s] \in Row
    <3>1. pending[h] # Idle /\ pending[h].id = s
      BY DEF PostNow, Skip
    <3>2. pending[h].sc \in Row
      BY <3>1 DEF TypeOK, Pending
    <3> QED BY <3>1, <3>2 DEF Fresh
  <2>2. edited' = edited /\ (postOnce(s, rows[s], TRUE) \/ postOnce(s, rows[s], FALSE))
    BY <2>1 DEF PostNow, Skip
  <2> QED BY <2>1, <2>2, PostKeepsSeries
<1>3. CASE Edits
  <2> PICK s \in Schedules : \/ Create(s) \/ Update(s) \/ Delete(s)
                             \/ DeleteAccount(s) \/ DeleteTemplate(s) \/ DeleteWallet(s)
    BY <1>3 DEF Edits
  <2>1. history' = history /\ edited \subseteq edited'
    BY DEF Create, Update, Delete, DeleteAccount, DeleteTemplate, DeleteWallet
  <2>2. \A t \in Schedules \ edited' :
          \/ rows'[t] \in {rows[t], NoRow}
          \/ history[t] = <<>> /\ rows'[t] \in Configs
    BY DEF Create, Update, Delete, DeleteAccount, DeleteTemplate, DeleteWallet, TypeOK
  <2> QED BY <1>0, <2>1, <2>2
<1>4. CASE RunStart \/ RunNext \/ RunFails \/ RunReload \/ RunEnd \/ Reads \/ GiveUps
           \/ Tick \/ Crash \/ UNCHANGED vars
  <2>1. rows' = rows /\ history' = history /\ edited' = edited
    BY <1>4 DEF RunStart, RunNext, RunFails, RunReload, RunEnd, Reads, ReadForPost,
                GiveUps, GiveUp, Tick, Crash, vars
  <2> QED BY <1>0, <2>1
<1> QED BY <1>1, <1>2, <1>3, <1>4 DEF Next, RunSteps

LEMMA SeriesHolds == Serial => (Spec => [](TypeOK /\ SerialInv /\ SeriesInv))
<1> SUFFICES ASSUME Serial PROVE Spec => [](TypeOK /\ SerialInv /\ SeriesInv)
  OBVIOUS
<1>1. Init => SeriesInv
  BY DEF Init, SeriesInv, Unbroken, Limited
<1>2. TypeOK /\ SerialInv /\ SeriesInv /\ [Next]_vars => SeriesInv'
  BY SeriesStep DEF SerialInv
<1> QED BY <1>1, <1>2, SerialInvariant, PTL DEF Spec

\* No occurrence is passed over: what the series has behind it follows the cadence
\* without a hole, and next_due is the date after it (postOnce, RunDue).
THEOREM NoOccurrenceIsLost == Serial => (Spec => []NoGaps)
<1> SUFFICES ASSUME Serial PROVE Spec => []NoGaps
  OBVIOUS
<1>1. TypeOK /\ SerialInv /\ SeriesInv => NoGaps
  <2> SUFFICES ASSUME TypeOK, Ordered, SeriesInv, NEW s \in Schedules \ edited,
                      NEW i \in DOMAIN history[s]
               PROVE  /\ i > 1 => history[s][i - 1].due < history[s][i].due
                      /\ rows[s] # NoRow =>
                           (IF i = Len(history[s]) THEN rows[s].nextDue
                                                   ELSE history[s][i + 1].due)
                             = AddInterval(history[s][i].due, rows[s].unit, rows[s].everyN)
    BY DEF NoGaps, SerialInv
  <2>1. history[s] \in Seq(Entry) /\ i \in 1 .. Len(history[s]) /\ Len(history[s]) \in Nat
    BY DEF TypeOK
  <2>2. i > 1 => history[s][i - 1].due < history[s][i].due
    <3>1. i > 1 => i - 1 \in DOMAIN history[s] /\ i - 1 < i
      BY <2>1
    <3> QED BY <3>1 DEF Ordered
  <2> QED BY <2>1, <2>2 DEF SeriesInv, Unbroken
<1> QED BY <1>1, SeriesHolds, PTL

\* A series limited to n occurrences moves past no more than n: done and left
\* always add up to a limit it was created with (postOnce's remaining).
THEOREM LimitsAreKept == Serial => (Spec => []LimitKept)
<1> SUFFICES ASSUME Serial PROVE Spec => []LimitKept
  OBVIOUS
<1>1. SeriesInv => LimitKept
  BY DEF SeriesInv, Limited, LimitKept
<1> QED BY <1>1, SeriesHolds, PTL
=============================================================================
