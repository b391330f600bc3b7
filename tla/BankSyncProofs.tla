---------------------------- MODULE BankSyncProofs ----------------------------
(***************************************************************************)
(* What a bank sync promises of a register, for any accounts, movements,   *)
(* edits, failures and providers: every movement the bank showed in time   *)
(* is in one row (Serial: syncs of the connection do not overlap), and the *)
(* background job reaches the bank once a scheduled day (always).          *)
(***************************************************************************)
EXTENDS BankSync, TLAPS

Active(p) == pc[p] \in {"fetch", "accounts", "preview"}
Got(p) == job[p].answered

-----------------------------------------------------------------------------
(***************************************************************************)
(* The invariant                                                           *)
(***************************************************************************)

\* What a sync holds at each place it can be at.
ShapeOf(p) ==
  /\ pc[p] = "idle" => job[p] = NoJob
  /\ pc[p] = "due" => job[p] = [NoJob EXCEPT !.slot = job[p].slot]
  /\ pc[p] # "preview" => batch[p] = NoBatch
  /\ Active(p) =>
       /\ job[p].at \in Ticks /\ job[p].at <= clock /\ clock - job[p].at <= MaxLag
       /\ job[p].last <= job[p].at
       /\ \A e \in Exts : job[p].links[e] = NoAccount => e \in skipped \/ links[e] = NoAccount
       /\ job[p].todo \subseteq Got(p) /\ Got(p) \subseteq Linked(p)
       /\ \A f, g \in job[p].got : extOf[f.move] \in Got(p) /\ (g.move = f.move => g = f)
  /\ pc[p] = "preview" =>
       /\ batch[p].ext \in job[p].todo /\ batch[p].left \subseteq Of(p, batch[p].ext)
       /\ \A x, y \in batch[p].seen : x.id = y.id => x = y

Shapes ==
  /\ TypeOK
  /\ \A p \in Syncs : ShapeOf(p)
  /\ conn.last <= clock

\* An id a sync has drawn for a new row is nobody else's, and what it has seen of
\* the register was there.
IdsAreDrawnOnce ==
  \A p \in Syncs :
    /\ \A i \in Claimed(p) : batch[p].plan[i].new =>
         rows[i] = Free /\ \A q \in Syncs : i \in Claimed(q) => q = p
    /\ \A x \in batch[p].seen : rows[x.id] # Free

\* No sync of the connection overlaps another, so none moves the window under it.
OneAtATime ==
  /\ \A p, q \in Syncs : Active(p) /\ Active(q) => p = q
  /\ \A p \in Syncs : Active(p) => job[p].last = conn.last

\* A slot that had its sync is behind last_synced_at, and the job that is under way
\* is for one that had none.
Slots ==
  /\ \A d \in 0..Day(LastTick) : runs[d] > 0 => conn.last >= 2 * d + 1
  /\ pc["auto"] # "idle" =>
       /\ job["auto"].slot \in 0..Day(LastTick)
       /\ clock >= 2 * job["auto"].slot + 1
       /\ runs[job["auto"].slot] = 0
  /\ \A d \in 0..Day(LastTick) : runs[d] <= 1

\* A merge holds two live rows of one account, for nobody edits meanwhile.
MergeIsOfTwo ==
  merge # NoMerge =>
    /\ merge.keep \in Live /\ merge.drop \in Live /\ merge.keep # merge.drop
    /\ rows[merge.keep].acct = rows[merge.drop].acct
    /\ merge.at # "none"
    /\ merge.at = "ref" => ~merge.copied /\ merge.ref # NoRef
    /\ merge.copied => merge.ref # NoRef

\* i and j are the two rows of the merge that has given the ref m to both.
Copied(i, j, m) == merge.copied /\ merge.ref = m /\ {i, j} = {merge.keep, merge.drop}

Holds(i, a, m) == i \in Live /\ rows[i].acct = a /\ rows[i].ref = m

\* Whatever else holds m, i and it are the two rows of a merge, begun or cut short.
Sole(i, a, m) == \A j \in Ids : Holds(j, a, m) /\ j # i => m \in cut \/ Copied(i, j, m)

Unique == \A i \in Ids : \A a \in Accounts : \A m \in Moves : Holds(i, a, m) => Sole(i, a, m)

\* What the plan of a preview may take for granted until its commit.
PlanIsSound(p) ==
  \A i \in Claimed(p) :
    LET w == batch[p].plan[i] IN
    /\ w.acct = Acct(p)
    /\ ~w.new => rows[i] # Free /\ (i \in Live => rows[i].acct = Acct(p))
    /\ \E f \in Of(p, batch[p].ext) \ batch[p].left :
         f.move = w.ref /\ w.status = StatusOf(f.state)
    /\ \A j \in Claimed(p) : batch[p].plan[j].ref = w.ref => j = i
    /\ rows[i] # Gone => Sole(i, Acct(p), w.ref)

\* What it has seen of the register is all that is there of a movement.
SeenIsSound(p) ==
  /\ \A x \in batch[p].seen : x.id \in Live =>
       /\ rows[x.id].acct = Acct(p)
       /\ x.ref \in Moves => Sole(x.id, Acct(p), x.ref)
  /\ \A m \in Moves : (\A x \in batch[p].seen : x.ref # m) =>
       \A j \in Ids : Holds(j, Acct(p), m) => m \in cut

Register ==
  /\ OneAtATime
  /\ Unique
  /\ \A p \in Syncs : pc[p] = "preview" => PlanIsSound(p) /\ SeenIsSound(p)

\* A movement has a row of the account with at least the status s.
Secure(m, a, s) == \E i \in Ids : Holds(i, a, m) /\ rows[i].status >= s

\* A row that nobody took away or restated has a status the bank gave it.
StatusesAreTheBanks ==
  /\ \A i \in Live : rows[i].ref \in Moves /\ rows[i].ref \notin excused =>
       Secure(rows[i].ref, rows[i].acct, PendingStatus)
  /\ merge.at = "ref" /\ merge.ref \in Moves /\ merge.ref \notin excused =>
       rows[merge.drop].ref = merge.ref

SeenStands(p) ==
  \A x \in batch[p].seen : x.ref \in Moves /\ x.ref \notin excused =>
    /\ Holds(x.id, Acct(p), x.ref) /\ rows[x.id].status = x.status
    /\ Secure(x.ref, Acct(p), PendingStatus)
    /\ x.id \in Claimed(p) => batch[p].plan[x.id].ref = x.ref

\* What was fetched is on its way into the register, or there.
Arrives(p) ==
  /\ \A f \in job[p].got :
       \/ extOf[f.move] \in job[p].todo \/ f.move \in excused
       \/ Secure(f.move, job[p].links[extOf[f.move]], Owed(f.state))
  /\ pc[p] = "preview" =>
       \A f \in Of(p, batch[p].ext) \ batch[p].left :
         \/ f.move \in excused \/ Secure(f.move, Acct(p), Owed(f.state))
         \/ \E i \in Claimed(p) : batch[p].plan[i].ref = f.move

Arrival ==
  /\ StatusesAreTheBanks
  /\ \A p \in Syncs : /\ pc[p] = "preview" => SeenStands(p)
                      /\ pc[p] \in {"accounts", "preview"} => Arrives(p)

InRegister(m, s) == \E i \in Live : rows[i].ref = m /\ rows[i].status >= s

\* The first day that counts once the sync p is done.
Wanted(p) == IF job[p].last = Never THEN From(Never, job[p].at) ELSE since

\* Shown, or booked, since the sync p began, at most Drift days back.
Late(p, m) == bank[m].day >= Day(job[p].at) - Drift

\* What is before the window is in the register ...
WindowIsPassed ==
  conn.last # Never =>
    \A m \in Moves :
      bank[m].state # "none" /\ bank[m].day >= since /\ extOf[m] \notin skipped /\ m \notin excused
      => bank[m].day >= Day(conn.last) - Overlap \/ InRegister(m, Owed(bank[m].state))

\* ... and so will be what is before the next one.
FetchedInTime(p) ==
  /\ \A f \in job[p].got : f.state = bank[f.move].state \/ Late(p, f.move)
  /\ \A m \in Moves :
       bank[m].state # "none" /\ bank[m].day >= Wanted(p) /\ extOf[m] \in Got(p)
         /\ extOf[m] \notin skipped /\ m \notin excused
       => \/ \E f \in job[p].got : f.move = m
          \/ Late(p, m) \/ InRegister(m, Owed(bank[m].state))

WindowMovesOn ==
  /\ WindowIsPassed
  /\ \A p \in Syncs : pc[p] \in {"accounts", "preview"} => FetchedInTime(p)

\* The overlap of the windows outlasts the bank's delay and the sync's own time.
OverlapCoversLateness == Drift + (MaxLag + 1) \div 2 <= Overlap

-----------------------------------------------------------------------------
(***************************************************************************)
(* Days and statuses                                                       *)
(***************************************************************************)

LEMMA DaysOfTicks ==
  ASSUME NEW t \in Ticks
  PROVE  /\ t \in Nat /\ Day(t) \in Nat /\ Day(t) <= Day(LastTick)
         /\ 2 * Day(t) <= t /\ t <= 2 * Day(t) + 1
         /\ t % 2 = 1 => t = 2 * Day(t) + 1
         /\ Day(t) \in 0 .. Day(LastTick)
<1>1. t \in Nat /\ LastTick \in Nat /\ t <= LastTick
  BY BankConstants DEF Ticks
<1>2. \A n \in Nat : /\ n \div 2 \in Nat /\ 2 * (n \div 2) <= n /\ n <= 2 * (n \div 2) + 1
                     /\ n % 2 = 1 => n = 2 * (n \div 2) + 1
  OBVIOUS
<1>3. Day(t) \in Nat /\ Day(LastTick) \in Nat /\ 2 * Day(t) <= t /\ t <= 2 * Day(t) + 1
      /\ LastTick <= 2 * Day(LastTick) + 1
  BY <1>1, <1>2 DEF Day
<1>4. t % 2 = 1 => t = 2 * Day(t) + 1
  BY <1>1, <1>2 DEF Day
<1> QED BY <1>1, <1>3, <1>4

LEMMA DaysGoOn ==
  ASSUME NEW t \in Ticks, NEW u \in Ticks, t <= u
  PROVE  Day(t) <= Day(u)
<1>1. /\ Day(t) \in Nat /\ Day(u) \in Nat /\ t \in Nat /\ u \in Nat
      /\ 2 * Day(t) <= t /\ u <= 2 * Day(u) + 1
  BY DaysOfTicks
<1> QED BY <1>1

LEMMA DatesAreDays ==
  ASSUME clock \in Ticks, NEW d \in (Day(clock) - Drift) .. (Day(clock) + 1)
  PROVE  d \in Days
<1>1. Day(clock) \in Nat /\ Day(clock) <= Day(LastTick) /\ Drift \in Nat
  BY DaysOfTicks, BankConstants
<1>2. Day(LastTick) \in Nat
  <2>1. LastTick \in Ticks
    BY BankConstants DEF Ticks
  <2> QED BY <2>1, DaysOfTicks
<1> QED BY <1>1, <1>2 DEF Days

LEMMA StatusesAreOwed ==
  ASSUME NEW state
  PROVE  /\ StatusOf(state) \in Statuses /\ Owed(state) \in Statuses
         /\ PendingStatus \in Statuses /\ PendingStatus <= Owed(state)
         /\ Owed(state) <= StatusOf(state)
         /\ StatusOf(state) < Reconciled => Owed(state) = PendingStatus
         /\ \A s \in Statuses : s >= Reconciled => s >= Owed(state)
BY BankConstants DEF StatusOf, Owed, Statuses, Reconciled

LEMMA LiveRows ==
  ASSUME TypeOK, NEW i \in Live
  PROVE  i \in Ids /\ rows[i] \in Row
BY DEF TypeOK, Live

LEMMA RowsAreLive ==
  ASSUME NEW i \in Ids, rows[i] \in Row
  PROVE  i \in Live
BY BankConstants DEF Live

LEMMA PlansAreOfIds ==
  ASSUME TypeOK, NEW p \in Syncs, NEW i \in Claimed(p)
  PROVE  i \in Ids /\ batch[p].plan[i] \in Planned
<1>1. batch[p] \in Batch
  BY DEF TypeOK
<1> QED BY <1>1 DEF Claimed, Batch

-----------------------------------------------------------------------------
(***************************************************************************)
(* The steps                                                               *)
(***************************************************************************)

\* What people do to the rows of the register, and the merges under way.
EditStep ==
  \/ \E a \in Accounts, m \in Moves, ref \in {NoRef, MailRef} : AddRow(a, m, ref)
  \/ \E i \in Ids : DeleteRow(i) \/ \E s \in Statuses : SetStatus(i, s)
  \/ \E k, d \in Ids : MergeRead(k, d)
  \/ Merging

Setting == (\E e \in Exts, a \in Accounts \cup {NoAccount} : Link(e, a)) \/ SetAutoSync

Over(p) == FetchFails(p) \/ Abort(p)

\* The steps, by what they leave alone.
LEMMA Steps ==
  ASSUME [Next]_vars
  PROVE  \/ EditStep \/ Setting \/ Tick \/ Bank \/ SyncDue \/ UNCHANGED vars
         \/ \E p \in Syncs : \/ Load(p) \/ Fetch(p) \/ PreviewStart(p) \/ PreviewRow(p)
                             \/ Commit(p) \/ Touch(p) \/ Over(p)
BY DEF Next, Sync, Editing, EditStep, Setting, Over

LEMMA EditsKeep ==
  ASSUME EditStep
  PROVE  UNCHANGED <<clock, bank, links, conn, pc, job, batch, runs, since, skipped>>
BY DEF EditStep, AddRow, DeleteRow, SetStatus, MergeRead, Merging, MergeRef, MergeDelete,
       MergeAbort, bankVars, syncVars, ghosts

\* Everything else but a commit leaves the register and the merge as they are.
LEMMA OthersKeep ==
  ASSUME \/ Setting \/ Tick \/ Bank \/ SyncDue \/ UNCHANGED vars
         \/ \E p \in Syncs : \/ Load(p) \/ Fetch(p) \/ PreviewStart(p) \/ PreviewRow(p)
                             \/ Touch(p) \/ Over(p)
  PROVE  UNCHANGED <<rows, merge, excused, cut>>
<1> USE DEF ghosts, editVars, vars
<1>1. CASE Setting \/ Tick \/ Bank \/ SyncDue \/ UNCHANGED vars
  BY <1>1 DEF Setting, Link, SetAutoSync, Tick, Bank, Appear, Book, SyncDue
<1>2. ASSUME NEW p \in Syncs, Load(p) \/ Fetch(p) \/ PreviewStart(p) \/ PreviewRow(p)
      PROVE  UNCHANGED <<rows, merge, excused, cut>>
  BY <1>2 DEF Load, Fetch, PreviewStart, PreviewRow
<1>3. ASSUME NEW p \in Syncs, Touch(p) \/ Over(p)
      PROVE  UNCHANGED <<rows, merge, excused, cut>>
  BY <1>3 DEF Touch, Over, FetchFails, Abort, Ended
<1> QED BY <1>1, <1>2, <1>3

LEMMA CommitKeeps ==
  ASSUME NEW p \in Syncs, Commit(p)
  PROVE  UNCHANGED <<clock, bank, links, conn, merge, edits, aborts, runs, since, skipped, cut>>
BY DEF Commit, bankVars, editVars

-----------------------------------------------------------------------------
(***************************************************************************)
(* The shapes                                                              *)
(***************************************************************************)

LEMMA EmptyShapes == NoJob \in Job /\ NoBatch \in Batch /\ NoMerge \in Merge
BY DEF NoJob, Job, NoBatch, Batch, NoMerge, Merge, Refs

LEMMA TypesEdit == ASSUME TypeOK, MergeIsOfTwo, EditStep PROVE TypeOK'
<1> USE DEF bankVars, syncVars, ghosts
<1>0. /\ rows \in [Ids -> Row \cup {Free, Gone}] /\ merge \in Merge /\ clock \in Ticks
      /\ edits \in 0 .. MaxEdits /\ aborts \in 0 .. MaxAborts
      /\ excused \subseteq Moves /\ cut \subseteq Moves \cup {MailRef}
  BY DEF TypeOK
<1>1. edits' \in 0 .. MaxEdits /\ aborts' \in 0 .. MaxAborts
  <2>1. edits' = edits \/ (edits < MaxEdits /\ edits' = edits + 1)
    BY DEF EditStep, AddRow, DeleteRow, SetStatus, MergeRead, Merging, MergeRef, MergeDelete, MergeAbort, Edit
  <2>2. aborts' = aborts \/ (aborts < MaxAborts /\ aborts' = aborts + 1)
    BY DEF EditStep, AddRow, DeleteRow, SetStatus, MergeRead, Merging, MergeRef, MergeDelete, MergeAbort
  <2> QED BY <1>0, <2>1, <2>2, BankConstants
<1>2. \A i \in Live : rows[i] \in Row
  BY LiveRows
<1>3. excused' \subseteq Moves
  BY <1>0 DEF EditStep, AddRow, DeleteRow, SetStatus, MergeRead, Merging, MergeRef, MergeDelete,
             MergeAbort, MovesOf
<1>4. cut' \subseteq Moves \cup {MailRef}
  <2>1. CASE MergeRef
    <3>1. merge.ref # NoRef /\ merge.ref \in Refs
      BY <1>0, <2>1 DEF MergeRef, MergeIsOfTwo, NoMerge, Merge
    <3> QED BY <1>0, <2>1, <3>1 DEF MergeRef, Refs
  <2>2. CASE MergeAbort
    <3>1. merge.copied => merge.ref # NoRef
      BY <2>2 DEF MergeAbort, MergeIsOfTwo, NoMerge
    <3>2. merge.ref \in Refs
      BY <1>0 DEF Merge
    <3> QED BY <1>0, <2>2, <3>1, <3>2 DEF MergeAbort, Refs
  <2>3. CASE cut' = cut
    BY <1>0, <2>3
  <2> QED BY <2>1, <2>2, <2>3 DEF EditStep, AddRow, DeleteRow, SetStatus, MergeRead, Merging, MergeDelete
<1>5. merge' \in Merge
  <2>1. CASE \E k, d \in Ids : MergeRead(k, d)
    <3> PICK k \in Ids, d \in Ids : MergeRead(k, d)
      BY <2>1
    <3>1. rows[d].ref \in Refs
      BY <1>2 DEF MergeRead, Row
    <3> QED BY <3>1 DEF MergeRead, NoMerge, Merge
  <2>2. CASE MergeRef
    BY <1>0, <2>2 DEF MergeRef, Merge
  <2>3. CASE merge' \in {merge, NoMerge}
    BY <1>0, <2>3, EmptyShapes
  <2> QED BY <2>1, <2>2, <2>3 DEF EditStep, AddRow, DeleteRow, SetStatus, Merging, MergeDelete, MergeAbort
<1>6. rows' \in [Ids -> Row \cup {Free, Gone}]
  <2>1. ASSUME NEW a \in Accounts, NEW m \in Moves, NEW ref \in {NoRef, MailRef}, AddRow(a, m, ref)
        PROVE  rows' \in [Ids -> Row \cup {Free, Gone}]
    <3>1. PICK d \in {Day(clock), Day(clock) + 1}, i \in Ids :
            rows' = [rows EXCEPT ![i] = [acct |-> a, ref |-> ref, amount |-> amountOf[m],
                                         day |-> d, status |-> 0]]
      BY <2>1 DEF AddRow, FreshIds
    <3>2. d \in Days
      <4>1. Day(clock) \in Nat /\ Drift \in Nat
        BY <1>0, DaysOfTicks, BankConstants
      <4>2. d \in (Day(clock) - Drift) .. (Day(clock) + 1)
        BY <3>1, <4>1
      <4> QED BY <1>0, <4>2, DatesAreDays
    <3>3. [acct |-> a, ref |-> ref, amount |-> amountOf[m], day |-> d, status |-> 0] \in Row
      BY <3>2 DEF Row, Refs, Statuses
    <3> QED BY <1>0, <3>1, <3>3
  <2>2. ASSUME NEW i \in Ids, NEW s \in Statuses, SetStatus(i, s)
        PROVE  rows' \in [Ids -> Row \cup {Free, Gone}]
    <3>1. [rows[i] EXCEPT !.status = s] \in Row
      BY <1>2, <2>2 DEF SetStatus, Row
    <3> QED BY <1>0, <2>2, <3>1 DEF SetStatus
  <2>3. CASE MergeRef
    <3>1. merge.keep \in Live => [rows[merge.keep] EXCEPT !.ref = merge.ref] \in Row
      BY <1>0, <1>2 DEF Merge, Row
    <3> QED BY <1>0, <2>3, <3>1 DEF MergeRef
  <2>4. CASE MergeDelete \/ \E i \in Ids : DeleteRow(i)
    BY <1>0, <2>4 DEF MergeDelete, DeleteRow
  <2>5. CASE rows' = rows
    BY <1>0, <2>5
  <2> QED BY <2>1, <2>2, <2>3, <2>4, <2>5 DEF EditStep, MergeRead, Merging, MergeAbort
<1> QED BY <1>1, <1>3, <1>4, <1>5, <1>6, EditsKeep DEF TypeOK

LEMMA TypesSetting == ASSUME TypeOK, Setting \/ Tick \/ Bank \/ SyncDue \/ UNCHANGED vars PROVE TypeOK'
<1> USE DEF bankVars, syncVars, editVars, ghosts
<1>0. /\ clock \in Ticks /\ edits \in 0 .. MaxEdits /\ links \in [Exts -> Accounts \cup {NoAccount}]
      /\ bank \in [Moves -> [state : {"none", "pending", "booked"}, day : Days]]
      /\ conn \in [last : Ticks \cup {Never}, auto : BOOLEAN]
      /\ job \in [Syncs -> Job]
      /\ pc \in [Syncs -> {"idle", "due", "fetch", "accounts", "preview"}]
  BY DEF TypeOK
<1>1. CASE Setting
  <2>1. edits' \in 0 .. MaxEdits
    BY <1>0, <1>1, BankConstants DEF Setting, Link, SetAutoSync, Edit
  <2>2. links' \in [Exts -> Accounts \cup {NoAccount}] /\ conn' \in [last : Ticks \cup {Never}, auto : BOOLEAN]
    <3>1. CASE \E e \in Exts, a \in Accounts \cup {NoAccount} : Link(e, a)
      BY <1>0, <3>1 DEF Link
    <3>2. CASE SetAutoSync
      <4>1. [conn EXCEPT !.auto = ~@] \in [last : Ticks \cup {Never}, auto : BOOLEAN]
        BY <1>0
      <4> QED BY <1>0, <3>2, <4>1 DEF SetAutoSync
    <3> QED BY <1>1, <3>1, <3>2 DEF Setting
  <2>3. skipped' \subseteq Exts
    BY <1>1 DEF Setting, Link, SetAutoSync, TypeOK
  <2> QED BY <1>1, <2>1, <2>2, <2>3 DEF Setting, Link, SetAutoSync, TypeOK
<1>2. CASE Tick
  <2>1. clock' \in Ticks
    BY <1>0, <1>2, BankConstants DEF Tick, Ticks
  <2> QED BY <1>2, <2>1 DEF Tick, TypeOK
<1>3. CASE Bank
  <2> PICK m \in Moves : Appear(m) \/ Book(m)
    BY <1>3 DEF Bank
  <2>1. PICK s \in {"pending", "booked"}, d \in (Day(clock) - Drift) .. Day(clock) :
          bank' = [bank EXCEPT ![m] = [state |-> s, day |-> d]]
    BY DEF Appear, Book
  <2>2. d \in Days
    <3>1. Day(clock) \in Nat /\ Drift \in Nat
      BY <1>0, DaysOfTicks, BankConstants
    <3>2. d \in (Day(clock) - Drift) .. (Day(clock) + 1)
      BY <3>1
    <3> QED BY <1>0, <3>2, DatesAreDays
  <2>3. bank' \in [Moves -> [state : {"none", "pending", "booked"}, day : Days]]
    BY <1>0, <2>1, <2>2
  <2> QED BY <2>3 DEF Appear, Book, TypeOK
<1>4. CASE SyncDue
  <2>1. [job["auto"] EXCEPT !.slot = Day(clock)] \in Job
    BY <1>0, DaysOfTicks DEF Job, Syncs
  <2>2. job' \in [Syncs -> Job] /\ pc' \in [Syncs -> {"idle", "due", "fetch", "accounts", "preview"}]
    BY <1>0, <1>4, <2>1 DEF SyncDue
  <2> QED BY <1>4, <2>2 DEF SyncDue, TypeOK
<1>5. CASE UNCHANGED vars
  BY <1>5 DEF vars, TypeOK
<1> QED BY <1>1, <1>2, <1>3, <1>4, <1>5


LEMMA TypesRun ==
  ASSUME TypeOK, NEW p \in Syncs, Load(p) \/ Fetch(p) \/ PreviewStart(p) \/ Over(p)
  PROVE  TypeOK'
<1> USE DEF bankVars, syncVars, editVars, ghosts
<1>0. /\ clock \in Ticks /\ aborts \in 0 .. MaxAborts /\ links \in [Exts -> Accounts \cup {NoAccount}]
      /\ bank \in [Moves -> [state : {"none", "pending", "booked"}, day : Days]]
      /\ conn \in [last : Ticks \cup {Never}, auto : BOOLEAN]
      /\ job \in [Syncs -> Job] /\ batch \in [Syncs -> Batch]
      /\ pc \in [Syncs -> {"idle", "due", "fetch", "accounts", "preview"}]
      /\ job[p] \in Job /\ batch[p] \in Batch
  BY DEF TypeOK
<1>1. CASE Load(p)
  <2>1. [job[p] EXCEPT !.at = clock, !.last = conn.last, !.links = links] \in Job
    BY <1>0 DEF Job
  <2>2. job' \in [Syncs -> Job] /\ pc' \in [Syncs -> {"idle", "due", "fetch", "accounts", "preview"}]
    BY <1>0, <1>1, <2>1 DEF Load
  <2> QED BY <1>1, <2>2 DEF Load, TypeOK
<1>2. CASE Fetch(p)
  <2> PICK ok \in SUBSET Linked(p) :
        job' = [job EXCEPT ![p] =
            [@ EXCEPT !.answered = ok,
                      !.got  = UNION {Answer(p, e) : e \in ok},
                      !.todo = {e \in ok : Answer(p, e) # {}}]]
    BY <1>2 DEF Fetch
  <2>1. ok \subseteq Exts
    BY DEF Linked
  <2>2. \A e \in Exts : Answer(p, e) \subseteq Fetched
    <3> TAKE e \in Exts
    <3>1. \A n \in Moves : bank[n].state # "none" =>
            [move |-> n, state |-> bank[n].state, day |-> bank[n].day] \in Fetched
      BY <1>0 DEF Fetched
    <3> QED BY <3>1 DEF Answer
  <2> DEFINE got == UNION {Answer(p, e) : e \in ok}
             todo == {e \in ok : Answer(p, e) # {}}
  <2>3. got \subseteq Fetched /\ todo \subseteq Exts
    BY <2>1, <2>2
  <2> HIDE DEF got, todo
  <2>4. [job[p] EXCEPT !.answered = ok, !.got = got, !.todo = todo] \in Job
    BY <1>0, <2>1, <2>3 DEF Job
  <2>5. job' = [job EXCEPT ![p] = [@ EXCEPT !.answered = ok, !.got = got, !.todo = todo]]
    BY DEF got, todo
  <2>6. job' \in [Syncs -> Job]
    BY <1>0, <2>4, <2>5
  <2>7. pc' \in [Syncs -> {"idle", "due", "fetch", "accounts", "preview"}]
    BY <1>0, <1>2 DEF Fetch
  <2> QED BY <1>2, <2>6, <2>7 DEF Fetch, TypeOK
<1>3. CASE PreviewStart(p)
  <2> DEFINE S(acct) == {[ref |-> rows[i].ref, id |-> i, status |-> rows[i].status] :
                           i \in {j \in Live : rows[j].acct = acct /\ rows[j].ref # NoRef}}
  <2>1. \A acct : S(acct) \subseteq Found
    <3>1. \A i \in Live : [ref |-> rows[i].ref, id |-> i, status |-> rows[i].status] \in Found
      BY LiveRows DEF Found, Row
    <3> QED BY <3>1
  <2> PICK e \in job[p].todo :
        batch' = [batch EXCEPT ![p] =
          [NoBatch EXCEPT !.ext = e, !.left = Of(p, e), !.seen = S(job[p].links[e])]]
    BY <1>3 DEF PreviewStart
  <2>2. e \in Exts /\ Of(p, e) \subseteq Fetched
    BY <1>0 DEF Job, Of
  <2>3. S(job[p].links[e]) \subseteq Found
    BY <2>1
  <2> HIDE DEF S
  <2>4. [NoBatch EXCEPT !.ext = e, !.left = Of(p, e), !.seen = S(job[p].links[e])] \in Batch
    BY <2>2, <2>3 DEF NoBatch, Batch
  <2>5. batch' \in [Syncs -> Batch] /\ pc' \in [Syncs -> {"idle", "due", "fetch", "accounts", "preview"}]
    BY <1>0, <1>3, <2>4 DEF PreviewStart
  <2> QED BY <1>3, <2>5 DEF PreviewStart, TypeOK
<1>4. CASE Over(p)
  <2>1. /\ job' \in [Syncs -> Job] /\ batch' \in [Syncs -> Batch]
        /\ pc' \in [Syncs -> {"idle", "due", "fetch", "accounts", "preview"}]
    BY <1>0, <1>4, EmptyShapes DEF Over, FetchFails, Abort, Ended
  <2>2. aborts' \in 0 .. MaxAborts
    BY <1>0, <1>4, BankConstants DEF Over, FetchFails, Abort
  <2> QED BY <1>4, <2>1, <2>2 DEF Over, FetchFails, Abort, Ended, TypeOK
<1> QED BY <1>1, <1>2, <1>3, <1>4

\* An entry of the plan of a linked account.
LEMMA EntryIsPlanned ==
  ASSUME TypeOK, NEW p \in Syncs, NEW f \in Fetched, Acct(p) \in Accounts, NEW n \in BOOLEAN
  PROVE  Entry(p, f, n) \in Planned
<1>1. StatusOf(f.state) \in Statuses
  BY StatusesAreOwed
<1> QED BY <1>1 DEF Entry, Planned, Fetched

\* What the preview of one row may do to the batch.
LEMMA MatchIsOne ==
  ASSUME TypeOK, NEW p \in Syncs, NEW f \in batch[p].left, Match(p, f)
  PROVE  \/ \E x \in SeenAs(p, f) :
              \/ ~Settles(p, f, x) /\ batch' = [batch EXCEPT ![p] = [batch[p] EXCEPT !.left = @ \ {f}]]
              \/ /\ Settles(p, f, x)
                 /\ batch' = [batch EXCEPT ![p] =
                      [batch[p] EXCEPT !.left = @ \ {f}, !.plan = Plan(p, f, x.id, FALSE)]]
         \/ /\ SeenAs(p, f) = {}
            /\ \E i \in Candidates(p, f) :
                 batch' = [batch EXCEPT ![p] = [batch[p] EXCEPT !.left = @ \ {f}, !.plan = Plan(p, f, i, FALSE)]]
         \/ /\ SeenAs(p, f) = {}
            /\ \E i \in FreshIds :
                 batch' = [batch EXCEPT ![p] = [batch[p] EXCEPT !.left = @ \ {f}, !.plan = Plan(p, f, i, TRUE)]]
<1>1. CASE SeenAs(p, f) # {}
  <2> PICK x \in SeenAs(p, f) :
         batch' = [batch EXCEPT ![p] =
           [batch[p] EXCEPT !.left = @ \ {f}, !.plan = IF Settles(p, f, x) THEN Plan(p, f, x.id, FALSE) ELSE @]]
    BY <1>1 DEF Match
  <2>1. CASE Settles(p, f, x)
    BY <2>1
  <2>2. CASE ~Settles(p, f, x)
    <3>1. batch[p] \in Batch
      BY DEF TypeOK
    <3>2. [batch[p] EXCEPT !.left = @ \ {f}, !.plan = @] = [batch[p] EXCEPT !.left = @ \ {f}]
      BY <3>1 DEF Batch
    <3>3. batch' = [batch EXCEPT ![p] = [batch[p] EXCEPT !.left = @ \ {f}, !.plan = @]]
      BY <2>2
    <3> DEFINE b == [batch[p] EXCEPT !.left = @ \ {f}]
    <3>4. batch' = [batch EXCEPT ![p] = b]
      <4> DEFINE c == [batch[p] EXCEPT !.left = @ \ {f}, !.plan = @]
      <4>1. batch' = [batch EXCEPT ![p] = c]
        BY <3>3
      <4>2. c = b
        BY <3>2
      <4> HIDE DEF b, c
      <4> QED BY <4>1, <4>2
    <3> QED BY <2>2, <3>4
  <2> QED BY <2>1, <2>2
<1>2. CASE SeenAs(p, f) = {}
  <2> PICK i \in Ids, n \in BOOLEAN :
         /\ IF Cardinality(Candidates(p, f)) = 1
            THEN i \in Candidates(p, f) /\ ~n
            ELSE FreshIds # {} /\ i = Fresh /\ n
         /\ batch' = [batch EXCEPT ![p] = [batch[p] EXCEPT !.left = @ \ {f}, !.plan = Plan(p, f, i, n)]]
    BY <1>2 DEF Match
  <2>1. FreshIds # {} => Fresh \in FreshIds
    BY DEF Fresh
  <2> QED BY <1>2, <2>1
<1> QED BY <1>1, <1>2

LEMMA TypesPreviewRow ==
  ASSUME TypeOK, NEW p \in Syncs, PreviewRow(p), Acct(p) \in Accounts
  PROVE  TypeOK'
<1>0. batch \in [Syncs -> Batch] /\ batch[p] \in Batch
  BY DEF TypeOK
<1> PICK f \in batch[p].left : Match(p, f)
  BY DEF PreviewRow
<1>1. f \in Fetched /\ batch[p].left \ {f} \subseteq Fetched
  BY <1>0 DEF Batch
<1>2. \A i \in Ids : \A n \in BOOLEAN : Plan(p, f, i, n) \in [Ids -> Planned \cup {Free}]
  BY <1>0, <1>1, EntryIsPlanned DEF Plan, Batch
<1>3. \A x \in SeenAs(p, f) : x.id \in Ids
  BY <1>0 DEF SeenAs, Batch, Found
<1>4. \A i \in Candidates(p, f) \cup FreshIds : i \in Ids
  BY DEF Candidates, FreshIds, Live
<1>5. \A i \in Ids : \A n \in BOOLEAN :
        /\ [batch[p] EXCEPT !.left = @ \ {f}] \in Batch
        /\ [batch[p] EXCEPT !.left = @ \ {f}, !.plan = Plan(p, f, i, n)] \in Batch
  BY <1>0, <1>1, <1>2 DEF Batch
<1>6. batch' \in [Syncs -> Batch]
  <2>1. PICK b \in Batch : batch' = [batch EXCEPT ![p] = b]
    <3>1. \/ batch' = [batch EXCEPT ![p] = [batch[p] EXCEPT !.left = @ \ {f}]]
          \/ \E i \in Ids : \E n \in BOOLEAN :
               batch' = [batch EXCEPT ![p] = [batch[p] EXCEPT !.left = @ \ {f}, !.plan = Plan(p, f, i, n)]]
      BY <1>3, <1>4, MatchIsOne
    <3>2. CASE batch' = [batch EXCEPT ![p] = [batch[p] EXCEPT !.left = @ \ {f}]]
      <4> DEFINE b == [batch[p] EXCEPT !.left = @ \ {f}]
      <4>1. b \in Batch
        BY <1>0, <1>1 DEF Batch
      <4>2. batch' = [batch EXCEPT ![p] = b]
        BY <3>2
      <4> HIDE DEF b
      <4> QED BY <4>1, <4>2
    <3>3. ASSUME NEW i \in Ids, NEW n \in BOOLEAN,
                 batch' = [batch EXCEPT ![p] = [batch[p] EXCEPT !.left = @ \ {f}, !.plan = Plan(p, f, i, n)]]
          PROVE  \E b \in Batch : batch' = [batch EXCEPT ![p] = b]
      <4> DEFINE b == [batch[p] EXCEPT !.left = @ \ {f}, !.plan = Plan(p, f, i, n)]
      <4>1. b \in Batch
        BY <1>5
      <4>2. batch' = [batch EXCEPT ![p] = b]
        BY <3>3
      <4> HIDE DEF b
      <4> QED BY <4>1, <4>2
    <3> QED BY <3>1, <3>2, <3>3
  <2> QED BY <1>0, <2>1
<1> QED BY <1>6 DEF PreviewRow, TypeOK, bankVars, editVars, ghosts

LEMMA TypesCommit == ASSUME TypeOK, NEW p \in Syncs, Commit(p) PROVE TypeOK'
<1>0. /\ job \in [Syncs -> Job] /\ batch \in [Syncs -> Batch] /\ job[p] \in Job
      /\ rows \in [Ids -> Row \cup {Free, Gone}]
      /\ pc \in [Syncs -> {"idle", "due", "fetch", "accounts", "preview"}]
  BY DEF TypeOK
<1>1. [job[p] EXCEPT !.todo = @ \ {batch[p].ext}] \in Job
  BY <1>0 DEF Job
<1>2. job' \in [Syncs -> Job]
  BY <1>0, <1>1 DEF Commit
<1>3. batch' \in [Syncs -> Batch] /\ pc' \in [Syncs -> {"idle", "due", "fetch", "accounts", "preview"}]
  BY <1>0, EmptyShapes DEF Commit
<1>4. rows' \in [Ids -> Row \cup {Free, Gone}]
  <2>1. ASSUME NEW i \in Claimed(p)
        PROVE  Written(i, batch[p].plan[i]) \in Row \cup {Free, Gone}
    <3>1. i \in Ids /\ batch[p].plan[i] \in Planned
      BY PlansAreOfIds
    <3>2. CASE batch[p].plan[i].new
      BY <3>1, <3>2 DEF Written, Planned, Row, Refs
    <3>3. CASE ~batch[p].plan[i].new /\ i \in Live
      <4>1. rows[i] \in Row
        BY LiveRows, <3>3
      <4> QED BY <3>1, <3>3, <4>1 DEF Written, Planned, Row, Refs
    <3>4. CASE ~batch[p].plan[i].new /\ i \notin Live
      BY <1>0, <3>1, <3>4 DEF Written
    <3> QED BY <3>2, <3>3, <3>4
  <2> QED BY <1>0, <2>1 DEF Commit
<1>5. excused' \subseteq Moves
  <2>1. \A i \in Overtaken(p) : batch[p].plan[i].ref \in Moves /\ (i \in Live => rows[i].ref \in Moves)
    BY PlansAreOfIds DEF Overtaken, Planned
  <2>2. excused \subseteq Moves
    BY DEF TypeOK
  <2> QED BY <2>1, <2>2 DEF Commit
<1> QED BY <1>2, <1>3, <1>4, <1>5 DEF Commit, TypeOK, bankVars, editVars

LEMMA TypesTouch ==
  ASSUME TypeOK, NEW p \in Syncs, Touch(p), job[p].at \in Ticks,
         p = "auto" => job[p].slot \in 0 .. Day(LastTick)
  PROVE  TypeOK'
<1>0. /\ job \in [Syncs -> Job] /\ conn \in [last : Ticks \cup {Never}, auto : BOOLEAN]
      /\ pc \in [Syncs -> {"idle", "due", "fetch", "accounts", "preview"}]
      /\ runs \in [0 .. Day(LastTick) -> 0 .. 2] /\ since \in Int /\ skipped \subseteq Exts /\ clock \in Ticks
  BY DEF TypeOK
<1>1. job' \in [Syncs -> Job] /\ pc' \in [Syncs -> {"idle", "due", "fetch", "accounts", "preview"}]
  BY <1>0, EmptyShapes DEF Touch
<1>2. conn' \in [last : Ticks \cup {Never}, auto : BOOLEAN] /\ skipped' \subseteq Exts
  BY <1>0 DEF Touch
<1>3. since' \in Int
  <2>1. Day(job[p].at) \in Int /\ Lookback \in Int
    BY DaysOfTicks, BankConstants
  <2> QED BY <1>0, <2>1 DEF Touch, From
<1>4. runs' \in [0 .. Day(LastTick) -> 0 .. 2]
  <2>1. CASE runs' = runs
    BY <1>0, <2>1
  <2>2. CASE p = "auto" /\ runs' = [runs EXCEPT ![job[p].slot] = IF @ < 2 THEN @ + 1 ELSE @]
    <3>1. runs[job[p].slot] \in 0 .. 2
      BY <1>0, <2>2
    <3>2. (IF runs[job[p].slot] < 2 THEN runs[job[p].slot] + 1 ELSE runs[job[p].slot]) \in 0 .. 2
      BY <3>1
    <3> QED BY <1>0, <2>2, <3>2
  <2> QED BY <2>1, <2>2 DEF Touch
<1> QED BY <1>1, <1>2, <1>3, <1>4 DEF Touch, TypeOK, bankVars, editVars

-----------------------------------------------------------------------------
(***************************************************************************)
(* What a step does to one row                                             *)
(***************************************************************************)

\* What a person's step may make of the row i.
Edited(i) ==
  \/ rows'[i] = rows[i]
  \/ i \in FreshIds /\ rows'[i] \in Row /\ rows'[i].ref \notin Moves
  \/ /\ i \in Live /\ rows'[i] = Gone /\ (rows[i].ref \in Moves => rows[i].ref \in excused')
     /\ merge # NoMerge => i = merge.drop
  \/ /\ i \in Live /\ rows'[i] \in Row /\ merge = NoMerge /\ merge' = NoMerge
     /\ rows'[i].acct = rows[i].acct /\ rows'[i].ref = rows[i].ref
     /\ rows[i].ref \in Moves => rows[i].ref \in excused'
  \/ /\ MergeRef /\ i \in Live /\ i = merge.keep /\ rows'[i] \in Row
     /\ rows'[i].acct = rows[i].acct /\ rows'[i].ref = merge.ref
     /\ rows'[i].status = rows[i].status
     /\ rows[i].ref \in Moves => rows[i].ref \in excused'

LEMMA EditOfARow ==
  ASSUME TypeOK, MergeIsOfTwo, EditStep
  PROVE  \A i \in Ids : Edited(i)
<1> TAKE i \in Ids
<1>0. /\ rows \in [Ids -> Row \cup {Free, Gone}] /\ merge \in Merge /\ clock \in Ticks
      /\ Day(clock) \in Nat /\ Drift \in Nat
  BY DaysOfTicks, BankConstants DEF TypeOK
<1>2. \A j \in Live : rows[j] \in Row
  BY LiveRows
<1>3. ASSUME NEW a \in Accounts, NEW m \in Moves, NEW ref \in {NoRef, MailRef}, AddRow(a, m, ref)
      PROVE  Edited(i)
  <2>1. PICK j \in FreshIds, d \in {Day(clock), Day(clock) + 1} :
          rows' = [rows EXCEPT ![j] = [acct |-> a, ref |-> ref, amount |-> amountOf[m],
                                       day |-> d, status |-> 0]]
    BY <1>3 DEF AddRow
  <2>2. d \in Days
    <3>1. d \in (Day(clock) - Drift) .. (Day(clock) + 1)
      BY <1>0, <2>1
    <3> QED BY <1>0, <3>1, DatesAreDays
  <2>3. [acct |-> a, ref |-> ref, amount |-> amountOf[m], day |-> d, status |-> 0] \in Row
    BY <2>2 DEF Row, Refs, Statuses
  <2>4. ref \notin Moves
    BY BankConstants
  <2>5. CASE i = j
    <3>1. rows'[i] = [acct |-> a, ref |-> ref, amount |-> amountOf[m], day |-> d, status |-> 0]
      BY <1>0, <2>1, <2>5
    <3> QED BY <2>3, <2>4, <2>5, <3>1 DEF Edited
  <2>6. CASE i # j
    BY <1>0, <2>1, <2>6 DEF Edited
  <2> QED BY <2>5, <2>6
<1>4. ASSUME NEW j \in Ids, DeleteRow(j)
      PROVE  Edited(i)
  BY <1>0, <1>4 DEF DeleteRow, Edit, Edited, MovesOf
<1>5. ASSUME NEW j \in Ids, NEW s \in Statuses, SetStatus(j, s)
      PROVE  Edited(i)
  <2>1. rows[j] \in Row /\ rows' = [rows EXCEPT ![j].status = s] /\ j \in Live
        /\ merge = NoMerge /\ merge' = NoMerge
    BY <1>2, <1>5 DEF SetStatus, Edit
  <2>2. [rows[j] EXCEPT !.status = s] \in Row
    BY <2>1 DEF Row
  <2>3. CASE i = j
    <3>1. /\ rows'[i] = [rows[j] EXCEPT !.status = s]
      BY <1>0, <2>1, <2>3
    <3>2. rows'[i].acct = rows[i].acct /\ rows'[i].ref = rows[i].ref
      BY <2>1, <2>3, <3>1 DEF Row
    <3>3. rows[i].ref \in Moves => rows[i].ref \in excused'
      BY <1>5, <2>3 DEF SetStatus, MovesOf
    <3> QED BY <2>1, <2>2, <2>3, <3>1, <3>2, <3>3 DEF Edited
  <2>4. CASE i # j
    BY <1>0, <2>1, <2>4 DEF Edited
  <2> QED BY <2>3, <2>4
<1>6. CASE MergeRef
  <2>1. CASE i = merge.keep /\ i \in Live
    <3>1. rows[i] \in Row /\ merge.ref \in Refs
      BY <1>0, <1>2, <2>1 DEF Merge
    <3>2. rows'[i] = [rows[i] EXCEPT !.ref = merge.ref]
      BY <1>0, <1>6, <2>1 DEF MergeRef
    <3>3. rows'[i] \in Row /\ rows'[i].acct = rows[i].acct /\ rows'[i].ref = merge.ref
          /\ rows'[i].status = rows[i].status
      BY <3>1, <3>2 DEF Row
    <3>4. rows[i].ref \in Moves => rows[i].ref \in excused'
      BY <1>6, <2>1 DEF MergeRef, MovesOf
    <3> QED BY <1>6, <2>1, <3>3, <3>4 DEF Edited
  <2>2. CASE ~(i = merge.keep /\ i \in Live)
    BY <1>0, <1>6, <2>2 DEF MergeRef, Edited
  <2> QED BY <2>1, <2>2
<1>7. CASE MergeDelete
  <2>1. merge.drop \in Live /\ merge # NoMerge
    BY <1>7 DEF MergeDelete, MergeIsOfTwo, NoMerge
  <2> QED BY <1>0, <1>7, <2>1 DEF MergeDelete, Edited, MovesOf
<1>8. CASE rows' = rows
  BY <1>8 DEF Edited
<1> QED BY <1>3, <1>4, <1>5, <1>6, <1>7, <1>8 DEF EditStep, MergeRead, Merging, MergeAbort

\* A person's step takes no exception back.
LEMMA EditsExcept == ASSUME EditStep PROVE excused \subseteq excused' /\ cut \subseteq cut'
BY DEF EditStep, AddRow, DeleteRow, SetStatus, MergeRead, Merging, MergeRef, MergeDelete, MergeAbort, ghosts

\* A deleted row stays deleted, a row is not made undone, and it keeps its account.
LEMMA RowsGoOn ==
  ASSUME TypeOK, MergeIsOfTwo, EditStep, NEW i \in Ids
  PROVE  /\ rows[i] = Gone => rows'[i] = Gone
         /\ rows[i] # Free => rows'[i] # Free
         /\ rows[i] = Free /\ i \notin FreshIds => rows'[i] = Free
         /\ rows[i] \in Row /\ rows'[i] \in Row => rows'[i].acct = rows[i].acct
<1>1. Edited(i) /\ (rows[i] \in Row \/ rows[i] \in {Free, Gone})
  BY EditOfARow DEF TypeOK
<1>2. \A r \in Row : r # Free /\ r # Gone
  BY BankConstants
<1>3. i \in FreshIds => rows[i] = Free
  BY DEF FreshIds
<1>4. i \in Live => rows[i] \in Row
  BY LiveRows
<1> QED BY <1>1, <1>2, <1>3, <1>4, BankConstants DEF Edited

\* What a commit makes of a row.
LEMMA CommitOfARow ==
  ASSUME TypeOK, NEW p \in Syncs, Commit(p), NEW i \in Ids,
         i \in Claimed(p) /\ batch[p].plan[i].new => rows[i] = Free
  PROVE  /\ rows[i] = Gone => rows'[i] = Gone
         /\ rows[i] # Free => rows'[i] # Free
         /\ i \notin Claimed(p) => rows'[i] = rows[i]
         /\ i \in Claimed(p) /\ (batch[p].plan[i].new \/ i \in Live) =>
              /\ rows'[i] \in Row
              /\ rows'[i].ref = batch[p].plan[i].ref /\ rows'[i].status = batch[p].plan[i].status
              /\ rows'[i].acct = IF i \in Live THEN rows[i].acct ELSE batch[p].plan[i].acct
         /\ i \in Claimed(p) /\ ~batch[p].plan[i].new /\ i \notin Live => rows'[i] = rows[i]
<1>0. /\ rows \in [Ids -> Row \cup {Free, Gone}] /\ Free # Gone /\ \A r \in Row : r # Free /\ r # Gone
  BY BankConstants DEF TypeOK
<1>1. CASE i \notin Claimed(p)
  BY <1>1 DEF Commit
<1>2. CASE i \in Claimed(p)
  <2> DEFINE w == batch[p].plan[i]
  <2>1. w \in Planned /\ rows'[i] = Written(i, w)
    BY <1>2, PlansAreOfIds DEF Commit
  <2> HIDE DEF w
  <2>2. CASE w.new
    <3>1. rows'[i] = [acct |-> w.acct, ref |-> w.ref, amount |-> w.amount, day |-> w.day, status |-> w.status]
      BY <2>1, <2>2 DEF Written
    <3>2. rows'[i] \in Row
      BY <2>1, <3>1 DEF Planned, Row, Refs
    <3>3. rows[i] = Free /\ i \notin Live
      BY <1>2, <2>2 DEF w, Live
    <3> QED BY <1>0, <1>2, <2>2, <3>1, <3>2, <3>3 DEF w
  <2>3. CASE ~w.new /\ i \in Live
    <3>1. rows'[i] = [rows[i] EXCEPT !.ref = w.ref, !.day = w.day, !.status = w.status] /\ rows[i] \in Row
      BY <2>1, <2>3, LiveRows DEF Written
    <3>2. /\ rows'[i] \in Row /\ rows'[i].ref = w.ref /\ rows'[i].status = w.status
          /\ rows'[i].acct = rows[i].acct
      BY <2>1, <3>1 DEF Planned, Row, Refs
    <3> QED BY <1>0, <1>2, <2>3, <3>1, <3>2 DEF w
  <2>4. CASE ~w.new /\ i \notin Live
    <3>1. rows'[i] = rows[i]
      BY <2>1, <2>4 DEF Written
    <3> QED BY <1>2, <2>4, <3>1 DEF w
  <2> QED BY <2>2, <2>3, <2>4
<1> QED BY <1>1, <1>2

-----------------------------------------------------------------------------
(***************************************************************************)
(* What holds whether or not syncs overlap                                 *)
(***************************************************************************)

Base == Shapes /\ MergeIsOfTwo /\ IdsAreDrawnOnce /\ Slots

LEMMA LinkedAccount ==
  ASSUME TypeOK, NEW p \in Syncs, ShapeOf(p), pc[p] = "preview"
  PROVE  /\ batch[p].ext \in Exts /\ batch[p].ext \in job[p].todo
         /\ Acct(p) \in Accounts /\ Acct(p) = job[p].links[batch[p].ext]
<1>1. job[p] \in Job
  BY DEF TypeOK
<1>2. batch[p].ext \in job[p].todo /\ batch[p].ext \in Linked(p)
  BY DEF ShapeOf, Active
<1> QED BY <1>1, <1>2 DEF Job, Linked, Acct

LEMMA TypesStep == ASSUME Base, [Next]_vars PROVE TypeOK'
<1> USE DEF Base, Shapes
<1>1. ASSUME NEW p \in Syncs, PreviewRow(p) PROVE TypeOK'
  BY <1>1, LinkedAccount, TypesPreviewRow DEF PreviewRow
<1>2. ASSUME NEW p \in Syncs, Touch(p) PROVE TypeOK'
  <2>1. job[p].at \in Ticks
    BY <1>2 DEF Touch, ShapeOf, Active
  <2>2. p = "auto" => job[p].slot \in 0 .. Day(LastTick)
    BY <1>2 DEF Touch, Slots
  <2> QED BY <1>2, <2>1, <2>2, TypesTouch
<1>3. EditStep => TypeOK'
  BY TypesEdit
<1>4. Setting \/ Tick \/ Bank \/ SyncDue \/ UNCHANGED vars => TypeOK'
  BY TypesSetting
<1>5. \A p \in Syncs : Load(p) \/ Fetch(p) \/ PreviewStart(p) \/ Over(p) \/ Commit(p) => TypeOK'
  BY TypesRun, TypesCommit
<1> HIDE DEF Base, Shapes
<1> QED BY <1>1, <1>2, <1>3, <1>4, <1>5, Steps

LEMMA MergeStep == ASSUME Base, [Next]_vars PROVE MergeIsOfTwo'
<1>0. TypeOK /\ MergeIsOfTwo /\ TypeOK'
  BY TypesStep DEF Base, Shapes
<1>1. CASE UNCHANGED <<rows, merge>>
  BY <1>0, <1>1 DEF MergeIsOfTwo, Live
<1>2. ASSUME NEW p \in Syncs, Commit(p) PROVE MergeIsOfTwo'
  <2>1. merge' = merge
    BY <1>2, CommitKeeps
  <2>2. \A i \in Live : i \in Live' /\ rows'[i].acct = rows[i].acct
    <3> TAKE i \in Live
    <3>1. i \in Ids /\ rows[i] \in Row /\ (i \in Claimed(p) /\ batch[p].plan[i].new => rows[i] = Free)
      BY <1>0, LiveRows DEF Base, IdsAreDrawnOnce
    <3>2. rows'[i] \in Row /\ rows'[i].acct = rows[i].acct
      <4>1. CASE i \in Claimed(p)
        BY <1>0, <1>2, <3>1, <4>1, CommitOfARow, BankConstants DEF Live
      <4>2. CASE i \notin Claimed(p)
        <5>1. rows'[i] = rows[i]
          BY <1>0, <1>2, <3>1, <4>2, CommitOfARow
        <5> QED BY <3>1, <5>1
      <4> QED BY <4>1, <4>2
    <3> QED BY <3>1, <3>2, BankConstants DEF Live
  <2> QED BY <1>0, <2>1, <2>2 DEF MergeIsOfTwo
<1>3. CASE EditStep
  <2>1. CASE \E k, d \in Ids : MergeRead(k, d)
    <3> PICK k \in Ids, d \in Ids : MergeRead(k, d)
      BY <2>1
    <3>1. /\ rows' = rows /\ {k, d} \subseteq Live /\ k # d /\ rows[k].acct = rows[d].acct
          /\ merge' = [NoMerge EXCEPT !.keep = k, !.drop = d, !.ref = rows[d].ref,
               !.at = IF rows[k].ref = NoRef /\ rows[d].ref # NoRef THEN "ref" ELSE "delete"]
      BY DEF MergeRead
    <3>2. merge'.keep = k /\ merge'.drop = d /\ merge'.ref = rows[d].ref /\ ~merge'.copied
          /\ merge'.at = (IF rows[k].ref = NoRef /\ rows[d].ref # NoRef THEN "ref" ELSE "delete")
      BY <3>1 DEF NoMerge
    <3> QED BY <3>1, <3>2 DEF MergeIsOfTwo, Live
  <2>2. CASE MergeRef
    <3>1. /\ merge.keep \in Live /\ merge.drop \in Live /\ merge.keep # merge.drop
          /\ rows[merge.keep].acct = rows[merge.drop].acct /\ merge.ref # NoRef
      BY <1>0, <2>2 DEF MergeRef, MergeIsOfTwo, NoMerge
    <3>2. /\ merge'.keep = merge.keep /\ merge'.drop = merge.drop /\ merge'.ref = merge.ref
          /\ merge'.at = "delete"
      BY <1>0, <2>2 DEF MergeRef, TypeOK, Merge
    <3>3. /\ rows'[merge.keep] \in Row /\ rows'[merge.keep].acct = rows[merge.keep].acct
          /\ rows'[merge.drop] = rows[merge.drop]
      <4>1. rows[merge.keep] \in Row /\ rows \in [Ids -> Row \cup {Free, Gone}] /\ merge.ref \in Refs
        BY <1>0, <3>1, LiveRows DEF TypeOK, Merge
      <4>2. rows' = [rows EXCEPT ![merge.keep].ref = merge.ref] /\ merge.keep \in Ids /\ merge.drop \in Ids
        BY <2>2, <3>1 DEF MergeRef, Live
      <4> QED BY <3>1, <4>1, <4>2 DEF Row
    <3>4. merge.keep \in Live' /\ merge.drop \in Live'
      BY <3>1, <3>3, BankConstants DEF Live
    <3> QED BY <3>1, <3>2, <3>3, <3>4 DEF MergeIsOfTwo
  <2>3. CASE merge' = NoMerge
    BY <2>3 DEF MergeIsOfTwo
  <2>5. \/ \E k, d \in Ids : MergeRead(k, d)
        \/ MergeRef \/ merge' = NoMerge
    BY <1>3 DEF EditStep, AddRow, DeleteRow, SetStatus, Merging, MergeDelete, MergeAbort, Edit
  <2> QED BY <2>1, <2>2, <2>3, <2>5
<1>4. (\A p \in Syncs : ~Commit(p)) /\ ~EditStep => UNCHANGED <<rows, merge>>
  BY Steps, OthersKeep
<1> QED BY <1>1, <1>2, <1>3, <1>4

LEMMA SlotsStep == ASSUME Base, [Next]_vars PROVE Slots'
<1> DEFINE Slot == 0 .. Day(LastTick)
<1>0. /\ Slots /\ conn.last <= clock /\ clock \in Ticks /\ clock' \in Ticks
      /\ runs \in [Slot -> 0 .. 2] /\ conn.last \in Int /\ clock \in Nat
      /\ job \in [Syncs -> Job]
      /\ pc \in [Syncs -> {"idle", "due", "fetch", "accounts", "preview"}]
  <2>1. Base /\ TypeOK /\ TypeOK'
    BY TypesStep DEF Base, Shapes
  <2>2. conn.last \in Int /\ clock \in Nat
    BY <2>1, BankConstants DEF TypeOK, Ticks, Never
  <2> QED BY <2>1, <2>2 DEF Base, Shapes, TypeOK
<1>1. CASE UNCHANGED <<runs, conn, clock, job, pc>>
  BY <1>0, <1>1 DEF Slots
<1>2. CASE EditStep \/ Bank \/ UNCHANGED vars
  BY <1>1, <1>2, EditsKeep DEF Bank, Appear, Book, vars, syncVars, ghosts, bankVars
<1>3. CASE Setting
  <2>1. UNCHANGED <<runs, clock, job, pc>> /\ conn'.last = conn.last
    <3>1. conn \in [last : Ticks \cup {Never}, auto : BOOLEAN]
      BY DEF Base, Shapes, TypeOK
    <3> QED BY <1>3, <3>1 DEF Setting, Link, SetAutoSync, bankVars, syncVars, ghosts
  <2> QED BY <1>0, <2>1 DEF Slots
<1>4. CASE Tick
  <2>1. UNCHANGED <<runs, conn, job, pc>> /\ clock' = clock + 1
    BY <1>4 DEF Tick, syncVars, ghosts
  <2>2. \A s \in Slot : s \in Int
    BY DaysOfTicks, BankConstants DEF Ticks
  <2> QED BY <1>0, <2>1, <2>2 DEF Slots
<1>5. CASE SyncDue
  <2>1. UNCHANGED <<runs, conn, clock>> /\ pc["auto"] = "idle" /\ clock % 2 = 1 /\ conn.last < clock
    BY <1>5 DEF SyncDue, scheduleDue, bankVars, ghosts
  <2>2. job'["auto"].slot = Day(clock)
    BY <1>0, <1>5 DEF SyncDue, Syncs, Job
  <2>3. Day(clock) \in Slot /\ clock = 2 * Day(clock) + 1
    BY <1>0, <2>1, DaysOfTicks
  <2>4. runs[Day(clock)] = 0
    <3>1. ~(runs[Day(clock)] > 0)
      BY <1>0, <2>1, <2>3 DEF Slots
    <3> QED BY <1>0, <2>3, <3>1
  <2> QED BY <1>0, <2>1, <2>2, <2>3, <2>4 DEF Slots
<1>6. "auto" \in Syncs /\ job["auto"] \in Job
  BY <1>0 DEF Syncs
<1>7. ASSUME NEW p \in Syncs, Load(p) \/ Fetch(p) \/ PreviewStart(p) \/ PreviewRow(p) \/ Commit(p)
      PROVE  Slots'
  <2>1. UNCHANGED <<runs, conn, clock>>
    BY <1>7 DEF Load, Fetch, PreviewStart, PreviewRow, Commit, bankVars, ghosts
  <2>2. pc'["auto"] # "idle" => pc["auto"] # "idle"
    <3>1. CASE p = "auto"
      BY <1>7, <3>1 DEF Load, Fetch, PreviewStart, PreviewRow, Commit
    <3>2. CASE p # "auto"
      <4>1. pc' = pc \/ \E v : pc' = [pc EXCEPT ![p] = v]
        BY <1>7 DEF Load, Fetch, PreviewStart, PreviewRow, Commit
      <4> QED BY <1>0, <1>6, <3>2, <4>1
    <3> QED BY <3>1, <3>2
  <2>3. job'["auto"].slot = job["auto"].slot
    <3>1. CASE p # "auto"
      <4>1. job' = job \/ \E v : job' = [job EXCEPT ![p] = v]
        BY <1>7 DEF Load, Fetch, PreviewStart, PreviewRow, Commit
      <4> QED BY <1>0, <1>6, <3>1, <4>1
    <3>2. CASE p = "auto" /\ Load(p)
      <4>1. job'["auto"] = [job["auto"] EXCEPT !.at = clock, !.last = conn.last, !.links = links]
        BY <1>0, <1>6, <3>2 DEF Load
      <4> QED BY <1>6, <4>1 DEF Job
    <3>3. CASE p = "auto" /\ Fetch(p)
      <4> PICK ok \in SUBSET Linked(p) :
            job' = [job EXCEPT ![p] =
              [@ EXCEPT !.answered = ok, !.got = UNION {Answer(p, e) : e \in ok},
                        !.todo = {e \in ok : Answer(p, e) # {}}]]
        BY <3>3 DEF Fetch
      <4> DEFINE got == UNION {Answer(p, e) : e \in ok}
                 todo == {e \in ok : Answer(p, e) # {}}
      <4>1. job'["auto"] = [job["auto"] EXCEPT !.answered = ok, !.got = got, !.todo = todo]
        BY <1>0, <1>6, <3>3
      <4> HIDE DEF got, todo
      <4> QED BY <1>6, <4>1 DEF Job
    <3>4. CASE p = "auto" /\ (PreviewStart(p) \/ PreviewRow(p) \/ Commit(p))
      <4>1. job' = job \/ job'["auto"] = [job["auto"] EXCEPT !.todo = @ \ {batch[p].ext}]
        BY <1>0, <1>6, <3>4 DEF PreviewStart, PreviewRow, Commit
      <4> QED BY <1>6, <4>1 DEF Job
    <3> QED BY <1>7, <3>1, <3>2, <3>3, <3>4
  <2> QED BY <1>0, <2>1, <2>2, <2>3 DEF Slots
<1>8. ASSUME NEW p \in Syncs, Over(p) PROVE Slots'
  <2>1. UNCHANGED <<runs, conn, clock>> /\ pc' = [pc EXCEPT ![p] = "idle"] /\ job' = [job EXCEPT ![p] = NoJob]
    BY <1>8 DEF Over, FetchFails, Abort, Ended, bankVars, ghosts
  <2>2. (p = "auto" => pc'["auto"] = "idle") /\ (p # "auto" => UNCHANGED <<pc["auto"], job["auto"]>>)
    BY <1>0, <1>6, <2>1
  <2> QED BY <1>0, <2>1, <2>2 DEF Slots
<1>9. ASSUME NEW p \in Syncs, Touch(p) PROVE Slots'
  <2>1. clock' = clock /\ (p = "auto" => pc'["auto"] = "idle")
        /\ (p # "auto" => UNCHANGED <<pc["auto"], job["auto"], runs>>)
    BY <1>0, <1>9 DEF Touch, bankVars
  <2>2. UNCHANGED <<conn, runs>> \/ conn'.last = clock
    BY <1>9 DEF Touch, Base, Shapes, TypeOK
  <2>3. conn'.last \in Int /\ conn'.last >= conn.last
    BY <1>0, <2>2
  <2>4. runs' = runs \/ (p = "auto" /\ conn'.last = clock /\
          runs' = [runs EXCEPT ![job["auto"].slot] = IF @ < 2 THEN @ + 1 ELSE @])
    BY <1>9, <2>2 DEF Touch, Base, Shapes, TypeOK
  <2>5. CASE runs' = runs
    <3>1. \A s \in Slot : s \in Int
      BY DaysOfTicks, BankConstants DEF Ticks
    <3> QED BY <1>0, <2>1, <2>3, <2>5, <3>1 DEF Slots
  <2>6. CASE p = "auto" /\ runs' # runs
    <3> DEFINE s == job["auto"].slot
    <3>1. s \in Slot /\ clock >= 2 * s + 1 /\ runs[s] = 0
      BY <1>0, <1>9, <2>6 DEF Slots, Touch
    <3> HIDE DEF s
    <3>2. runs' = [runs EXCEPT ![s] = 1] /\ conn'.last = clock
      BY <1>0, <2>4, <2>6, <3>1 DEF s
    <3>3. \A d \in Slot : d \in Int /\ (runs'[d] > 0 => conn'.last >= 2 * d + 1) /\ runs'[d] <= 1
      BY <1>0, <2>3, <3>1, <3>2 DEF Slots
    <3> QED BY <2>1, <2>6, <3>3 DEF Slots
  <2> QED BY <2>4, <2>5, <2>6
<1> QED BY <1>2, <1>3, <1>4, <1>5, <1>7, <1>8, <1>9, Steps

-----------------------------------------------------------------------------
(***************************************************************************)
(* What a step does to one preview                                         *)
(***************************************************************************)

\* The row f of a preview is passed over: the register has it, and no less settled.
PassesOver(p, f) ==
  /\ \E x \in SeenAs(p, f) : ~Settles(p, f, x)
  /\ batch'[p].plan = batch[p].plan /\ Claimed(p)' = Claimed(p)

\* ... or planned: settled, merged into a row, or as a new row.
Plans(p, f, i, n) ==
  /\ batch'[p].plan = [batch[p].plan EXCEPT ![i] = Entry(p, f, n)]
  /\ Claimed(p)' = Claimed(p) \cup {i}
  /\ \/ ~n /\ \E x \in SeenAs(p, f) : Settles(p, f, x) /\ i = x.id
     \/ ~n /\ SeenAs(p, f) = {} /\ i \in Candidates(p, f)
     \/ n /\ SeenAs(p, f) = {} /\ i \in FreshIds

LEMMA PreviewOfARow ==
  ASSUME TypeOK, NEW p \in Syncs, ShapeOf(p), PreviewRow(p)
  PROVE  /\ \A q \in Syncs : q # p => batch'[q] = batch[q] /\ Claimed(q)' = Claimed(q)
         /\ batch'[p].ext = batch[p].ext /\ batch'[p].seen = batch[p].seen
         /\ \E f \in batch[p].left :
              /\ f \in Fetched /\ batch'[p].left = batch[p].left \ {f}
              /\ \/ PassesOver(p, f)
                 \/ \E i \in Ids : \E n \in BOOLEAN : Plans(p, f, i, n)
<1>0. batch \in [Syncs -> Batch] /\ batch[p] \in Batch
  BY DEF TypeOK
<1> PICK f \in batch[p].left : Match(p, f)
  BY DEF PreviewRow
<1>1. f \in Fetched /\ Acct(p) \in Accounts
  BY <1>0, LinkedAccount DEF Batch, PreviewRow
<1>2. CASE \E x \in SeenAs(p, f) : /\ ~Settles(p, f, x)
                                   /\ batch' = [batch EXCEPT ![p] = [batch[p] EXCEPT !.left = @ \ {f}]]
  <2>1. \A q \in Syncs : q # p => batch'[q] = batch[q]
    BY <1>0, <1>2
  <2>2. batch'[p] = [batch[p] EXCEPT !.left = @ \ {f}]
    BY <1>0, <1>2
  <2>3. /\ batch'[p].ext = batch[p].ext /\ batch'[p].seen = batch[p].seen
        /\ batch'[p].left = batch[p].left \ {f} /\ batch'[p].plan = batch[p].plan
    BY <1>0, <2>2 DEF Batch
  <2>4. Claimed(p)' = Claimed(p) /\ \A q \in Syncs : q # p => Claimed(q)' = Claimed(q)
    BY <2>1, <2>3 DEF Claimed
  <2> QED BY <1>1, <1>2, <2>1, <2>3, <2>4 DEF PassesOver
<1>3. ASSUME NEW i \in Ids, NEW n \in BOOLEAN,
             batch' = [batch EXCEPT ![p] = [batch[p] EXCEPT !.left = @ \ {f}, !.plan = Plan(p, f, i, n)]]
      PROVE  /\ \A q \in Syncs : q # p => batch'[q] = batch[q] /\ Claimed(q)' = Claimed(q)
             /\ batch'[p].ext = batch[p].ext /\ batch'[p].seen = batch[p].seen
             /\ batch'[p].left = batch[p].left \ {f}
             /\ batch'[p].plan = [batch[p].plan EXCEPT ![i] = Entry(p, f, n)]
             /\ Claimed(p)' = Claimed(p) \cup {i}
  <2>1. \A q \in Syncs : q # p => batch'[q] = batch[q]
    BY <1>0, <1>3
  <2>2. batch'[p] = [batch[p] EXCEPT !.left = @ \ {f}, !.plan = Plan(p, f, i, n)]
    BY <1>0, <1>3
  <2>3. /\ batch'[p].ext = batch[p].ext /\ batch'[p].seen = batch[p].seen
        /\ batch'[p].left = batch[p].left \ {f} /\ batch'[p].plan = Plan(p, f, i, n)
    BY <1>0, <2>2 DEF Batch
  <2>4. Entry(p, f, n) # Free
    BY <1>1, EntryIsPlanned, BankConstants
  <2>5. Claimed(p)' = Claimed(p) \cup {i}
    BY <1>0, <2>3, <2>4 DEF Claimed, Plan, Batch
  <2>6. \A q \in Syncs : q # p => Claimed(q)' = Claimed(q)
    BY <2>1 DEF Claimed
  <2> QED BY <2>1, <2>3, <2>5, <2>6 DEF Plan
<1>4. \A x \in SeenAs(p, f) : x.id \in Ids
  BY <1>0 DEF SeenAs, Batch, Found
<1>5. \A i \in Candidates(p, f) \cup FreshIds : i \in Ids
  BY DEF Candidates, FreshIds, Live
<1>6. CASE \E x \in SeenAs(p, f) : /\ Settles(p, f, x)
                                   /\ batch' = [batch EXCEPT ![p] =
                                        [batch[p] EXCEPT !.left = @ \ {f}, !.plan = Plan(p, f, x.id, FALSE)]]
  <2> PICK x \in SeenAs(p, f) : /\ Settles(p, f, x)
                                /\ batch' = [batch EXCEPT ![p] =
                                        [batch[p] EXCEPT !.left = @ \ {f}, !.plan = Plan(p, f, x.id, FALSE)]]
    BY <1>6
  <2> QED BY <1>1, <1>3, <1>4 DEF Plans
<1>7. CASE /\ SeenAs(p, f) = {}
           /\ \E i \in Candidates(p, f) :
                batch' = [batch EXCEPT ![p] = [batch[p] EXCEPT !.left = @ \ {f}, !.plan = Plan(p, f, i, FALSE)]]
  BY <1>1, <1>3, <1>5, <1>7 DEF Plans
<1>8. CASE /\ SeenAs(p, f) = {}
           /\ \E i \in FreshIds :
                batch' = [batch EXCEPT ![p] = [batch[p] EXCEPT !.left = @ \ {f}, !.plan = Plan(p, f, i, TRUE)]]
  BY <1>1, <1>3, <1>5, <1>8 DEF Plans
<1>9. \/ \E x \in SeenAs(p, f) :
              \/ ~Settles(p, f, x) /\ batch' = [batch EXCEPT ![p] = [batch[p] EXCEPT !.left = @ \ {f}]]
              \/ /\ Settles(p, f, x)
                 /\ batch' = [batch EXCEPT ![p] =
                      [batch[p] EXCEPT !.left = @ \ {f}, !.plan = Plan(p, f, x.id, FALSE)]]
      \/ /\ SeenAs(p, f) = {}
         /\ \E i \in Candidates(p, f) :
              batch' = [batch EXCEPT ![p] = [batch[p] EXCEPT !.left = @ \ {f}, !.plan = Plan(p, f, i, FALSE)]]
      \/ /\ SeenAs(p, f) = {}
         /\ \E i \in FreshIds :
              batch' = [batch EXCEPT ![p] = [batch[p] EXCEPT !.left = @ \ {f}, !.plan = Plan(p, f, i, TRUE)]]
  BY MatchIsOne
<1> QED BY <1>2, <1>6, <1>7, <1>8, <1>9

\* The preview of an account begins with what is in its register.
LEMMA PreviewOfAnAccount ==
  ASSUME TypeOK, NEW p \in Syncs, PreviewStart(p)
  PROVE  /\ \A q \in Syncs : q # p => batch'[q] = batch[q] /\ Claimed(q)' = Claimed(q)
         /\ Claimed(p)' = {}
         /\ \E e \in job[p].todo :
              /\ batch'[p].ext = e /\ batch'[p].left = Of(p, e) /\ e \in Exts
              /\ \A x \in batch'[p].seen :
                   /\ x.id \in Live /\ rows[x.id].acct = job[p].links[e]
                   /\ x.ref = rows[x.id].ref /\ x.status = rows[x.id].status
              /\ \A x, y \in batch'[p].seen : x.id = y.id => x = y
              /\ \A i \in Live : rows[i].acct = job[p].links[e] /\ rows[i].ref # NoRef =>
                   \E x \in batch'[p].seen : x.ref = rows[i].ref
<1>0. batch \in [Syncs -> Batch] /\ NoBatch \in Batch /\ job[p] \in Job
  BY EmptyShapes DEF TypeOK
<1> DEFINE S(a) == {[ref |-> rows[i].ref, id |-> i, status |-> rows[i].status] :
                      i \in {j \in Live : rows[j].acct = a /\ rows[j].ref # NoRef}}
<1> PICK e \in job[p].todo :
      batch' = [batch EXCEPT ![p] =
        [NoBatch EXCEPT !.ext = e, !.left = Of(p, e), !.seen = S(job[p].links[e])]]
  BY DEF PreviewStart
<1>1. \A a : /\ \A x \in S(a) : /\ x.id \in Live /\ rows[x.id].acct = a
                                /\ x.ref = rows[x.id].ref /\ x.status = rows[x.id].status
             /\ \A x, y \in S(a) : x.id = y.id => x = y
             /\ \A i \in Live : rows[i].acct = a /\ rows[i].ref # NoRef =>
                  \E x \in S(a) : x.ref = rows[i].ref
  <2> TAKE a
  <2>1. \A i \in Live : rows[i].acct = a /\ rows[i].ref # NoRef =>
                  \E x \in S(a) : x.ref = rows[i].ref
    <3> TAKE i \in Live
    <3> HAVE rows[i].acct = a /\ rows[i].ref # NoRef
    <3>1. [ref |-> rows[i].ref, id |-> i, status |-> rows[i].status] \in S(a)
      OBVIOUS
    <3> HIDE DEF S
    <3> QED BY <3>1
  <2> QED BY <2>1
<1> DEFINE s == S(job[p].links[e])
<1>2. /\ \A x \in s : /\ x.id \in Live /\ rows[x.id].acct = job[p].links[e]
                      /\ x.ref = rows[x.id].ref /\ x.status = rows[x.id].status
      /\ \A x, y \in s : x.id = y.id => x = y
      /\ \A i \in Live : rows[i].acct = job[p].links[e] /\ rows[i].ref # NoRef =>
           \E x \in s : x.ref = rows[i].ref
  BY <1>1
<1>3. batch' = [batch EXCEPT ![p] = [NoBatch EXCEPT !.ext = e, !.left = Of(p, e), !.seen = s]]
  OBVIOUS
<1> HIDE DEF s, S
<1>4. /\ batch'[p].ext = e /\ batch'[p].left = Of(p, e) /\ batch'[p].seen = s
      /\ batch'[p].plan = [i \in Ids |-> Free]
      /\ \A q \in Syncs : q # p => batch'[q] = batch[q]
  BY <1>0, <1>3 DEF NoBatch
<1>5. Claimed(p)' = {} /\ \A q \in Syncs : q # p => Claimed(q)' = Claimed(q)
  BY <1>4 DEF Claimed
<1>6. e \in Exts
  BY <1>0 DEF Job
<1> QED BY <1>2, <1>4, <1>5, <1>6

\* A commit, or an end of another kind, leaves no preview.
LEMMA NoPreview ==
  ASSUME TypeOK, NEW p \in Syncs, Commit(p) \/ Over(p)
  PROVE  /\ batch'[p] = NoBatch /\ Claimed(p)' = {} /\ batch'[p].seen = {}
         /\ \A q \in Syncs : q # p => batch'[q] = batch[q] /\ Claimed(q)' = Claimed(q)
<1>1. batch \in [Syncs -> Batch] /\ batch' = [batch EXCEPT ![p] = NoBatch]
  BY DEF TypeOK, Commit, Over, FetchFails, Abort, Ended
<1>2. batch'[p] = NoBatch /\ \A q \in Syncs : q # p => batch'[q] = batch[q]
  BY <1>1
<1> QED BY <1>2 DEF Claimed, NoBatch

\* The other steps leave the previews alone.
LEMMA OthersLeavePreviews ==
  ASSUME \/ EditStep \/ Setting \/ Tick \/ Bank \/ SyncDue \/ UNCHANGED vars
         \/ \E p \in Syncs : Load(p) \/ Fetch(p) \/ Touch(p)
  PROVE  batch' = batch /\ \A q \in Syncs : Claimed(q)' = Claimed(q)
<1>1. batch' = batch
  BY EditsKeep DEF Setting, Link, SetAutoSync, Tick, Bank, Appear, Book, SyncDue, vars, Load, Fetch, Touch, syncVars
<1> QED BY <1>1 DEF Claimed

LEMMA IdsStep == ASSUME Base, [Next]_vars PROVE IdsAreDrawnOnce'
<1>0. TypeOK /\ MergeIsOfTwo /\ TypeOK' /\ IdsAreDrawnOnce /\ (\A p \in Syncs : ShapeOf(p))
      /\ batch \in [Syncs -> Batch]
  BY TypesStep DEF Base, Shapes, TypeOK
<1>1. \A p \in Syncs : /\ \A i \in Claimed(p) : i \in Ids
                       /\ \A x \in batch[p].seen : x.id \in Ids
  BY <1>0 DEF Claimed, Batch, Found
<1>2. CASE EditStep
  <2>1. \A p \in Syncs : Claimed(p)' = Claimed(p) /\ batch'[p] = batch[p]
    BY <1>2, OthersLeavePreviews
  <2>2. \A p \in Syncs : \A i \in Claimed(p) : rows[i] = Free => rows'[i] = Free
    BY <1>0, <1>1, <1>2, RowsGoOn DEF FreshIds
  <2>3. \A p \in Syncs : \A x \in batch[p].seen : rows'[x.id] # Free
    BY <1>0, <1>1, <1>2, RowsGoOn DEF IdsAreDrawnOnce
  <2> QED BY <1>0, <2>1, <2>2, <2>3 DEF IdsAreDrawnOnce
<1>3. CASE \/ Setting \/ Tick \/ Bank \/ SyncDue \/ UNCHANGED vars
           \/ \E p \in Syncs : Load(p) \/ Fetch(p) \/ Touch(p)
  <2>1. \A p \in Syncs : Claimed(p)' = Claimed(p) /\ batch'[p] = batch[p]
    BY <1>3, OthersLeavePreviews
  <2>2. rows' = rows
    BY <1>3, OthersKeep
  <2> QED BY <1>0, <2>1, <2>2 DEF IdsAreDrawnOnce
<1>4. ASSUME NEW p \in Syncs, Commit(p) \/ Over(p) PROVE IdsAreDrawnOnce'
  <2>1. /\ Claimed(p)' = {} /\ batch'[p].seen = {}
        /\ \A q \in Syncs : q # p => batch'[q] = batch[q] /\ Claimed(q)' = Claimed(q)
    BY <1>0, <1>4, NoPreview
  <2>2. \A q \in Syncs : \A i \in Claimed(q) : q # p /\ batch[q].plan[i].new => rows'[i] = Free
    <3>1. CASE Commit(p)
      <4> TAKE q \in Syncs
      <4> TAKE i \in Claimed(q)
      <4> HAVE q # p /\ batch[q].plan[i].new
      <4>1. i \in Ids /\ rows[i] = Free /\ i \notin Claimed(p)
        BY <1>0, <1>1 DEF IdsAreDrawnOnce
      <4> QED BY <1>0, <3>1, <4>1, CommitOfARow
    <3>2. CASE Over(p)
      BY <1>0, <3>2, OthersKeep DEF IdsAreDrawnOnce
    <3> QED BY <1>4, <3>1, <3>2
  <2>3. \A q \in Syncs : \A x \in batch[q].seen : rows'[x.id] # Free
    <3>1. CASE Commit(p)
      BY <1>0, <1>1, <3>1, CommitOfARow DEF IdsAreDrawnOnce
    <3>2. CASE Over(p)
      BY <1>0, <3>2, OthersKeep DEF IdsAreDrawnOnce
    <3> QED BY <1>4, <3>1, <3>2
  <2>4. ASSUME NEW q \in Syncs
        PROVE  /\ \A i \in Claimed(q)' : batch'[q].plan[i].new =>
                    rows'[i] = Free /\ \A r \in Syncs : i \in Claimed(r)' => r = q
               /\ \A x \in batch'[q].seen : rows'[x.id] # Free
    <3>1. CASE q = p
      BY <2>1, <3>1
    <3>2. CASE q # p
      BY <1>0, <2>1, <2>2, <2>3, <3>2 DEF IdsAreDrawnOnce
    <3> QED BY <3>1, <3>2
  <2> QED BY <2>4 DEF IdsAreDrawnOnce
<1>5. ASSUME NEW p \in Syncs, PreviewStart(p) PROVE IdsAreDrawnOnce'
  <2>1. /\ Claimed(p)' = {} /\ \A x \in batch'[p].seen : x.id \in Live
        /\ \A q \in Syncs : q # p => batch'[q] = batch[q] /\ Claimed(q)' = Claimed(q)
    BY <1>0, <1>5, PreviewOfAnAccount
  <2>2. rows' = rows
    BY <1>5, OthersKeep
  <2>3. \A i \in Live : rows[i] # Free
    BY DEF Live
  <2> QED BY <1>0, <2>1, <2>2, <2>3 DEF IdsAreDrawnOnce
<1>6. ASSUME NEW p \in Syncs, PreviewRow(p) PROVE IdsAreDrawnOnce'
  <2>1. /\ \A q \in Syncs : q # p => batch'[q] = batch[q] /\ Claimed(q)' = Claimed(q)
        /\ batch'[p].seen = batch[p].seen
    BY <1>0, <1>6, PreviewOfARow
  <2>2. rows' = rows
    BY <1>6, OthersKeep
  <2>3. \A q \in Syncs : \A x \in batch'[q].seen : rows'[x.id] # Free
    BY <1>0, <2>1, <2>2 DEF IdsAreDrawnOnce
  <2>4. PICK f \in batch[p].left : PassesOver(p, f) \/ \E i \in Ids : \E n \in BOOLEAN : Plans(p, f, i, n)
    BY <1>0, <1>6, PreviewOfARow
  <2>5. CASE PassesOver(p, f)
    BY <1>0, <2>1, <2>2, <2>3, <2>5 DEF IdsAreDrawnOnce, PassesOver
  <2>6. ASSUME NEW i \in Ids, NEW n \in BOOLEAN, Plans(p, f, i, n)
        PROVE  IdsAreDrawnOnce'
    <3>1. Claimed(p)' = Claimed(p) \cup {i} /\ batch'[p].plan[i].new = n
          /\ \A j \in Claimed(p) : j # i => batch'[p].plan[j] = batch[p].plan[j]
      BY <1>0, <2>6 DEF Plans, Entry, Batch, Claimed
    <3>2. n => rows[i] = Free /\ \A q \in Syncs : i \notin Claimed(q)
      BY <2>6 DEF Plans, FreshIds
    <3>3. ~n => rows[i] # Free
      BY <1>0, <2>6 DEF Plans, SeenAs, Candidates, Live, IdsAreDrawnOnce
    <3>4. ASSUME NEW q \in Syncs, NEW j \in Claimed(q)', batch'[q].plan[j].new
          PROVE  rows'[j] = Free /\ \A r \in Syncs : j \in Claimed(r)' => r = q
      <4>1. CASE q = p /\ j = i
        BY <2>1, <2>2, <3>1, <3>2, <3>4, <4>1
      <4>2. CASE ~(q = p /\ j = i)
        <5>1. j \in Claimed(q) /\ batch[q].plan[j].new
          BY <2>1, <3>1, <3>4, <4>2
        <5>2. rows[j] = Free /\ \A r \in Syncs : j \in Claimed(r) => r = q
          BY <1>0, <5>1 DEF IdsAreDrawnOnce
        <5>3. j # i
          BY <3>2, <3>3, <4>2, <5>1, <5>2
        <5> QED BY <2>1, <2>2, <3>1, <5>2, <5>3
      <4> QED BY <4>1, <4>2
    <3> QED BY <2>3, <3>4 DEF IdsAreDrawnOnce
  <2> QED BY <2>4, <2>5, <2>6
<1> QED BY <1>2, <1>3, <1>4, <1>5, <1>6, Steps

-----------------------------------------------------------------------------
(***************************************************************************)
(* The shapes stand                                                        *)
(***************************************************************************)

\* The other sync is left as it is.
LEMMA OneMoves ==
  ASSUME TypeOK, NEW p \in Syncs, Sync(p)
  PROVE  /\ \A q \in Syncs : q # p => pc'[q] = pc[q] /\ job'[q] = job[q] /\ batch'[q] = batch[q]
         /\ clock' = clock /\ bank' = bank /\ links' = links /\ skipped \subseteq skipped'
<1>0. /\ job \in [Syncs -> Job] /\ batch \in [Syncs -> Batch]
      /\ pc \in [Syncs -> {"idle", "due", "fetch", "accounts", "preview"}]
  BY DEF TypeOK
<1>1. /\ pc' = pc \/ \E v : pc' = [pc EXCEPT ![p] = v]
      /\ job' = job \/ \E v : job' = [job EXCEPT ![p] = v]
      /\ clock' = clock /\ bank' = bank /\ links' = links /\ skipped \subseteq skipped'
  BY DEF Sync, Load, Fetch, PreviewStart, PreviewRow, Commit, Touch, FetchFails, Abort, Ended,
         bankVars, syncVars, editVars, ghosts
<1>2. batch' = batch \/ \E v : batch' = [batch EXCEPT ![p] = v]
  BY DEF Sync, Load, Fetch, PreviewStart, PreviewRow, Match, Commit, Touch, FetchFails, Abort, Ended
<1> QED BY <1>0, <1>1, <1>2

LEMMA ShapeKept ==
  ASSUME NEW q \in Syncs, ShapeOf(q), pc'[q] = pc[q], job'[q] = job[q], batch'[q] = batch[q],
         clock' = clock, links' = links, skipped \subseteq skipped'
  PROVE  ShapeOf(q)'
BY DEF ShapeOf, Active, Got, Linked, Of

LEMMA ShapesStep == ASSUME Base, [Next]_vars PROVE Shapes'
<1>0. /\ TypeOK /\ TypeOK' /\ (\A q \in Syncs : ShapeOf(q)) /\ conn.last <= clock
      /\ clock \in Nat /\ conn.last \in Int /\ clock \in Ticks /\ MaxLag \in Nat /\ clock' \in Ticks
      /\ job \in [Syncs -> Job] /\ batch \in [Syncs -> Batch]
      /\ pc \in [Syncs -> {"idle", "due", "fetch", "accounts", "preview"}]
      /\ conn \in [last : Ticks \cup {Never}, auto : BOOLEAN]
      /\ bank \in [Moves -> [state : {"none", "pending", "booked"}, day : Days]]
      /\ links \in [Exts -> Accounts \cup {NoAccount}]
  <2>1. TypeOK /\ TypeOK' /\ (\A q \in Syncs : ShapeOf(q)) /\ conn.last <= clock
    BY TypesStep DEF Base, Shapes
  <2>2. clock \in Nat /\ conn.last \in Int
    BY <2>1, BankConstants DEF TypeOK, Ticks, Never
  <2> QED BY <2>1, <2>2, BankConstants DEF TypeOK
<1>1. CASE EditStep \/ Bank \/ UNCHANGED vars
  <2>1. UNCHANGED <<clock, links, conn, pc, job, batch, skipped>>
    BY <1>1, EditsKeep DEF Bank, Appear, Book, vars, bankVars, syncVars, ghosts
  <2> QED BY <1>0, <2>1, ShapeKept DEF Shapes
<1>2. CASE Setting
  <2>1. UNCHANGED <<clock, pc, job, batch>> /\ conn'.last = conn.last
    BY <1>0, <1>2 DEF Setting, Link, SetAutoSync, bankVars, syncVars
  <2>2. \A e \in Exts : e \in skipped \/ links[e] = NoAccount => e \in skipped' \/ links'[e] = NoAccount
    BY <1>0, <1>2 DEF Setting, Link, SetAutoSync, ghosts
  <2>3. ASSUME NEW q \in Syncs PROVE ShapeOf(q)'
    <3>1. ShapeOf(q)
      BY <1>0
    <3> QED BY <2>1, <2>2, <3>1 DEF ShapeOf, Active, Got, Linked, Of
  <2> QED BY <1>0, <2>1, <2>3 DEF Shapes
<1>3. CASE Tick
  <2>1. UNCHANGED <<conn, pc, job, batch, links, skipped>> /\ clock' = clock + 1
    BY <1>3 DEF Tick, syncVars, ghosts
  <2>2. ASSUME NEW q \in Syncs PROVE ShapeOf(q)'
    <3>1. ShapeOf(q)
      BY <1>0
    <3>2. Active(q) => /\ job[q].at \in Ticks /\ job[q].at \in Int /\ job[q].at <= clock
                       /\ clock - job[q].at < MaxLag
      BY <1>3, <3>1 DEF Tick, ShapeOf, Ticks, Never
    <3>3. Active(q)' <=> Active(q)
      BY <2>1 DEF Active
    <3>4. Active(q)' => job'[q].at <= clock' /\ clock' - job'[q].at <= MaxLag
      BY <1>0, <2>1, <3>2, <3>3
    <3> QED BY <2>1, <3>1, <3>3, <3>4 DEF ShapeOf, Got, Linked, Of
  <2> QED BY <1>0, <2>1, <2>2 DEF Shapes
<1>4. CASE SyncDue
  <2>0. "auto" \in Syncs /\ job["auto"] \in Job /\ job["auto"] = NoJob /\ batch["auto"] = NoBatch
    BY <1>0, <1>4 DEF Syncs, ShapeOf, SyncDue
  <2>1. /\ UNCHANGED <<clock, conn, batch, links, skipped>> /\ pc'["auto"] = "due"
        /\ job'["auto"] = [NoJob EXCEPT !.slot = Day(clock)]
        /\ \A q \in Syncs : q # "auto" => pc'[q] = pc[q] /\ job'[q] = job[q]
    BY <1>0, <1>4, <2>0 DEF SyncDue, bankVars, ghosts
  <2>2. ShapeOf("auto")'
    <3>1. job'["auto"] = [NoJob EXCEPT !.slot = job'["auto"].slot]
      BY <2>1 DEF NoJob
    <3> QED BY <2>0, <2>1, <3>1 DEF ShapeOf, Active
  <2> QED BY <1>0, <2>1, <2>2, ShapeKept DEF Shapes
<1>5. ASSUME NEW p \in Syncs, Sync(p), ShapeOf(p)', conn' = conn \/ conn'.last = clock
      PROVE  Shapes'
  <2>1. \A q \in Syncs : q # p => ShapeOf(q)'
    BY <1>0, <1>5, OneMoves, ShapeKept
  <2>2. conn'.last <= clock'
    BY <1>0, <1>5, OneMoves
  <2> QED BY <1>0, <1>5, <2>1, <2>2 DEF Shapes
<1>6. ASSUME NEW p \in Syncs, Load(p) PROVE Shapes'
  <2>0. job[p] \in Job /\ ShapeOf(p)
    BY <1>0
  <2>1. job'[p] = [job[p] EXCEPT !.at = clock, !.last = conn.last, !.links = links]
    BY <1>0, <1>6 DEF Load
  <2>2. /\ pc'[p] = "fetch" /\ UNCHANGED <<clock, links, conn, batch, skipped>>
    BY <1>0, <1>6 DEF Load, bankVars, ghosts
  <2>3. \/ pc[p] = "idle" /\ job[p] = NoJob
        \/ pc[p] = "due"
    BY <1>6, <2>0 DEF Load, ShapeOf
  <2>4. batch'[p] = NoBatch
    BY <2>0, <2>2, <2>3 DEF ShapeOf
  <2>5. /\ job'[p].at = clock /\ job'[p].last = conn.last /\ job'[p].links = links
        /\ job'[p].todo = job[p].todo /\ job'[p].answered = job[p].answered /\ job'[p].got = job[p].got
    BY <2>0, <2>1 DEF Job
  <2>6. job[p].todo = {} /\ job[p].answered = {} /\ job[p].got = {}
    <3>1. CASE job[p] = NoJob
      BY <3>1 DEF NoJob
    <3>2. CASE job[p] = [NoJob EXCEPT !.slot = job[p].slot]
      BY <3>2 DEF NoJob
    <3> QED BY <2>0, <2>3, <3>1, <3>2 DEF ShapeOf
  <2>7. ShapeOf(p)'
    BY <1>0, <2>2, <2>4, <2>5, <2>6 DEF ShapeOf, Active, Got, Linked
  <2> QED BY <1>5, <1>6, <2>2, <2>7 DEF Sync
<1>7. ASSUME NEW p \in Syncs, Fetch(p) PROVE Shapes'
  <2>0. job[p] \in Job /\ ShapeOf(p)
    BY <1>0
  <2> PICK ok \in SUBSET Linked(p) :
        job' = [job EXCEPT ![p] =
            [@ EXCEPT !.answered = ok,
                      !.got  = UNION {Answer(p, e) : e \in ok},
                      !.todo = {e \in ok : Answer(p, e) # {}}]]
    BY <1>7 DEF Fetch
  <2> DEFINE got == UNION {Answer(p, e) : e \in ok}
             todo == {e \in ok : Answer(p, e) # {}}
  <2>1. todo \subseteq ok /\ ok \subseteq Exts
    BY DEF Linked
  <2>2. \A f, g \in got : extOf[f.move] \in ok /\ (g.move = f.move => g = f)
    BY <2>1 DEF Answer
  <2>3. job'[p] = [job[p] EXCEPT !.answered = ok, !.got = got, !.todo = todo]
    BY <1>0
  <2> HIDE DEF got, todo
  <2>4. /\ job'[p].at = job[p].at /\ job'[p].last = job[p].last /\ job'[p].links = job[p].links
        /\ job'[p].answered = ok /\ job'[p].got = got /\ job'[p].todo = todo
    <3>1. DOMAIN job[p] = {"slot", "at", "last", "links", "answered", "got", "todo"}
      BY <2>0 DEF Job
    <3> QED BY <2>3, <3>1, ZenonT(40)
  <2>5. pc[p] = "fetch" /\ pc'[p] = "accounts" /\ UNCHANGED <<clock, links, conn, batch, skipped>>
    BY <1>0, <1>7 DEF Fetch, bankVars, ghosts
  <2>6. ShapeOf(p)'
    BY <2>0, <2>1, <2>2, <2>4, <2>5 DEF ShapeOf, Active, Got, Linked
  <2> QED BY <1>5, <1>7, <2>5, <2>6 DEF Sync
<1>8. ASSUME NEW p \in Syncs, PreviewStart(p) PROVE Shapes'
  <2>1. pc[p] = "accounts" /\ pc'[p] = "preview" /\ UNCHANGED <<clock, links, conn, job, skipped>>
    BY <1>0, <1>8 DEF PreviewStart, bankVars, ghosts
  <2>2. /\ batch'[p].ext \in job[p].todo /\ batch'[p].left = Of(p, batch'[p].ext)
        /\ \A x, y \in batch'[p].seen : x.id = y.id => x = y
    BY <1>0, <1>8, PreviewOfAnAccount
  <2>3. ShapeOf(p)
    BY <1>0
  <2>4. ShapeOf(p)'
    BY <2>1, <2>2, <2>3 DEF ShapeOf, Active, Got, Linked, Of
  <2> QED BY <1>5, <1>8, <2>1, <2>4 DEF Sync
<1>9. ASSUME NEW p \in Syncs, PreviewRow(p) PROVE Shapes'
  <2>1. pc[p] = "preview" /\ UNCHANGED <<pc, clock, links, conn, job, skipped>>
    BY <1>9 DEF PreviewRow, bankVars, ghosts
  <2>2. /\ batch'[p].ext = batch[p].ext /\ batch'[p].left \subseteq batch[p].left
        /\ batch'[p].seen = batch[p].seen
    BY <1>0, <1>9, PreviewOfARow
  <2>3. ShapeOf(p)
    BY <1>0
  <2>4. ShapeOf(p)'
    BY <2>1, <2>2, <2>3 DEF ShapeOf, Active, Got, Linked, Of
  <2> QED BY <1>5, <1>9, <2>1, <2>4 DEF Sync
<1>10. ASSUME NEW p \in Syncs, Commit(p) PROVE Shapes'
  <2>0. job[p] \in Job /\ ShapeOf(p)
    BY <1>0
  <2>1. pc[p] = "preview" /\ pc'[p] = "accounts" /\ UNCHANGED <<clock, links, conn, skipped>>
        /\ batch'[p] = NoBatch /\ job'[p] = [job[p] EXCEPT !.todo = @ \ {batch[p].ext}]
    BY <1>0, <1>10 DEF Commit, bankVars
  <2>2. /\ job'[p].at = job[p].at /\ job'[p].last = job[p].last /\ job'[p].links = job[p].links
        /\ job'[p].answered = job[p].answered /\ job'[p].got = job[p].got /\ job'[p].todo \subseteq job[p].todo
    BY <2>0, <2>1 DEF Job
  <2>3. ShapeOf(p)'
    BY <2>0, <2>1, <2>2 DEF ShapeOf, Active, Got, Linked
  <2> QED BY <1>5, <1>10, <2>1, <2>3 DEF Sync
<1>11. ASSUME NEW p \in Syncs, Touch(p) PROVE Shapes'
  <2>1. pc'[p] = "idle" /\ job'[p] = NoJob /\ batch'[p] = NoBatch
    BY <1>0, <1>11 DEF Touch, ShapeOf
  <2>2. conn' = conn \/ conn'.last = clock
    BY <1>0, <1>11 DEF Touch
  <2>3. ShapeOf(p)'
    BY <2>1 DEF ShapeOf, Active
  <2> QED BY <1>5, <1>11, <2>2, <2>3 DEF Sync
<1>12. ASSUME NEW p \in Syncs, Over(p) PROVE Shapes'
  <2>1. pc'[p] = "idle" /\ job'[p] = NoJob /\ batch'[p] = NoBatch /\ conn' = conn
    BY <1>0, <1>12 DEF Over, FetchFails, Abort, Ended
  <2>2. ShapeOf(p)'
    BY <2>1 DEF ShapeOf, Active
  <2> QED BY <1>5, <1>12, <2>1, <2>2 DEF Sync, Over
<1> QED BY <1>1, <1>2, <1>3, <1>4, <1>6, <1>7, <1>8, <1>9, <1>10, <1>11, <1>12, Steps

LEMMA BaseStep == Base /\ [Next]_vars => Base'
BY ShapesStep, MergeStep, IdsStep, SlotsStep DEF Base

LEMMA BaseInit == Init => Base
<1> SUFFICES ASSUME Init PROVE Base
  OBVIOUS
<1>1. LastTick \in Nat /\ 0 \in Ticks /\ Day(LastTick) \in Nat /\ Drift \in Nat
      /\ 0 \in 0 .. MaxEdits /\ 0 \in 0 .. MaxAborts
  <2>1. LastTick \in Nat /\ Drift \in Nat /\ MaxEdits \in Nat /\ MaxAborts \in Nat
    BY BankConstants
  <2>2. LastTick \in Ticks /\ 0 \in Ticks
    BY <2>1 DEF Ticks
  <2> QED BY <2>1, <2>2, DaysOfTicks
<1>2. TypeOK
  <2>1. 0 \in Days /\ -Drift \in Int
    BY <1>1 DEF Days
  <2>2. /\ bank \in [Moves -> [state : {"none", "pending", "booked"}, day : Days]]
        /\ rows \in [Ids -> Row \cup {Free, Gone}]
        /\ links \in [Exts -> Accounts \cup {NoAccount}]
        /\ conn \in [last : Ticks \cup {Never}, auto : BOOLEAN]
        /\ runs \in [0 .. Day(LastTick) -> 0 .. 2] /\ since \in Int
        /\ skipped \subseteq Exts /\ excused \subseteq Moves /\ cut \subseteq Moves \cup {MailRef}
    BY <2>1 DEF Init
  <2>3. /\ pc \in [Syncs -> {"idle", "due", "fetch", "accounts", "preview"}]
        /\ job \in [Syncs -> Job] /\ batch \in [Syncs -> Batch] /\ merge \in Merge
    BY EmptyShapes DEF Init
  <2> QED BY <1>1, <2>2, <2>3 DEF Init, TypeOK
<1>3. Shapes
  BY <1>2 DEF Init, Shapes, ShapeOf, Active, Never
<1>4. MergeIsOfTwo /\ Slots
  BY DEF Init, MergeIsOfTwo, Slots, Syncs
<1>5. IdsAreDrawnOnce
  BY DEF Init, IdsAreDrawnOnce, Claimed, NoBatch
<1> QED BY <1>3, <1>4, <1>5 DEF Base

-----------------------------------------------------------------------------
(***************************************************************************)
(* One row of a movement, where syncs do not overlap                       *)
(***************************************************************************)

LEMMA OneAtATimeStep == ASSUME Serial, Base, OneAtATime, [Next]_vars PROVE OneAtATime'
<1>0. /\ TypeOK /\ conn \in [last : Ticks \cup {Never}, auto : BOOLEAN] /\ job \in [Syncs -> Job]
      /\ pc \in [Syncs -> {"idle", "due", "fetch", "accounts", "preview"}]
  BY DEF Base, Shapes, TypeOK
<1>1. CASE EditStep \/ Setting \/ Tick \/ Bank \/ UNCHANGED vars
  <2>1. UNCHANGED <<pc, job>> /\ conn'.last = conn.last
    BY <1>0, <1>1, EditsKeep DEF Setting, Link, SetAutoSync, Tick, Bank, Appear, Book, vars, syncVars
  <2> QED BY <2>1 DEF OneAtATime, Active
<1>2. CASE SyncDue
  <2>1. /\ conn' = conn /\ \A q \in Syncs : Active(q)' => Active(q) /\ job'[q] = job[q]
    BY <1>0, <1>2 DEF SyncDue, Active
  <2> QED BY <2>1 DEF OneAtATime
<1>3. ASSUME NEW p \in Syncs, Load(p) PROVE OneAtATime'
  <2>1. \A q \in Syncs : Active(q)' => q = p
    BY <1>0, <1>3 DEF Load, Active
  <2>2. job'[p] = [job[p] EXCEPT !.at = clock, !.last = conn.last, !.links = links] /\ conn' = conn
    BY <1>0, <1>3 DEF Load
  <2>3. job'[p].last = conn.last
    BY <1>0, <2>2 DEF Job
  <2> QED BY <2>1, <2>2, <2>3 DEF OneAtATime
<1>4. ASSUME NEW p \in Syncs, Fetch(p) \/ PreviewStart(p) \/ PreviewRow(p) \/ Commit(p)
      PROVE  OneAtATime'
  <2>1. conn' = conn /\ \A q \in Syncs : Active(q)' <=> Active(q)
    BY <1>0, <1>4 DEF Fetch, PreviewStart, PreviewRow, Commit, Active
  <2>2. \A q \in Syncs : job'[q].last = job[q].last
    <3>1. CASE Fetch(p)
      <4> PICK ok \in SUBSET Linked(p) :
            job' = [job EXCEPT ![p] =
              [@ EXCEPT !.answered = ok, !.got = UNION {Answer(p, e) : e \in ok},
                        !.todo = {e \in ok : Answer(p, e) # {}}]]
        BY <3>1 DEF Fetch
      <4> DEFINE got == UNION {Answer(p, e) : e \in ok}
                 todo == {e \in ok : Answer(p, e) # {}}
      <4>1. job' = [job EXCEPT ![p] = [@ EXCEPT !.answered = ok, !.got = got, !.todo = todo]]
        OBVIOUS
      <4> HIDE DEF got, todo
      <4> QED BY <1>0, <4>1 DEF Job
    <3>2. CASE PreviewStart(p) \/ PreviewRow(p)
      BY <3>2 DEF PreviewStart, PreviewRow
    <3>3. CASE Commit(p)
      BY <1>0, <3>3 DEF Commit, Job
    <3> QED BY <1>4, <3>1, <3>2, <3>3
  <2> QED BY <2>1, <2>2 DEF OneAtATime
<1>5. ASSUME NEW p \in Syncs, Touch(p) PROVE OneAtATime'
  <2>1. \A q \in Syncs : ~Active(q)'
    BY <1>0, <1>5 DEF Touch, Active, OneAtATime
  <2> QED BY <2>1 DEF OneAtATime
<1>6. ASSUME NEW p \in Syncs, Over(p) PROVE OneAtATime'
  <2>1. conn' = conn /\ \A q \in Syncs : Active(q)' => Active(q) /\ job'[q] = job[q]
    BY <1>0, <1>6 DEF Over, FetchFails, Abort, Ended, Active
  <2> QED BY <2>1 DEF OneAtATime
<1> QED BY <1>1, <1>2, <1>3, <1>4, <1>5, <1>6, Steps

LEMMA HoldersAreRows ==
  ASSUME TypeOK, NEW i \in Ids, NEW a, NEW m, Holds(i, a, m)
  PROVE  rows[i] \in Row /\ rows[i].acct = a /\ rows[i].ref = m /\ i \in Live
BY LiveRows DEF Holds

\* A person's step gives a movement a second row only as a merge does.
LEMMA EditGains ==
  ASSUME TypeOK, MergeIsOfTwo, EditStep,
         NEW j \in Ids, NEW a, NEW m \in Moves, Holds(j, a, m)', ~Holds(j, a, m)
  PROVE  /\ MergeRef /\ j = merge.keep /\ merge.ref = m /\ ~merge.copied
         /\ merge.drop \in Ids /\ merge.drop # j
         /\ m \in cut' \/ Holds(merge.drop, a, m)
         /\ merge'.copied /\ merge'.ref = m /\ merge'.keep = j /\ merge'.drop = merge.drop
<1>1. Edited(j) /\ j \in Live' /\ rows'[j].acct = a /\ rows'[j].ref = m
  BY EditOfARow DEF Holds
<1>2. rows'[j] # Gone
  BY <1>1 DEF Live
<1>3. rows'[j] # rows[j]
  <2>1. rows'[j] = rows[j] => Holds(j, a, m)
    BY <1>1 DEF Holds, Live
  <2> QED BY <2>1
<1>4. ~(j \in Live /\ rows'[j].acct = rows[j].acct /\ rows'[j].ref = rows[j].ref)
  BY <1>1 DEF Holds
<1>5. MergeRef /\ j = merge.keep /\ merge.ref = m /\ rows[j].acct = a
  BY <1>1, <1>2, <1>3, <1>4 DEF Edited
<1>6. /\ merge.drop \in Live /\ merge.drop # j /\ rows[merge.drop].acct = a /\ ~merge.copied
  BY <1>5 DEF MergeRef, MergeIsOfTwo, NoMerge
<1>7. m \in cut' \/ Holds(merge.drop, a, m)
  BY <1>5, <1>6 DEF MergeRef, Holds
<1>8. merge' = [merge EXCEPT !.at = "delete", !.copied = TRUE] /\ merge \in Merge
  BY <1>5 DEF MergeRef, TypeOK
<1>9. merge'.copied /\ merge'.ref = m /\ merge'.keep = j /\ merge'.drop = merge.drop
  BY <1>5, <1>8 DEF Merge
<1> QED BY <1>5, <1>6, <1>7, <1>9 DEF Live

LEMMA EditKeepsSole ==
  ASSUME TypeOK, MergeIsOfTwo, EditStep,
         NEW i \in Ids, NEW a, NEW m \in Moves, Sole(i, a, m), rows'[i] # Gone
  PROVE  Sole(i, a, m)'
<1> SUFFICES ASSUME NEW j \in Ids, Holds(j, a, m)', j # i
             PROVE  m \in cut' \/ Copied(i, j, m)'
  BY DEF Sole
<1>1. CASE ~Holds(j, a, m)
  <2>1. /\ MergeRef /\ j = merge.keep /\ merge.ref = m /\ ~merge.copied
        /\ merge.drop \in Ids /\ merge.drop # j
        /\ m \in cut' \/ Holds(merge.drop, a, m)
        /\ merge'.copied /\ merge'.ref = m /\ merge'.keep = j /\ merge'.drop = merge.drop
    BY <1>1, EditGains
  <2>2. CASE i = merge.drop
    BY <2>1, <2>2 DEF Copied
  <2>3. CASE i # merge.drop
    BY <2>1, <2>3, EditsExcept DEF Sole, Copied
  <2> QED BY <2>2, <2>3
<1>2. CASE Holds(j, a, m) /\ m \in cut
  BY <1>2, EditsExcept
<1>3. CASE Holds(j, a, m) /\ Copied(i, j, m)
  <2>1. merge # NoMerge /\ merge.copied /\ merge.at # "ref" /\ merge.ref = m /\ {i, j} = {merge.keep, merge.drop}
    BY <1>3 DEF Copied, NoMerge, MergeIsOfTwo
  <2>2. MergeDelete \/ MergeAbort
    BY <2>1 DEF EditStep, AddRow, DeleteRow, SetStatus, MergeRead, Edit, Merging, MergeRef
  <2>3. CASE MergeDelete
    <3>1. rows'[merge.drop] = Gone
      BY <2>1, <2>3 DEF MergeDelete, MergeIsOfTwo, Live, TypeOK
    <3> QED BY <2>1, <3>1 DEF Holds, Live
  <2>4. CASE MergeAbort
    BY <2>1, <2>4 DEF MergeAbort
  <2> QED BY <2>2, <2>3, <2>4
<1> QED BY <1>1, <1>2, <1>3 DEF Sole

LEMMA CommitKeepsUnique ==
  ASSUME TypeOK, IdsAreDrawnOnce, Unique, NEW p \in Syncs, PlanIsSound(p), Commit(p)
  PROVE  Unique'
<1> SUFFICES ASSUME NEW i \in Ids, NEW j \in Ids, i # j, NEW a \in Accounts, NEW m \in Moves,
                    Holds(i, a, m)', Holds(j, a, m)'
             PROVE  m \in cut' \/ Copied(i, j, m)'
  BY DEF Unique, Sole
<1> DEFINE Written2(k) == k \in Claimed(p) /\ (batch[p].plan[k].new \/ k \in Live)
<1>1. UNCHANGED <<cut, merge>>
  BY CommitKeeps
<1>2. ASSUME NEW k \in Ids, Holds(k, a, m)'
      PROVE  IF Written2(k) THEN /\ k \in Claimed(p) /\ batch[p].plan[k].ref = m /\ rows[k] # Gone
                                 /\ a = Acct(p)
             ELSE Holds(k, a, m)
  <2>1. k \in Claimed(p) /\ batch[p].plan[k].new => rows[k] = Free
    BY DEF IdsAreDrawnOnce
  <2>2. CASE Written2(k)
    <3>1. rows'[k].ref = batch[p].plan[k].ref
          /\ rows'[k].acct = IF k \in Live THEN rows[k].acct ELSE batch[p].plan[k].acct
      BY <2>1, <2>2, CommitOfARow
    <3>2. rows[k] # Gone
      BY <2>1, <2>2, BankConstants DEF Live
    <3>3. batch[p].plan[k].acct = Acct(p)
      BY <2>2 DEF PlanIsSound
    <3>4. k \in Live => rows[k].acct = Acct(p)
      BY <2>1, <2>2 DEF PlanIsSound, Live
    <3> QED BY <1>2, <2>2, <3>1, <3>2, <3>3, <3>4 DEF Holds
  <2>3. CASE ~Written2(k)
    <3>1. rows'[k] = rows[k]
      BY <2>1, <2>3, CommitOfARow
    <3> QED BY <1>2, <2>3, <3>1 DEF Holds, Live
  <2> QED BY <2>2, <2>3
<1> HIDE DEF Written2
<1>3. CASE Written2(i) /\ Written2(j)
  BY <1>2, <1>3 DEF PlanIsSound
<1>4. CASE Written2(i) /\ ~Written2(j)
  <2>1. Sole(i, a, m) /\ Holds(j, a, m)
    BY <1>2, <1>4 DEF PlanIsSound
  <2> QED BY <1>1, <2>1 DEF Sole, Copied
<1>5. CASE ~Written2(i) /\ Written2(j)
  <2>1. Sole(j, a, m) /\ Holds(i, a, m)
    BY <1>2, <1>5 DEF PlanIsSound
  <2> QED BY <1>1, <2>1 DEF Sole, Copied
<1>6. CASE ~Written2(i) /\ ~Written2(j)
  <2>1. Sole(i, a, m) /\ Holds(j, a, m)
    BY <1>2, <1>6 DEF Unique
  <2> QED BY <1>1, <2>1 DEF Sole, Copied
<1> QED BY <1>3, <1>4, <1>5, <1>6

LEMMA UniqueStep ==
  ASSUME Base, Register, [Next]_vars
  PROVE  Unique'
<1>0. TypeOK /\ MergeIsOfTwo /\ IdsAreDrawnOnce /\ Unique
      /\ \A p \in Syncs : pc[p] = "preview" => PlanIsSound(p)
  BY DEF Base, Shapes, Register
<1>1. CASE EditStep
  <2> SUFFICES ASSUME NEW i \in Ids, NEW j \in Ids, i # j, NEW a \in Accounts, NEW m \in Moves,
                      Holds(i, a, m)', Holds(j, a, m)'
               PROVE  m \in cut' \/ Copied(i, j, m)'
    BY DEF Unique, Sole
  <2>1. rows'[i] # Gone /\ rows'[j] # Gone
    BY DEF Holds, Live
  <2>2. CASE Holds(i, a, m)
    <3>1. Sole(i, a, m)'
      BY <1>0, <1>1, <2>1, <2>2, EditKeepsSole DEF Unique
    <3> QED BY <3>1 DEF Sole
  <2>3. CASE Holds(j, a, m)
    <3>1. Sole(j, a, m)'
      BY <1>0, <1>1, <2>1, <2>3, EditKeepsSole DEF Unique
    <3> QED BY <3>1 DEF Sole, Copied
  <2>4. CASE ~Holds(i, a, m) /\ ~Holds(j, a, m)
    <3>1. i = merge.keep /\ j = merge.keep
      BY <1>0, <1>1, <2>4, EditGains
    <3> QED BY <3>1
  <2> QED BY <2>2, <2>3, <2>4
<1>2. ASSUME NEW p \in Syncs, Commit(p) PROVE Unique'
  BY <1>0, <1>2, CommitKeepsUnique DEF Commit
<1>3. CASE UNCHANGED <<rows, merge, excused, cut>>
  BY <1>0, <1>3 DEF Unique, Sole, Holds, Copied, Live
<1> QED BY <1>1, <1>2, <1>3, Steps, OthersKeep

\* A sync goes on where it was unless it takes a step itself.
LEMMA SyncGoesOn ==
  ASSUME Base, OneAtATime, [Next]_vars, NEW q \in Syncs, pc'[q] \in {"accounts", "preview"},
         ~Fetch(q), ~PreviewStart(q), ~PreviewRow(q), ~Commit(q)
  PROVE  /\ pc'[q] = pc[q] /\ job'[q] = job[q] /\ batch'[q] = batch[q]
         /\ Claimed(q)' = Claimed(q) /\ Acct(q)' = Acct(q)
         /\ Of(q, batch[q].ext)' = Of(q, batch[q].ext)
         /\ EditStep \/ UNCHANGED <<rows, merge, excused, cut>>
<1>0. /\ TypeOK /\ job \in [Syncs -> Job] /\ batch \in [Syncs -> Batch]
      /\ pc \in [Syncs -> {"idle", "due", "fetch", "accounts", "preview"}]
  BY DEF Base, Shapes, TypeOK
<1>1. pc'[q] = pc[q] /\ job'[q] = job[q] /\ batch'[q] = batch[q]
  <2>1. CASE EditStep \/ Setting \/ Tick \/ Bank \/ UNCHANGED vars
    BY <2>1, EditsKeep DEF Setting, Link, SetAutoSync, Tick, Bank, Appear, Book, vars, syncVars
  <2>2. CASE SyncDue
    BY <1>0, <2>2 DEF SyncDue
  <2>3. ASSUME NEW p \in Syncs, Load(p) \/ Touch(p) \/ Over(p)
        PROVE  pc'[q] = pc[q] /\ job'[q] = job[q] /\ batch'[q] = batch[q]
    <3>1. pc'[p] \in {"fetch", "idle"}
      BY <1>0, <2>3 DEF Load, Touch, Over, FetchFails, Abort, Ended
    <3>2. q # p
      BY <3>1
    <3> QED BY <1>0, <2>3, <3>2, OneMoves DEF Sync, Over
  <2>4. ASSUME NEW p \in Syncs, Fetch(p) \/ PreviewStart(p) \/ PreviewRow(p) \/ Commit(p)
        PROVE  pc'[q] = pc[q] /\ job'[q] = job[q] /\ batch'[q] = batch[q]
    <3>1. q # p
      BY <2>4
    <3> QED BY <1>0, <2>4, <3>1, OneMoves DEF Sync
  <2> QED BY <2>1, <2>2, <2>3, <2>4, Steps
<1>2. Claimed(q)' = Claimed(q) /\ Acct(q)' = Acct(q) /\ Of(q, batch[q].ext)' = Of(q, batch[q].ext)
  BY <1>1 DEF Claimed, Acct, Of
<1>3. \A p \in Syncs : ~Commit(p)
  BY <1>1 DEF OneAtATime, Active, Commit
<1>4. EditStep \/ UNCHANGED <<rows, merge, excused, cut>>
  BY <1>3, Steps, OthersKeep
<1> QED BY <1>1, <1>2, <1>4

LEMMA PreviewGoesOn ==
  ASSUME Base, OneAtATime, [Next]_vars, NEW q \in Syncs, pc'[q] = "preview",
         ~PreviewStart(q), ~PreviewRow(q)
  PROVE  /\ pc[q] = "preview" /\ job'[q] = job[q] /\ batch'[q] = batch[q]
         /\ Claimed(q)' = Claimed(q) /\ Acct(q)' = Acct(q)
         /\ Of(q, batch[q].ext)' = Of(q, batch[q].ext)
         /\ EditStep \/ UNCHANGED <<rows, merge, excused, cut>>
<1>1. ~Fetch(q) /\ ~Commit(q)
  BY DEF Base, Shapes, TypeOK, Fetch, Commit
<1> QED BY <1>1, SyncGoesOn

LEMMA EditKeepsPreview ==
  ASSUME Base, EditStep, NEW q \in Syncs, PlanIsSound(q), SeenIsSound(q)
  PROVE  PlanIsSound(q)' /\ SeenIsSound(q)'
<1>0. TypeOK /\ MergeIsOfTwo /\ IdsAreDrawnOnce /\ rows \in [Ids -> Row \cup {Free, Gone}]
      /\ batch \in [Syncs -> Batch]
  BY DEF Base, Shapes, TypeOK
<1>1. /\ job'[q] = job[q] /\ batch'[q] = batch[q]
      /\ Claimed(q)' = Claimed(q) /\ Acct(q)' = Acct(q)
      /\ Of(q, batch[q].ext)' = Of(q, batch[q].ext)
  BY EditsKeep DEF Claimed, Acct, Of
<1>2. \A i \in Claimed(q) : i \in Ids /\ batch[q].plan[i].ref \in Moves
  BY <1>0, PlansAreOfIds DEF Planned
<1>3. ASSUME NEW i \in Ids, rows[i] # Free, i \in Live => rows[i].acct = Acct(q)
      PROVE  rows'[i] # Free /\ (i \in Live' => rows'[i].acct = Acct(q))
  <2>1. rows'[i] # Free /\ (rows[i] = Gone => rows'[i] = Gone)
    BY <1>0, <1>3, RowsGoOn
  <2>2. ASSUME i \in Live' PROVE rows'[i].acct = Acct(q)
    <3>1. rows[i] \in Row /\ rows'[i] \in Row
      <4>1. rows'[i] # Gone /\ rows'[i] # Free
        BY <2>2 DEF Live
      <4>2. rows' \in [Ids -> Row \cup {Free, Gone}]
        BY <1>0, TypesEdit DEF TypeOK
      <4> QED BY <1>0, <1>3, <2>1, <4>1, <4>2
    <3>2. i \in Live
      BY <3>1, RowsAreLive
    <3> QED BY <1>0, <1>3, <3>1, <3>2, RowsGoOn
  <2> QED BY <2>1, <2>2
<1>4. ASSUME NEW i \in Claimed(q)
      PROVE  LET w == batch[q].plan[i] IN
             /\ w.acct = Acct(q)
             /\ ~w.new => rows'[i] # Free /\ (i \in Live' => rows'[i].acct = Acct(q))
             /\ \E f \in Of(q, batch[q].ext) \ batch[q].left :
                  f.move = w.ref /\ w.status = StatusOf(f.state)
             /\ \A j \in Claimed(q) : batch[q].plan[j].ref = w.ref => j = i
             /\ rows'[i] # Gone => Sole(i, Acct(q), w.ref)'
  <2> DEFINE w == batch[q].plan[i]
  <2>1. /\ w.acct = Acct(q)
        /\ ~w.new => rows[i] # Free /\ (i \in Live => rows[i].acct = Acct(q))
        /\ \E f \in Of(q, batch[q].ext) \ batch[q].left :
             f.move = w.ref /\ w.status = StatusOf(f.state)
        /\ \A j \in Claimed(q) : batch[q].plan[j].ref = w.ref => j = i
        /\ rows[i] # Gone => Sole(i, Acct(q), w.ref)
    BY DEF PlanIsSound
  <2>2. w.ref \in Moves /\ i \in Ids
    BY <1>2
  <2> HIDE DEF w
  <2>3. ~w.new => rows'[i] # Free /\ (i \in Live' => rows'[i].acct = Acct(q))
    BY <1>3, <2>1, <2>2
  <2>4. rows'[i] # Gone => rows[i] # Gone
    BY <1>0, <2>2, RowsGoOn
  <2>5. ASSUME rows'[i] # Gone, NEW a, a = Acct(q), NEW m, m = w.ref PROVE Sole(i, a, m)'
    <3>1. Sole(i, a, m) /\ m \in Moves
      BY <2>1, <2>2, <2>4, <2>5
    <3> QED BY <1>0, <2>2, <2>5, <3>1, EditKeepsSole
  <2>6. rows'[i] # Gone => Sole(i, Acct(q), w.ref)'
    <3>1. Acct(q)' = Acct(q) /\ w' = w
      BY <1>1 DEF w
    <3> QED BY <2>5, <3>1 DEF Sole, Holds, Copied
  <2> QED BY <2>1, <2>3, <2>6 DEF w
<1>5. PlanIsSound(q)'
  BY <1>1, <1>4 DEF PlanIsSound
<1>6. ASSUME NEW x \in batch[q].seen, x.id \in Live'
      PROVE  rows'[x.id].acct = Acct(q) /\ (x.ref \in Moves => Sole(x.id, Acct(q), x.ref)')
  <2>1. x.id \in Ids /\ rows[x.id] # Free
    BY <1>0 DEF IdsAreDrawnOnce, Batch, Found
  <2>2. rows'[x.id] # Gone
    BY <1>6 DEF Live
  <2>3. x.id \in Live
    BY <1>0, <2>1, <2>2, RowsGoOn DEF Live
  <2>4. rows[x.id].acct = Acct(q) /\ (x.ref \in Moves => Sole(x.id, Acct(q), x.ref))
    BY <2>3 DEF SeenIsSound
  <2>5. rows'[x.id].acct = Acct(q)
    BY <1>3, <1>6, <2>1, <2>4
  <2>6. ASSUME x.ref \in Moves, NEW a, a = Acct(q) PROVE Sole(x.id, a, x.ref)'
    BY <1>0, <2>1, <2>2, <2>4, <2>6, EditKeepsSole
  <2>7. x.ref \in Moves => Sole(x.id, Acct(q), x.ref)'
    BY <1>1, <2>6 DEF Sole, Holds, Copied
  <2> QED BY <2>5, <2>7
<1>7. ASSUME NEW m \in Moves, \A x \in batch[q].seen : x.ref # m, NEW j \in Ids, Holds(j, Acct(q), m)'
      PROVE  m \in cut'
  <2>1. \A k \in Ids : Holds(k, Acct(q), m) => m \in cut
    BY <1>7 DEF SeenIsSound
  <2>2. CASE Holds(j, Acct(q), m)
    BY <2>1, <2>2, EditsExcept
  <2>3. CASE ~Holds(j, Acct(q), m)
    <3> DEFINE a == Acct(q)
    <3>1. Holds(j, a, m)' /\ ~Holds(j, a, m)
      BY <1>1, <1>7, <2>3
    <3>2. a' = a
      BY <1>1
    <3>3. \A k \in Ids : Holds(k, a, m) => m \in cut
      BY <2>1
    <3> HIDE DEF a
    <3>4. \E b : b = a /\ Holds(j, b, m)' /\ ~Holds(j, b, m)
      BY <3>1, <3>2 DEF Holds
    <3>5. m \in cut' \/ \E k \in Ids : Holds(k, a, m)
      BY <1>0, <3>4, EditGains
    <3> QED BY <3>3, <3>5, EditsExcept
  <2> QED BY <2>2, <2>3
<1>8. SeenIsSound(q)'
  BY <1>1, <1>6, <1>7 DEF SeenIsSound
<1> QED BY <1>5, <1>8

LEMMA PreviewKeptSound ==
  ASSUME NEW q \in Syncs, PlanIsSound(q), SeenIsSound(q), UNCHANGED <<rows, merge, cut>>,
         job'[q] = job[q], batch'[q] = batch[q]
  PROVE  PlanIsSound(q)' /\ SeenIsSound(q)'
<1>1. /\ Claimed(q)' = Claimed(q) /\ Acct(q)' = Acct(q)
      /\ Of(q, batch[q].ext)' = Of(q, batch[q].ext)
  BY DEF Claimed, Acct, Of
<1>2. PlanIsSound(q)'
  BY <1>1 DEF PlanIsSound, Sole, Holds, Copied, Live
<1>3. SeenIsSound(q)'
  BY <1>1 DEF SeenIsSound, Sole, Holds, Copied, Live
<1> QED BY <1>2, <1>3

LEMMA StartIsSound ==
  ASSUME Base, Unique, NEW p \in Syncs, PreviewStart(p)
  PROVE  PlanIsSound(p)' /\ SeenIsSound(p)'
<1>0. TypeOK /\ UNCHANGED <<rows, merge, cut, job>>
  BY OthersKeep DEF Base, Shapes, PreviewStart
<1>1. PICK e \in job[p].todo :
        /\ Claimed(p)' = {} /\ batch'[p].ext = e /\ e \in Exts
        /\ \A x \in batch'[p].seen :
             /\ x.id \in Live /\ rows[x.id].acct = job[p].links[e]
             /\ x.ref = rows[x.id].ref /\ x.status = rows[x.id].status
        /\ \A i \in Live : rows[i].acct = job[p].links[e] /\ rows[i].ref # NoRef =>
             \E x \in batch'[p].seen : x.ref = rows[i].ref
  BY <1>0, PreviewOfAnAccount
<1> DEFINE a == job[p].links[e]
<1>2. Acct(p)' = a /\ a' = a
  BY <1>0, <1>1 DEF Acct
<1>3. PlanIsSound(p)'
  BY <1>1 DEF PlanIsSound
<1>4. \A x \in batch'[p].seen : x.id \in Ids /\ rows[x.id] \in Row
  BY <1>0, <1>1, LiveRows DEF Live
<1>5. \A x \in batch'[p].seen : rows[x.id].acct = a /\ (x.ref \in Moves => Sole(x.id, a, x.ref))
  BY <1>1, <1>4 DEF Unique, Holds, Row
<1>6. \A m \in Moves : (\A x \in batch'[p].seen : x.ref # m) => \A j \in Ids : ~Holds(j, a, m)
  BY <1>1, BankConstants DEF Holds
<1> HIDE DEF a
<1>7. SeenIsSound(p)'
  BY <1>0, <1>2, <1>5, <1>6 DEF SeenIsSound, Sole, Holds, Copied, Live
<1> QED BY <1>3, <1>7

LEMMA RowIsSound ==
  ASSUME Base, NEW p \in Syncs, PlanIsSound(p), SeenIsSound(p), PreviewRow(p)
  PROVE  PlanIsSound(p)' /\ SeenIsSound(p)'
<1>0. /\ TypeOK /\ IdsAreDrawnOnce /\ ShapeOf(p) /\ pc[p] = "preview" /\ UNCHANGED <<rows, merge, cut, job>>
      /\ batch[p] \in Batch /\ job[p] \in Job
  BY OthersKeep DEF Base, Shapes, PreviewRow, TypeOK
<1>1. /\ batch'[p].ext = batch[p].ext /\ batch'[p].seen = batch[p].seen
  BY <1>0, PreviewOfARow
<1>2. /\ Acct(p)' = Acct(p) /\ Of(p, batch[p].ext)' = Of(p, batch[p].ext)
  BY <1>0, <1>1 DEF Acct, Of
<1>3. SeenIsSound(p)'
  BY <1>0, <1>1, <1>2 DEF SeenIsSound, Sole, Holds, Copied, Live
<1>4. PICK f \in batch[p].left :
        /\ f \in Fetched /\ batch'[p].left = batch[p].left \ {f}
        /\ PassesOver(p, f) \/ \E i \in Ids : \E n \in BOOLEAN : Plans(p, f, i, n)
  BY <1>0, PreviewOfARow
<1>5. CASE PassesOver(p, f)
  <2>1. Claimed(p)' = Claimed(p) /\ batch'[p].plan = batch[p].plan /\ batch'[p].left \subseteq batch[p].left
    BY <1>4, <1>5 DEF PassesOver
  <2>2. \A i \in Claimed(p) :
          \E g \in Of(p, batch[p].ext) \ batch'[p].left :
            g.move = batch[p].plan[i].ref /\ batch[p].plan[i].status = StatusOf(g.state)
    <3> TAKE i \in Claimed(p)
    <3>1. PICK g \in Of(p, batch[p].ext) \ batch[p].left :
            g.move = batch[p].plan[i].ref /\ batch[p].plan[i].status = StatusOf(g.state)
      BY DEF PlanIsSound
    <3> QED BY <2>1, <3>1
  <2> DEFINE a == Acct(p)
  <2>3. a = Acct(p) /\ a = Acct(p)' /\ a' = a
    BY <1>2
  <2> HIDE DEF a
  <2>4. \A j, m : Sole(j, a, m) => Sole(j, a, m)'
    BY <1>0, <2>3 DEF Sole, Holds, Copied, Live
  <2>5. \A i \in Claimed(p) :
          /\ batch[p].plan[i].acct = a
          /\ ~batch[p].plan[i].new => rows[i] # Free /\ (i \in Live => rows[i].acct = a)
          /\ \A j \in Claimed(p) : batch[p].plan[j].ref = batch[p].plan[i].ref => j = i
          /\ rows[i] # Gone => Sole(i, a, batch[p].plan[i].ref)
    BY <2>3 DEF PlanIsSound
  <2>6. ASSUME NEW j \in Claimed(p)'
        PROVE  LET w == batch'[p].plan[j] IN
               /\ w.acct = a
               /\ ~w.new => rows[j] # Free /\ (j \in Live => rows[j].acct = a)
               /\ \E g \in Of(p, batch[p].ext) \ batch'[p].left :
                    g.move = w.ref /\ w.status = StatusOf(g.state)
               /\ \A k \in Claimed(p)' : batch'[p].plan[k].ref = w.ref => k = j
               /\ rows[j] # Gone => Sole(j, a, w.ref)
    BY <2>1, <2>2, <2>5
  <2>7. Live' = Live
    BY <1>0 DEF Live
  <2>8. PlanIsSound(p)'
    BY <1>0, <1>1, <1>2, <2>3, <2>4, <2>6, <2>7 DEF PlanIsSound
  <2> QED BY <1>3, <2>8
<1>6. ASSUME NEW i \in Ids, NEW n \in BOOLEAN, Plans(p, f, i, n)
      PROVE  PlanIsSound(p)'
  <2> DEFINE a == Acct(p)
  <2>1. /\ Claimed(p)' = Claimed(p) \cup {i} /\ i \notin Claimed(p)
        /\ \A j \in Claimed(p) : batch'[p].plan[j] = batch[p].plan[j]
        /\ batch'[p].plan[i] = Entry(p, f, n)
    BY <1>0, <1>6 DEF Plans, Settles, Candidates, FreshIds, Claimed, Batch
  <2>2. f \in Of(p, batch[p].ext) /\ f.move \in Moves /\ f \in job[p].got
    BY <1>0, <1>4 DEF ShapeOf, Of, Fetched
  <2>3. \A j \in Claimed(p) : \E g \in Of(p, batch[p].ext) \ batch[p].left :
          g.move = batch[p].plan[j].ref /\ batch[p].plan[j].status = StatusOf(g.state)
    BY DEF PlanIsSound
  <2>4. \A j \in Claimed(p) : batch[p].plan[j].ref # f.move
    <3> SUFFICES ASSUME NEW j \in Claimed(p), batch[p].plan[j].ref = f.move PROVE FALSE
      OBVIOUS
    <3>1. PICK g \in Of(p, batch[p].ext) \ batch[p].left : g.move = f.move
      BY <2>3
    <3>2. g \in job[p].got
      BY DEF Of
    <3>3. g = f
      BY <1>0, <2>2, <3>1, <3>2 DEF ShapeOf, Active
    <3> QED BY <3>1, <3>3
  <2>5. /\ Entry(p, f, n).acct = a /\ Entry(p, f, n).new = n /\ Entry(p, f, n).ref = f.move
        /\ Entry(p, f, n).status = StatusOf(f.state)
    BY DEF Entry
  <2>6. /\ ~n => rows[i] # Free /\ (i \in Live => rows[i].acct = a)
        /\ rows[i] # Gone => Sole(i, a, f.move)
    <3>1. SeenAs(p, f) = {} => Sole(i, a, f.move)
      BY <2>2 DEF SeenIsSound, SeenAs, Sole
    <3>2. CASE ~n /\ \E x \in SeenAs(p, f) : Settles(p, f, x) /\ i = x.id
      <4> PICK x \in batch[p].seen : x.ref = f.move /\ i = x.id
        BY <3>2 DEF SeenAs
      <4>1. rows[i] # Free
        BY <1>0 DEF IdsAreDrawnOnce
      <4>2. rows[i] # Gone => i \in Live
        BY <4>1 DEF Live
      <4>3. i \in Live => rows[i].acct = a /\ Sole(i, a, f.move)
        BY <2>2 DEF SeenIsSound
      <4> QED BY <4>1, <4>2, <4>3
    <3>3. CASE ~n /\ SeenAs(p, f) = {} /\ i \in Candidates(p, f)
      <4>1. i \in Live /\ rows[i].acct = a
        BY <3>3 DEF Candidates
      <4> QED BY <3>1, <3>3, <4>1 DEF Live
    <3>4. CASE n /\ SeenAs(p, f) = {}
      BY <3>1, <3>4
    <3> QED BY <1>6, <3>2, <3>3, <3>4 DEF Plans
  <2> HIDE DEF a
  <2>7. a = Acct(p) /\ a = Acct(p)' /\ a' = a
    BY <1>2 DEF a
  <2>8. \A j, m : Sole(j, a, m) => Sole(j, a, m)'
    BY <1>0, <2>7 DEF Sole, Holds, Copied, Live
  <2>9. ASSUME NEW j \in Claimed(p)'
        PROVE  LET w == batch'[p].plan[j] IN
               /\ w.acct = a
               /\ ~w.new => rows[j] # Free /\ (j \in Live => rows[j].acct = a)
               /\ \E g \in Of(p, batch[p].ext) \ batch'[p].left :
                    g.move = w.ref /\ w.status = StatusOf(g.state)
               /\ \A k \in Claimed(p)' : batch'[p].plan[k].ref = w.ref => k = j
               /\ rows[j] # Gone => Sole(j, a, w.ref)
    <3>1. CASE j = i
      BY <1>4, <2>1, <2>2, <2>4, <2>5, <2>6, <3>1
    <3>2. CASE j # i
      <4>1. j \in Claimed(p)
        BY <2>1, <3>2
      <4> DEFINE w == batch[p].plan[j]
      <4>2. /\ w.acct = a
            /\ ~w.new => rows[j] # Free /\ (j \in Live => rows[j].acct = a)
            /\ \E g \in Of(p, batch[p].ext) \ batch[p].left :
                 g.move = w.ref /\ w.status = StatusOf(g.state)
            /\ \A k \in Claimed(p) : batch[p].plan[k].ref = w.ref => k = j
            /\ rows[j] # Gone => Sole(j, a, w.ref)
        BY <2>7, <4>1 DEF PlanIsSound
      <4>3. w = batch'[p].plan[j] /\ w.ref # f.move
        BY <2>1, <2>4, <4>1
      <4> HIDE DEF w
      <4>4. \A k \in Claimed(p)' : batch'[p].plan[k].ref = w.ref => k = j
        BY <2>1, <2>5, <4>2, <4>3
      <4> QED BY <1>4, <4>2, <4>3, <4>4
    <3> QED BY <3>1, <3>2
  <2>10. Live' = Live
    BY <1>0 DEF Live
  <2> QED BY <1>0, <1>1, <1>2, <2>7, <2>8, <2>9, <2>10 DEF PlanIsSound
<1> QED BY <1>3, <1>4, <1>5, <1>6

LEMMA RegisterStep == ASSUME Serial, Base, Register, [Next]_vars PROVE Register'
<1>1. OneAtATime'
  BY OneAtATimeStep DEF Register
<1>2. Unique'
  BY UniqueStep
<1>3. ASSUME NEW q \in Syncs, pc'[q] = "preview" PROVE PlanIsSound(q)' /\ SeenIsSound(q)'
  <2>1. CASE PreviewStart(q)
    BY <2>1, StartIsSound DEF Register
  <2>2. CASE PreviewRow(q)
    BY <2>2, RowIsSound DEF Register, PreviewRow
  <2>3. CASE ~PreviewStart(q) /\ ~PreviewRow(q)
    <3>1. /\ pc[q] = "preview" /\ job'[q] = job[q] /\ batch'[q] = batch[q]
          /\ EditStep \/ UNCHANGED <<rows, merge, excused, cut>>
      BY <1>3, <2>3, PreviewGoesOn DEF Register
    <3>2. PlanIsSound(q) /\ SeenIsSound(q)
      BY <3>1 DEF Register
    <3> QED BY <3>1, <3>2, EditKeepsPreview, PreviewKeptSound
  <2> QED BY <2>1, <2>2, <2>3
<1> QED BY <1>1, <1>2, <1>3 DEF Register

LEMMA RegisterInit == Init => Register
<1> SUFFICES ASSUME Init PROVE Register
  OBVIOUS
<1>1. Live = {}
  BY DEF Init, Live
<1> QED BY <1>1 DEF Init, Register, OneAtATime, Active, Unique, Holds

-----------------------------------------------------------------------------
(***************************************************************************)
(* What was fetched arrives                                                *)
(***************************************************************************)

\* A person's step on the row of a movement makes an exception of the movement.
LEMMA EditKeepsRow ==
  ASSUME TypeOK, MergeIsOfTwo, EditStep, NEW i \in Live, rows[i].ref \in Moves, rows[i].ref \notin excused'
  PROVE  rows'[i] = rows[i] /\ i \in Live'
<1>1. Edited(i) /\ i \in Ids
  BY EditOfARow DEF Live
<1>2. rows'[i] = rows[i]
  <2>1. i \notin FreshIds
    BY DEF FreshIds, Live
  <2> QED BY <1>1, <2>1 DEF Edited
<1> QED BY <1>1, <1>2 DEF Live

LEMMA EditKeepsHolder ==
  ASSUME TypeOK, MergeIsOfTwo, EditStep, NEW m \in Moves, m \notin excused', NEW a, NEW i, Holds(i, a, m)
  PROVE  Holds(i, a, m)' /\ rows'[i].status = rows[i].status
<1>1. i \in Live /\ rows[i].acct = a /\ rows[i].ref = m
  BY DEF Holds
<1>2. rows'[i] = rows[i] /\ i \in Live'
  BY <1>1, EditKeepsRow
<1> QED BY <1>1, <1>2 DEF Holds

LEMMA EditKeepsSecure ==
  ASSUME TypeOK, MergeIsOfTwo, EditStep, NEW m \in Moves, m \notin excused', NEW a, NEW s, Secure(m, a, s)
  PROVE  Secure(m, a, s)'
<1>1. PICK i \in Ids : Holds(i, a, m) /\ rows[i].status >= s
  BY DEF Secure
<1>2. Holds(i, a, m)' /\ rows'[i].status = rows[i].status
  BY <1>1, EditKeepsHolder
<1> QED BY <1>1, <1>2 DEF Secure

\* A commit writes what was fetched of the movement over its row, or leaves it.
LEMMA CommitKeepsHolder ==
  ASSUME TypeOK, IdsAreDrawnOnce, NEW p \in Syncs, PlanIsSound(p), Commit(p),
         NEW m \in Moves, m \notin excused', NEW a, NEW k \in Ids, Holds(k, a, m)
  PROVE  /\ Holds(k, a, m)'
         /\ \/ rows'[k].status = rows[k].status
            \/ \E f \in Of(p, batch[p].ext) : f.move = m /\ rows'[k].status = StatusOf(f.state)
<1>1. k \in Live /\ rows[k].acct = a /\ rows[k].ref = m /\ rows[k] \in Row
  BY HoldersAreRows
<1>2. k \in Claimed(p) => ~batch[p].plan[k].new
  BY <1>1, BankConstants DEF IdsAreDrawnOnce
<1>3. CASE k \notin Claimed(p)
  <2>1. rows'[k] = rows[k]
    BY <1>3, CommitOfARow
  <2> QED BY <1>1, <2>1 DEF Holds, Live
<1>4. CASE k \in Claimed(p)
  <2>1. /\ rows'[k] \in Row /\ rows'[k].ref = batch[p].plan[k].ref
        /\ rows'[k].status = batch[p].plan[k].status /\ rows'[k].acct = a
    BY <1>1, <1>2, <1>4, CommitOfARow
  <2>2. batch[p].plan[k].ref = m
    <3>1. batch[p].plan[k].ref # m => k \in Overtaken(p)
      BY <1>1, <1>2, <1>4 DEF Overtaken
    <3>2. k \in Overtaken(p) => m \in excused'
      BY <1>1 DEF Commit
    <3> QED BY <3>1, <3>2
  <2>3. PICK f \in Of(p, batch[p].ext) : f.move = m /\ batch[p].plan[k].status = StatusOf(f.state)
    BY <1>4, <2>2 DEF PlanIsSound
  <2>4. k \in Live'
    BY <2>1, BankConstants DEF Live
  <2> QED BY <2>1, <2>2, <2>3, <2>4 DEF Holds
<1> QED BY <1>3, <1>4

LEMMA CommitKeepsSecure ==
  ASSUME TypeOK, IdsAreDrawnOnce, NEW p \in Syncs, PlanIsSound(p), Commit(p),
         NEW m \in Moves, m \notin excused', NEW a, NEW s, Secure(m, a, s),
         \A f \in Of(p, batch[p].ext) : f.move = m => StatusOf(f.state) >= s
  PROVE  Secure(m, a, s)'
<1>1. PICK k \in Ids : Holds(k, a, m) /\ rows[k].status >= s
  BY DEF Secure
<1>2. Holds(k, a, m)' /\ rows'[k].status >= s
  BY <1>1, CommitKeepsHolder
<1> QED BY <1>2 DEF Secure

\* What a commit has planned is in the register then.
LEMMA CommitPutsIn ==
  ASSUME TypeOK, IdsAreDrawnOnce, NEW p \in Syncs, PlanIsSound(p), Commit(p),
         NEW i \in Claimed(p), batch[p].plan[i].ref \notin excused'
  PROVE  /\ i \in Live' /\ rows'[i].acct = Acct(p) /\ rows'[i].ref = batch[p].plan[i].ref
         /\ rows'[i].status = batch[p].plan[i].status
<1> DEFINE w == batch[p].plan[i]
<1>1. i \in Ids /\ (w.new => rows[i] = Free) /\ w.acct = Acct(p)
      /\ (~w.new => rows[i] # Free /\ (i \in Live => rows[i].acct = Acct(p)))
  BY PlansAreOfIds DEF IdsAreDrawnOnce, PlanIsSound
<1>2. w.new \/ i \in Live
  <2>1. ~w.new /\ i \notin Live => i \in Overtaken(p)
    BY DEF Overtaken
  <2>2. i \in Overtaken(p) => w.ref \in excused'
    BY DEF Commit
  <2> QED BY <2>1, <2>2
<1>3. /\ rows'[i] \in Row /\ rows'[i].ref = w.ref /\ rows'[i].status = w.status
      /\ rows'[i].acct = IF i \in Live THEN rows[i].acct ELSE w.acct
  BY <1>1, <1>2, CommitOfARow
<1>4. rows'[i].acct = Acct(p)
  <2>1. CASE i \in Live
    <3>1. ~w.new
      BY <1>1, <2>1 DEF Live
    <3> QED BY <1>1, <1>3, <2>1, <3>1
  <2>2. CASE i \notin Live
    BY <1>1, <1>3, <2>2
  <2> QED BY <2>1, <2>2
<1>5. i \in Live'
  BY <1>1, <1>3, BankConstants DEF Live
<1> QED BY <1>3, <1>4, <1>5

LEMMA StatusesStep ==
  ASSUME Base, Register, StatusesAreTheBanks, [Next]_vars
  PROVE  StatusesAreTheBanks'
<1>0. /\ TypeOK /\ TypeOK' /\ MergeIsOfTwo /\ IdsAreDrawnOnce /\ merge \in Merge
      /\ \A p \in Syncs : pc[p] = "preview" => PlanIsSound(p)
  BY TypesStep DEF Base, Shapes, Register, TypeOK
<1>1. CASE EditStep
  <2>1. ASSUME NEW i \in Live', rows'[i].ref \in Moves, rows'[i].ref \notin excused', NEW m, m = rows'[i].ref,
               NEW a, a = rows'[i].acct
        PROVE  Secure(m, a, PendingStatus)'
    <3>1. Holds(i, a, m)' /\ i \in Ids /\ m \in Moves
      BY <2>1 DEF Holds, Live
    <3>2. CASE Holds(i, a, m)
      <4>1. Secure(m, a, PendingStatus)
        BY <2>1, <3>2, EditsExcept, <1>1 DEF Holds, StatusesAreTheBanks
      <4> QED BY <1>0, <1>1, <2>1, <3>1, <4>1, EditKeepsSecure
    <3>3. CASE ~Holds(i, a, m)
      <4>1. /\ MergeRef /\ i = merge.keep /\ merge.ref = m
        BY <1>0, <1>1, <3>1, <3>3, EditGains
      <4>2. /\ merge.at = "ref" /\ merge.drop \in Live /\ rows[merge.drop].acct = rows[i].acct
            /\ merge.keep \in Live
        BY <1>0, <4>1 DEF MergeRef, MergeIsOfTwo, NoMerge
      <4>3. rows[merge.drop].ref = m
        BY <1>1, <2>1, <3>1, <4>1, <4>2, EditsExcept DEF StatusesAreTheBanks
      <4>4. rows[i].acct = a
        <5>1. rows[i] \in Row /\ rows'[i] \in Row
          BY <1>0, <2>1, <4>1, <4>2, LiveRows DEF TypeOK, Live
        <5> QED BY <1>0, <1>1, <2>1, <3>1, <5>1, RowsGoOn
      <4>5. Secure(m, a, PendingStatus)
        BY <1>1, <2>1, <3>1, <4>2, <4>3, <4>4, EditsExcept DEF StatusesAreTheBanks
      <4> QED BY <1>0, <1>1, <2>1, <3>1, <4>5, EditKeepsSecure
    <3> QED BY <3>2, <3>3
  <2>2. ASSUME merge'.at = "ref" PROVE rows'[merge'.drop].ref = merge'.ref
    <3>1. \E k, d \in Ids : MergeRead(k, d)
      <4>1. ~MergeRef
        BY <1>0, <2>2 DEF MergeRef, Merge
      <4>2. ~(merge' = NoMerge)
        BY <2>2 DEF NoMerge
      <4> QED BY <1>1, <4>1, <4>2 DEF EditStep, AddRow, DeleteRow, SetStatus, Edit, Merging, MergeDelete, MergeAbort
    <3> PICK k \in Ids, d \in Ids : MergeRead(k, d)
      BY <3>1
    <3> QED BY DEF MergeRead, NoMerge
  <2>3. \A i \in Live' : rows'[i].ref \in Moves /\ rows'[i].ref \notin excused' =>
          Secure(rows[i].ref, rows[i].acct, PendingStatus)'
    BY <2>1 DEF Secure
  <2> QED BY <2>2, <2>3 DEF StatusesAreTheBanks
<1>2. ASSUME NEW p \in Syncs, Commit(p) PROVE StatusesAreTheBanks'
  <2>0. PlanIsSound(p) /\ UNCHANGED merge /\ excused \subseteq excused'
    BY <1>0, <1>2, CommitKeeps DEF Commit
  <2>1. \A f \in Of(p, batch[p].ext) : StatusOf(f.state) >= PendingStatus
    BY StatusesAreOwed DEF Statuses
  <2>2. ASSUME NEW i \in Live', rows'[i].ref \in Moves, rows'[i].ref \notin excused', NEW m, m = rows'[i].ref,
               NEW a, a = rows'[i].acct
        PROVE  Secure(m, a, PendingStatus)'
    <3>1. i \in Ids /\ Holds(i, a, m)' /\ (i \in Claimed(p) /\ batch[p].plan[i].new => rows[i] = Free)
      BY <1>0, <2>2 DEF Holds, Live, IdsAreDrawnOnce
    <3>2. CASE i \in Claimed(p) /\ (batch[p].plan[i].new \/ i \in Live)
      <4>1. rows'[i].status = batch[p].plan[i].status
        BY <1>0, <1>2, <3>1, <3>2, CommitOfARow
      <4>2. rows'[i].status >= PendingStatus
        BY <2>0, <2>1, <3>2, <4>1 DEF PlanIsSound
      <4> QED BY <3>1, <4>2 DEF Secure
    <3>3. CASE ~(i \in Claimed(p) /\ (batch[p].plan[i].new \/ i \in Live))
      <4>1. rows'[i] = rows[i]
        BY <1>0, <1>2, <3>1, <3>3, CommitOfARow
      <4>2. Secure(m, a, PendingStatus)
        BY <2>0, <2>2, <4>1 DEF StatusesAreTheBanks, Live
      <4> QED BY <1>0, <1>2, <2>0, <2>1, <2>2, <4>2, CommitKeepsSecure
    <3> QED BY <3>2, <3>3
  <2>3. ASSUME merge.at = "ref", merge.ref \in Moves, merge.ref \notin excused'
        PROVE  rows'[merge.drop].ref = merge.ref
    <3>1. rows[merge.drop].ref = merge.ref /\ merge.drop \in Live
      BY <1>0, <2>0, <2>3 DEF StatusesAreTheBanks, MergeIsOfTwo, NoMerge
    <3>2. Holds(merge.drop, rows[merge.drop].acct, merge.ref) /\ merge.drop \in Ids
      BY <3>1 DEF Holds, Live
    <3>3. \A a, m, d : a = rows[merge.drop].acct /\ m = merge.ref /\ d = merge.drop => Holds(d, a, m)'
      BY <1>0, <1>2, <2>0, <2>3, <3>2, CommitKeepsHolder
    <3> QED BY <3>3 DEF Holds
  <2>4. \A i \in Live' : rows'[i].ref \in Moves /\ rows'[i].ref \notin excused' =>
          Secure(rows[i].ref, rows[i].acct, PendingStatus)'
    BY <2>2 DEF Secure
  <2> QED BY <2>0, <2>3, <2>4 DEF StatusesAreTheBanks
<1>3. CASE UNCHANGED <<rows, merge, excused, cut>>
  BY <1>3 DEF StatusesAreTheBanks, Secure, Holds, Live
<1> QED BY <1>1, <1>2, <1>3, Steps, OthersKeep

LEMMA SeenStep ==
  ASSUME Base, Register, Arrival, [Next]_vars, NEW q \in Syncs, pc'[q] = "preview"
  PROVE  SeenStands(q)'
<1>0. /\ TypeOK /\ MergeIsOfTwo /\ ShapeOf(q) /\ StatusesAreTheBanks
      /\ pc[q] = "preview" => SeenStands(q)
      /\ batch[q] \in Batch
  BY DEF Base, Shapes, Arrival, TypeOK
<1>1. CASE PreviewStart(q)
  <2>1. UNCHANGED <<rows, merge, excused, cut, job>>
    BY <1>1, OthersKeep DEF PreviewStart
  <2>2. PICK e \in job[q].todo :
          /\ Claimed(q)' = {} /\ batch'[q].ext = e
          /\ \A x \in batch'[q].seen :
               /\ x.id \in Live /\ rows[x.id].acct = job[q].links[e]
               /\ x.ref = rows[x.id].ref /\ x.status = rows[x.id].status
    BY <1>0, <1>1, PreviewOfAnAccount
  <2>3. Acct(q)' = job[q].links[e]
    BY <2>1, <2>2 DEF Acct
  <2>4. \A x \in batch'[q].seen : x.ref \in Moves /\ x.ref \notin excused =>
          /\ Holds(x.id, job[q].links[e], x.ref) /\ rows[x.id].status = x.status
          /\ Secure(x.ref, job[q].links[e], PendingStatus)
    BY <1>0, <2>2 DEF Holds, StatusesAreTheBanks
  <2> QED BY <2>1, <2>2, <2>3, <2>4 DEF SeenStands, Secure, Holds, Live
<1>2. CASE PreviewRow(q)
  <2>1. UNCHANGED <<rows, merge, excused, cut, job>> /\ pc[q] = "preview" /\ SeenStands(q)
    BY <1>0, <1>2, OthersKeep DEF PreviewRow
  <2>2. PICK f \in batch[q].left :
          /\ f \in Fetched /\ batch'[q].ext = batch[q].ext /\ batch'[q].seen = batch[q].seen
          /\ PassesOver(q, f) \/ \E i \in Ids : \E n \in BOOLEAN : Plans(q, f, i, n)
    BY <1>0, <1>2, PreviewOfARow
  <2> DEFINE a == Acct(q)
  <2>3. Acct(q)' = a /\ a' = a
    BY <2>1, <2>2 DEF Acct
  <2>4. ASSUME NEW x \in batch[q].seen, x.ref \in Moves, x.ref \notin excused
        PROVE  /\ Holds(x.id, a, x.ref) /\ rows[x.id].status = x.status
               /\ Secure(x.ref, a, PendingStatus)
               /\ x.id \in Claimed(q)' => batch'[q].plan[x.id].ref = x.ref
    <3>1. /\ Holds(x.id, a, x.ref) /\ rows[x.id].status = x.status
          /\ Secure(x.ref, a, PendingStatus)
          /\ x.id \in Claimed(q) => batch[q].plan[x.id].ref = x.ref
      BY <2>1, <2>4 DEF SeenStands
    <3>2. CASE PassesOver(q, f)
      BY <3>1, <3>2 DEF PassesOver
    <3>3. ASSUME NEW i \in Ids, NEW n \in BOOLEAN, Plans(q, f, i, n)
          PROVE  x.id \in Claimed(q)' => batch'[q].plan[x.id].ref = x.ref
      <4>1. /\ Claimed(q)' = Claimed(q) \cup {i} /\ batch'[q].plan[i].ref = f.move
            /\ \A j \in Claimed(q) : j # i => batch'[q].plan[j] = batch[q].plan[j]
        BY <1>0, <3>3 DEF Plans, Entry, Batch, Claimed
      <4>2. CASE x.id = i
        <5>1. x.id \in Live /\ rows[x.id].ref = x.ref
          BY <3>1 DEF Holds
        <5>2. ~(n /\ i \in FreshIds) /\ i \notin Candidates(q, f)
          BY <2>4, <4>2, <5>1, BankConstants DEF FreshIds, Live, Candidates, bankless
        <5>3. PICK y \in SeenAs(q, f) : i = y.id
          BY <3>3, <5>2 DEF Plans
        <5>4. y = x
          BY <1>0, <2>1, <4>2, <5>3 DEF ShapeOf, SeenAs
        <5> QED BY <4>1, <4>2, <5>3, <5>4 DEF SeenAs
      <4>3. CASE x.id # i
        BY <3>1, <4>1, <4>3
      <4> QED BY <4>2, <4>3
    <3> QED BY <2>2, <3>1, <3>2, <3>3
  <2> HIDE DEF a
  <2> QED BY <2>1, <2>2, <2>3, <2>4 DEF SeenStands, Secure, Holds, Live
<1>3. CASE ~PreviewStart(q) /\ ~PreviewRow(q)
  <2>1. /\ pc[q] = "preview" /\ job'[q] = job[q] /\ batch'[q] = batch[q]
        /\ Claimed(q)' = Claimed(q) /\ Acct(q)' = Acct(q)
        /\ EditStep \/ UNCHANGED <<rows, merge, excused, cut>>
    BY <1>3, PreviewGoesOn DEF Register
  <2>2. CASE UNCHANGED <<rows, merge, excused, cut>>
    BY <1>0, <2>1, <2>2 DEF SeenStands, Secure, Holds, Live
  <2>3. CASE EditStep
    <3> DEFINE a == Acct(q)
    <3>1. a' = a /\ Acct(q)' = a /\ a = Acct(q)
      BY <2>1
    <3> HIDE DEF a
    <3>2. ASSUME NEW x \in batch[q].seen, NEW m, m = x.ref, m \in Moves, m \notin excused',
                 NEW b, b = a
          PROVE  /\ Holds(x.id, b, m)' /\ rows'[x.id].status = x.status
                 /\ Secure(m, b, PendingStatus)'
                 /\ x.id \in Claimed(q) => batch[q].plan[x.id].ref = x.ref
      <4>1. /\ Holds(x.id, b, m) /\ rows[x.id].status = x.status
            /\ Secure(m, b, PendingStatus)
            /\ x.id \in Claimed(q) => batch[q].plan[x.id].ref = x.ref
        BY <1>0, <2>1, <2>3, <3>1, <3>2, EditsExcept DEF SeenStands
      <4>2. Holds(x.id, b, m)' /\ rows'[x.id].status = rows[x.id].status
        BY <1>0, <2>3, <3>2, <4>1, EditKeepsHolder
      <4>3. Secure(m, b, PendingStatus)'
        BY <1>0, <2>3, <3>2, <4>1, EditKeepsSecure
      <4> QED BY <4>1, <4>2, <4>3
    <3> QED BY <2>1, <3>1, <3>2 DEF SeenStands, Secure, Holds
  <2> QED BY <2>1, <2>2, <2>3
<1> QED BY <1>1, <1>2, <1>3

LEMMA FetchOfAll ==
  ASSUME TypeOK, NEW p \in Syncs, Fetch(p)
  PROVE  \E ok \in SUBSET Linked(p) :
           /\ job'[p].answered = ok /\ job'[p].at = job[p].at /\ job'[p].last = job[p].last
           /\ job'[p].got = UNION {Answer(p, e) : e \in ok}
           /\ job'[p].todo = {e \in ok : Answer(p, e) # {}}
<1>1. job \in [Syncs -> Job] /\ job[p] \in Job
  BY DEF TypeOK
<1> PICK ok \in SUBSET Linked(p) :
      job' = [job EXCEPT ![p] =
        [@ EXCEPT !.answered = ok, !.got = UNION {Answer(p, e) : e \in ok},
                  !.todo = {e \in ok : Answer(p, e) # {}}]]
  BY DEF Fetch
<1> DEFINE got == UNION {Answer(p, e) : e \in ok}
           todo == {e \in ok : Answer(p, e) # {}}
<1>2. job'[p] = [job[p] EXCEPT !.answered = ok, !.got = got, !.todo = todo]
  BY <1>1
<1> SUFFICES /\ job'[p].answered = ok /\ job'[p].at = job[p].at /\ job'[p].last = job[p].last
             /\ job'[p].got = got /\ job'[p].todo = todo
  OBVIOUS
<1> HIDE DEF got, todo
<1>3. DOMAIN job[p] = {"slot", "at", "last", "links", "answered", "got", "todo"}
  BY <1>1 DEF Job
<1> QED BY <1>2, <1>3, ZenonT(40)

LEMMA AnswersAreOfMoves ==
  ASSUME NEW p, NEW e, NEW f \in Answer(p, e)
  PROVE  /\ f.move \in Moves /\ extOf[f.move] = e
         /\ f.state = bank[f.move].state /\ f.day = bank[f.move].day
         /\ f.day >= From(job[p].last, job[p].at)
BY DEF Answer

LEMMA ArrivesAtFetch == ASSUME TypeOK, NEW q \in Syncs, Fetch(q) PROVE Arrives(q)'
<1>1. PICK ok \in SUBSET Linked(q) :
        /\ job'[q].got = UNION {Answer(q, e) : e \in ok}
        /\ job'[q].todo = {e \in ok : Answer(q, e) # {}}
  BY FetchOfAll
<1>2. \A f \in job'[q].got : extOf[f.move] \in job'[q].todo
  BY <1>1, AnswersAreOfMoves
<1>3. pc'[q] = "accounts"
  BY DEF TypeOK, Fetch
<1> QED BY <1>2, <1>3 DEF Arrives

LEMMA ArrivesAtStart ==
  ASSUME TypeOK, NEW q \in Syncs, PreviewStart(q), Arrives(q) PROVE Arrives(q)'
<1>1. UNCHANGED <<rows, merge, excused, cut, job>>
  BY OthersKeep DEF PreviewStart
<1>2. batch'[q].left = Of(q, batch'[q].ext)
  BY PreviewOfAnAccount
<1>3. Of(q, batch[q].ext)' = batch'[q].left
  BY <1>1, <1>2 DEF Of
<1>4. \A f \in job[q].got : extOf[f.move] \in job[q].todo \/ f.move \in excused
                            \/ Secure(f.move, job[q].links[extOf[f.move]], Owed(f.state))'
  BY <1>1 DEF Arrives, Secure, Holds, Live
<1> QED BY <1>1, <1>3, <1>4 DEF Arrives

LEMMA ArrivesAtRow ==
  ASSUME TypeOK, NEW q \in Syncs, ShapeOf(q), PreviewRow(q), Arrives(q), SeenStands(q)
  PROVE  Arrives(q)'
<1>1. UNCHANGED <<rows, merge, excused, cut, job>> /\ pc[q] = "preview" /\ batch[q] \in Batch
  BY OthersKeep DEF PreviewRow, TypeOK
<1>2. PICK f \in batch[q].left :
        /\ f \in Fetched /\ batch'[q].ext = batch[q].ext /\ batch'[q].seen = batch[q].seen
        /\ batch'[q].left = batch[q].left \ {f}
        /\ PassesOver(q, f) \/ \E i \in Ids : \E n \in BOOLEAN : Plans(q, f, i, n)
  BY PreviewOfARow
<1>3. Of(q, batch[q].ext)' = Of(q, batch[q].ext) /\ Acct(q)' = Acct(q)
  BY <1>1, <1>2 DEF Of, Acct
<1>4. \A i \in Claimed(q) : i \in Claimed(q)' /\ batch'[q].plan[i].ref = batch[q].plan[i].ref
  <2>1. CASE PassesOver(q, f)
    BY <2>1 DEF PassesOver
  <2>2. ASSUME NEW i \in Ids, NEW n \in BOOLEAN, Plans(q, f, i, n)
        PROVE  \A j \in Claimed(q) : j \in Claimed(q)' /\ batch'[q].plan[j].ref = batch[q].plan[j].ref
    <3>1. i \notin Claimed(q)
      BY <2>2 DEF Plans, Settles, Candidates, FreshIds
    <3> QED BY <1>1, <2>2, <3>1 DEF Plans, Batch, Claimed
  <2> QED BY <1>2, <2>1, <2>2
<1>5. \/ f.move \in excused \/ Secure(f.move, Acct(q), Owed(f.state))
      \/ \E i \in Claimed(q)' : batch'[q].plan[i].ref = f.move
  <2>1. ASSUME NEW i \in Ids, NEW n \in BOOLEAN, Plans(q, f, i, n)
        PROVE  i \in Claimed(q)' /\ batch'[q].plan[i].ref = f.move
    BY <1>1, <2>1 DEF Plans, Entry, Batch
  <2>2. ASSUME PassesOver(q, f), f.move \notin excused
        PROVE  \/ Secure(f.move, Acct(q), Owed(f.state))
               \/ \E i \in Claimed(q)' : batch'[q].plan[i].ref = f.move
    <3>1. PICK x \in batch[q].seen : x.ref = f.move /\ ~Settles(q, f, x)
      BY <2>2 DEF PassesOver, SeenAs
    <3>2. /\ Holds(x.id, Acct(q), f.move) /\ rows[x.id].status = x.status /\ x.status \in Statuses
          /\ Secure(f.move, Acct(q), PendingStatus)
          /\ x.id \in Claimed(q) => batch[q].plan[x.id].ref = f.move
      BY <1>1, <1>2, <2>2, <3>1 DEF SeenStands, Fetched, Batch, Found
    <3>3. CASE x.id \in Claimed(q)
      BY <1>4, <3>2, <3>3
    <3>4. CASE ~(x.status < Reconciled)
      <4>1. x.status >= Owed(f.state)
        BY <3>2, <3>4, StatusesAreOwed DEF Statuses, Reconciled
      <4> QED BY <3>2, <4>1 DEF Secure, Holds, Live
    <3>5. CASE ~(StatusOf(f.state) >= Reconciled)
      <4>1. Owed(f.state) = PendingStatus
        BY <3>5, StatusesAreOwed DEF Owed
      <4> QED BY <3>2, <4>1
    <3> QED BY <3>1, <3>3, <3>4, <3>5 DEF Settles
  <2> QED BY <1>2, <2>1, <2>2
<1>6. \A g \in Of(q, batch[q].ext) \ batch'[q].left :
        \/ g.move \in excused \/ Secure(g.move, Acct(q), Owed(g.state))
        \/ \E i \in Claimed(q)' : batch'[q].plan[i].ref = g.move
  <2> TAKE g \in Of(q, batch[q].ext) \ batch'[q].left
  <2>1. CASE g = f
    BY <1>5, <2>1
  <2>2. CASE g # f
    <3>1. \/ g.move \in excused \/ Secure(g.move, Acct(q), Owed(g.state))
          \/ \E i \in Claimed(q) : batch[q].plan[i].ref = g.move
      BY <1>1, <1>2, <2>2 DEF Arrives
    <3> QED BY <1>4, <3>1
  <2> QED BY <2>1, <2>2
<1>7. \A m, a, s : Secure(m, a, s) => \E i \in Ids : /\ i \in Live' /\ rows'[i].acct = a /\ rows'[i].ref = m
                                                   /\ rows'[i].status >= s
  BY <1>1 DEF Secure, Holds, Live
<1>8. \A g \in job[q].got : \/ extOf[g.move] \in job[q].todo \/ g.move \in excused
                            \/ Secure(g.move, job[q].links[extOf[g.move]], Owed(g.state))
  BY DEF Arrives
<1> DEFINE In(m, a, s) == \E i \in Ids : /\ i \in Live' /\ rows'[i].acct = a /\ rows'[i].ref = m
                                         /\ rows'[i].status >= s
<1>9. /\ \A g \in Of(q, batch[q].ext) \ batch'[q].left :
           \/ g.move \in excused \/ In(g.move, Acct(q), Owed(g.state))
           \/ \E i \in Claimed(q)' : batch'[q].plan[i].ref = g.move
      /\ \A g \in job[q].got : \/ extOf[g.move] \in job[q].todo \/ g.move \in excused
                               \/ In(g.move, job[q].links[extOf[g.move]], Owed(g.state))
  BY <1>6, <1>7, <1>8
<1> QED BY <1>1, <1>2, <1>3, <1>9 DEF Arrives, Secure, Holds

LEMMA ArrivesAtCommit ==
  ASSUME TypeOK, IdsAreDrawnOnce, NEW q \in Syncs, ShapeOf(q), PlanIsSound(q), Commit(q), Arrives(q)
  PROVE  Arrives(q)'
<1>1. /\ pc[q] = "preview" /\ pc'[q] = "accounts" /\ batch[q].left = {} /\ excused \subseteq excused'
      /\ job[q] \in Job /\ job'[q] = [job[q] EXCEPT !.todo = @ \ {batch[q].ext}]
  BY DEF TypeOK, Commit
<1>2. /\ job'[q].got = job[q].got /\ job'[q].links = job[q].links
      /\ job'[q].todo = job[q].todo \ {batch[q].ext}
  BY <1>1 DEF Job
<1>3. \A f, g \in job[q].got : g.move = f.move => g = f
  BY <1>1 DEF ShapeOf, Active
<1>4. \A f \in job[q].got : f.move \in Moves /\ Owed(f.state) <= StatusOf(f.state)
                            /\ StatusOf(f.state) \in Statuses /\ Owed(f.state) \in Statuses
  BY <1>1, StatusesAreOwed DEF Job, Fetched
<1>5. Of(q, batch[q].ext) \subseteq job[q].got
  BY DEF Of
<1>6. ASSUME NEW f \in job[q].got, f.move \notin excused', NEW a, NEW m, m = f.move, NEW s, s = Owed(f.state),
             Secure(m, a, s)
      PROVE  Secure(m, a, s)'
  <2>1. \A g \in Of(q, batch[q].ext) : g.move = m => StatusOf(g.state) >= s
    BY <1>3, <1>4, <1>5, <1>6 DEF Statuses
  <2> QED BY <1>4, <1>6, <2>1, CommitKeepsSecure
<1>7. ASSUME NEW f \in Of(q, batch[q].ext), f.move \notin excused', NEW i \in Claimed(q), batch[q].plan[i].ref = f.move,
             NEW a, a = Acct(q), NEW m, m = f.move, NEW s, s = Owed(f.state)
      PROVE  Secure(m, a, s)'
  <2>1. /\ i \in Live' /\ rows'[i].acct = a /\ rows'[i].ref = m
        /\ rows'[i].status = batch[q].plan[i].status
    BY <1>7, CommitPutsIn
  <2>2. PICK g \in Of(q, batch[q].ext) : g.move = f.move /\ batch[q].plan[i].status = StatusOf(g.state)
    BY <1>7 DEF PlanIsSound
  <2>3. g = f
    BY <1>3, <1>5, <2>2
  <2>4. rows'[i].status >= s
    BY <1>4, <1>5, <1>7, <2>1, <2>2, <2>3 DEF Statuses
  <2>5. i \in Ids
    BY PlansAreOfIds
  <2> QED BY <2>1, <2>4, <2>5 DEF Secure, Holds
<1>8. ASSUME NEW f \in job[q].got, f.move \notin excused', extOf[f.move] \notin job'[q].todo,
             NEW a, a = job[q].links[extOf[f.move]], NEW m, m = f.move, NEW s, s = Owed(f.state)
      PROVE  Secure(m, a, s)'
  <2>1. f.move \notin excused
    BY <1>1, <1>8
  <2>2. CASE extOf[f.move] = batch[q].ext
    <3>1. f \in Of(q, batch[q].ext) /\ a = Acct(q)
      BY <1>8, <2>2 DEF Of, Acct
    <3>2. \/ Secure(m, a, s)
          \/ \E i \in Claimed(q) : batch[q].plan[i].ref = f.move
      BY <1>1, <1>8, <2>1, <3>1 DEF Arrives
    <3> QED BY <1>6, <1>7, <1>8, <3>1, <3>2
  <2>3. CASE extOf[f.move] # batch[q].ext
    <3>1. Secure(m, a, s)
      BY <1>2, <1>8, <2>1, <2>3 DEF Arrives
    <3> QED BY <1>6, <1>8, <3>1
  <2> QED BY <2>2, <2>3
<1>9. \A f \in job[q].got : \/ extOf[f.move] \in job'[q].todo \/ f.move \in excused'
                            \/ \E i \in Ids : /\ i \in Live' /\ rows'[i].acct = job[q].links[extOf[f.move]]
                                              /\ rows'[i].ref = f.move /\ rows'[i].status >= Owed(f.state)
  BY <1>8 DEF Secure, Holds
<1> QED BY <1>1, <1>2, <1>9 DEF Arrives, Secure, Holds

LEMMA ArrivesAtEdit ==
  ASSUME TypeOK, MergeIsOfTwo, EditStep, NEW q \in Syncs, Arrives(q), pc'[q] = pc[q],
         job'[q] = job[q], batch'[q] = batch[q]
  PROVE  Arrives(q)'
<1>1. Claimed(q)' = Claimed(q) /\ Acct(q)' = Acct(q) /\ Of(q, batch[q].ext)' = Of(q, batch[q].ext)
  BY DEF Claimed, Acct, Of
<1>2. \A f \in job[q].got : f.move \in Moves
  BY DEF TypeOK, Job, Fetched
<1>3. ASSUME NEW f \in job[q].got, f.move \notin excused', NEW a, NEW m, m = f.move, NEW s,
             Secure(m, a, s)
      PROVE  Secure(m, a, s)'
  BY <1>2, <1>3, EditKeepsSecure
<1> DEFINE In(m, a, s) == \E i \in Ids : /\ i \in Live' /\ rows'[i].acct = a /\ rows'[i].ref = m
                                         /\ rows'[i].status >= s
<1>4. \A f \in job[q].got : \A a, s : f.move \notin excused' /\ Secure(f.move, a, s) => In(f.move, a, s)
  BY <1>3 DEF Secure, Holds
<1>5. /\ \A f \in job[q].got : \/ extOf[f.move] \in job[q].todo \/ f.move \in excused'
                               \/ In(f.move, job[q].links[extOf[f.move]], Owed(f.state))
      /\ pc[q] = "preview" =>
           \A f \in Of(q, batch[q].ext) \ batch[q].left :
             \/ f.move \in excused' \/ In(f.move, Acct(q), Owed(f.state))
             \/ \E i \in Claimed(q) : batch[q].plan[i].ref = f.move
  <2>1. Of(q, batch[q].ext) \subseteq job[q].got
    BY DEF Of
  <2> HIDE DEF In
  <2> QED BY <1>4, <2>1, EditsExcept DEF Arrives
<1> QED BY <1>1, <1>5 DEF Arrives, Secure, Holds

LEMMA ArrivesStep ==
  ASSUME Base, Register, Arrival, [Next]_vars, NEW q \in Syncs, pc'[q] \in {"accounts", "preview"}
  PROVE  Arrives(q)'
<1>0. /\ TypeOK /\ MergeIsOfTwo /\ IdsAreDrawnOnce /\ ShapeOf(q) /\ OneAtATime
      /\ pc[q] \in {"accounts", "preview"} => Arrives(q)
      /\ pc[q] = "preview" => SeenStands(q) /\ PlanIsSound(q)
  BY DEF Base, Shapes, Arrival, Register
<1>1. CASE Fetch(q)
  BY <1>0, <1>1, ArrivesAtFetch
<1>2. CASE PreviewStart(q)
  BY <1>0, <1>2, ArrivesAtStart DEF PreviewStart
<1>3. CASE PreviewRow(q)
  BY <1>0, <1>3, ArrivesAtRow DEF PreviewRow
<1>4. CASE Commit(q)
  BY <1>0, <1>4, ArrivesAtCommit DEF Commit
<1>5. CASE ~Fetch(q) /\ ~PreviewStart(q) /\ ~PreviewRow(q) /\ ~Commit(q)
  <2>1. /\ pc'[q] = pc[q] /\ job'[q] = job[q] /\ batch'[q] = batch[q]
        /\ Claimed(q)' = Claimed(q) /\ Acct(q)' = Acct(q)
        /\ Of(q, batch[q].ext)' = Of(q, batch[q].ext)
        /\ EditStep \/ UNCHANGED <<rows, merge, excused, cut>>
    BY <1>0, <1>5, SyncGoesOn
  <2>2. Arrives(q)
    BY <1>0, <2>1
  <2>3. CASE EditStep
    BY <1>0, <2>1, <2>2, <2>3, ArrivesAtEdit
  <2>4. CASE UNCHANGED <<rows, merge, excused, cut>>
    BY <2>1, <2>2, <2>4 DEF Arrives, Secure, Holds, Live
  <2> QED BY <2>1, <2>3, <2>4
<1> QED BY <1>1, <1>2, <1>3, <1>4, <1>5

LEMMA ArrivalStep == ASSUME Base, Register, Arrival, [Next]_vars PROVE Arrival'
<1>1. StatusesAreTheBanks'
  BY StatusesStep DEF Arrival
<1> QED BY <1>1, SeenStep, ArrivesStep DEF Arrival

LEMMA ArrivalInit == Init => Arrival
<1> SUFFICES ASSUME Init PROVE Arrival
  OBVIOUS
<1>1. Live = {}
  BY DEF Init, Live
<1> QED BY <1>1 DEF Init, Arrival, StatusesAreTheBanks, NoMerge

-----------------------------------------------------------------------------
(***************************************************************************)
(* Nothing falls out of the window                                         *)
(***************************************************************************)

LEMMA CoveredDays ==
  ASSUME OverlapCoversLateness, NEW t \in Ticks, NEW u \in Ticks, t <= u
  PROVE  /\ Day(t) \in Int /\ Day(u) \in Int /\ Drift \in Int /\ Overlap \in Int /\ Drift <= Overlap
         /\ Day(t) - Overlap <= Day(u) - Drift
         /\ u - t <= MaxLag => Day(u) - Overlap <= Day(t) - Drift
<1>1. /\ t \in Nat /\ u \in Nat /\ Day(t) \in Nat /\ Day(u) \in Nat /\ Day(t) <= Day(u)
      /\ 2 * Day(t) <= t /\ t <= 2 * Day(t) + 1 /\ 2 * Day(u) <= u /\ u <= 2 * Day(u) + 1
  BY DaysOfTicks, DaysGoOn
<1>2. Drift \in Nat /\ Overlap \in Nat /\ MaxLag \in Nat
  BY BankConstants
<1>3. /\ (MaxLag + 1) \div 2 \in Nat /\ MaxLag <= 2 * ((MaxLag + 1) \div 2)
  BY <1>2
<1> DEFINE h == (MaxLag + 1) \div 2
<1>4. h \in Nat /\ MaxLag <= 2 * h /\ Drift + h <= Overlap
  BY <1>3 DEF OverlapCoversLateness
<1> HIDE DEF h
<1>5. Drift <= Overlap
  BY <1>2, <1>4
<1>6. u - t <= MaxLag => Day(u) - Day(t) <= h
  BY <1>1, <1>2, <1>4
<1> QED BY <1>1, <1>2, <1>4, <1>5, <1>6

LEMMA EditKeepsInRegister ==
  ASSUME TypeOK, MergeIsOfTwo, EditStep, NEW m \in Moves, m \notin excused', NEW s, InRegister(m, s)
  PROVE  InRegister(m, s)'
<1>1. PICK i \in Live : rows[i].ref = m /\ rows[i].status >= s
  BY DEF InRegister
<1>2. rows'[i] = rows[i] /\ i \in Live'
  BY <1>1, EditKeepsRow
<1> QED BY <1>1, <1>2 DEF InRegister

LEMMA CommitKeepsInRegister ==
  ASSUME TypeOK, IdsAreDrawnOnce, NEW p \in Syncs, PlanIsSound(p), Commit(p),
         NEW m \in Moves, m \notin excused', NEW s, InRegister(m, s)
  PROVE  \/ InRegister(m, s)'
         \/ \E f \in Of(p, batch[p].ext) : f.move = m /\ ~(StatusOf(f.state) >= s)
<1>1. PICK k \in Live : rows[k].ref = m /\ rows[k].status >= s
  BY DEF InRegister
<1>2. Holds(k, rows[k].acct, m) /\ k \in Ids
  BY <1>1 DEF Holds, Live
<1> DEFINE a == rows[k].acct
<1>3. Holds(k, a, m)
  BY <1>2
<1> HIDE DEF a
<1>4. \A b : Holds(k, b, m) =>
        /\ Holds(k, b, m)'
        /\ \/ rows'[k].status = rows[k].status
           \/ \E f \in Of(p, batch[p].ext) : f.move = m /\ rows'[k].status = StatusOf(f.state)
  BY <1>2, CommitKeepsHolder
<1>5. /\ k \in Live' /\ rows'[k].ref = m
      /\ \/ rows'[k].status = rows[k].status
         \/ \E f \in Of(p, batch[p].ext) : f.move = m /\ rows'[k].status = StatusOf(f.state)
  BY <1>3, <1>4 DEF Holds
<1> QED BY <1>1, <1>5 DEF InRegister

\* A sync holds what it held, of movements that have changed late if at all.
LEMMA FetchedKept ==
  ASSUME NEW q \in Syncs, FetchedInTime(q),
         job'[q].got = job[q].got, job'[q].at = job[q].at, job'[q].last = job[q].last,
         job'[q].answered = job[q].answered,
         since' = since, skipped \subseteq skipped', excused \subseteq excused',
         \A f \in job[q].got : f.move \in Moves,
         \A m \in Moves : bank'[m] = bank[m] \/ bank'[m].day >= Day(job[q].at) - Drift,
         \A m \in Moves : \A s : InRegister(m, s) /\ m \notin excused' =>
           InRegister(m, s)' \/ \E f \in job[q].got : f.move = m
  PROVE  FetchedInTime(q)'
<1>1. Wanted(q)' = Wanted(q)
  BY DEF Wanted, From
<1>2. \A m \in Moves : Late(q, m)' <=> bank'[m].day >= Day(job[q].at) - Drift
  BY DEF Late
<1>3. \A f \in job[q].got : f.state = bank'[f.move].state \/ bank'[f.move].day >= Day(job[q].at) - Drift
  <2> TAKE f \in job[q].got
  <2>1. CASE bank'[f.move] = bank[f.move]
    BY <2>1 DEF FetchedInTime, Late
  <2>2. CASE bank'[f.move] # bank[f.move]
    BY <2>2
  <2> QED BY <2>1, <2>2
<1>4. ASSUME NEW m \in Moves, bank'[m].state # "none", bank'[m].day >= Wanted(q), extOf[m] \in job[q].answered,
             extOf[m] \notin skipped', m \notin excused',
             ~(bank'[m].day >= Day(job[q].at) - Drift), \A f \in job[q].got : f.move # m,
             NEW s, s = Owed(bank'[m].state)
      PROVE  InRegister(m, s)'
  <2>1. bank'[m] = bank[m]
    BY <1>4
  <2>2. InRegister(m, s)
    BY <1>4, <2>1 DEF FetchedInTime, Late, Got
  <2> QED BY <1>4, <2>2
<1> DEFINE In(m, s) == \E i \in Live' : rows'[i].ref = m /\ rows'[i].status >= s
<1>5. \A m \in Moves :
        /\ bank'[m].state # "none" /\ bank'[m].day >= Wanted(q) /\ extOf[m] \in job[q].answered
        /\ extOf[m] \notin skipped' /\ m \notin excused'
        => \/ \E f \in job[q].got : f.move = m
           \/ bank'[m].day >= Day(job[q].at) - Drift \/ In(m, Owed(bank'[m].state))
  BY <1>4 DEF InRegister
<1> HIDE DEF In
<1>6. \A m \in Moves : In(m, Owed(bank'[m].state)) => InRegister(m, Owed(bank[m].state))'
  BY DEF In, InRegister, Owed, StatusOf
<1> QED BY <1>1, <1>2, <1>3, <1>5, <1>6 DEF FetchedInTime, Got

LEMMA FetchIsInTime ==
  ASSUME Base, OneAtATime, WindowIsPassed, NEW q \in Syncs, Fetch(q)
  PROVE  FetchedInTime(q)'
<1>0. /\ TypeOK /\ UNCHANGED <<rows, merge, excused, cut, bank, conn, since, skipped>>
      /\ bank \in [Moves -> [state : {"none", "pending", "booked"}, day : Days]]
  BY OthersKeep DEF Base, Shapes, TypeOK, Fetch, bankVars, ghosts
<1>1. Active(q) /\ job[q].last = conn.last
  BY DEF Fetch, Active, OneAtATime
<1> PICK ok \in SUBSET Linked(q) :
        /\ job'[q].answered = ok /\ job'[q].at = job[q].at /\ job'[q].last = job[q].last
        /\ job'[q].got = UNION {Answer(q, e) : e \in ok}
  BY <1>0, FetchOfAll
<1>2. \A f \in job'[q].got : f.state = bank[f.move].state
  BY AnswersAreOfMoves
<1>3. Wanted(q)' = Wanted(q)
  BY <1>0 DEF Wanted, From
<1>4. ASSUME NEW m \in Moves, bank[m].state # "none", bank[m].day >= Wanted(q), extOf[m] \in ok,
             extOf[m] \notin skipped, m \notin excused
      PROVE  (\E f \in job'[q].got : f.move = m) \/ InRegister(m, Owed(bank[m].state))
  <2>1. CASE bank[m].day >= From(job[q].last, job[q].at)
    <3>1. [move |-> m, state |-> bank[m].state, day |-> bank[m].day] \in Answer(q, extOf[m])
      BY <1>4, <2>1 DEF Answer
    <3>2. [move |-> m, state |-> bank[m].state, day |-> bank[m].day] \in job'[q].got
      BY <1>4, <3>1
    <3> QED BY <3>2
  <2>2. CASE ~(bank[m].day >= From(job[q].last, job[q].at))
    <3>1. job[q].last # Never
      BY <1>4, <2>2 DEF Wanted, From
    <3>2. From(job[q].last, job[q].at) = Day(conn.last) - Overlap /\ Wanted(q) = since
      BY <1>1, <3>1 DEF From, Wanted
    <3> QED BY <1>1, <1>4, <2>2, <3>1, <3>2 DEF WindowIsPassed
  <2> QED BY <2>1, <2>2
<1>5. \A m \in Moves : InRegister(m, Owed(bank[m].state)) => InRegister(m, Owed(bank[m].state))'
  BY <1>0 DEF InRegister, Live
<1> QED BY <1>0, <1>2, <1>3, <1>4, <1>5 DEF FetchedInTime, Got

\* What the bank shows or books is at most Drift days back.
LEMMA BankIsLate ==
  ASSUME Base, [Next]_vars, NEW m \in Moves
  PROVE  bank'[m] = bank[m] \/ (Bank /\ bank'[m].day \in Int /\ bank'[m].day >= Day(clock) - Drift)
<1>0. /\ TypeOK /\ clock \in Ticks
      /\ bank \in [Moves -> [state : {"none", "pending", "booked"}, day : Days]]
  BY DEF Base, Shapes, TypeOK
<1>1. CASE Bank
  <2> PICK n \in Moves : Appear(n) \/ Book(n)
    BY <1>1 DEF Bank
  <2>1. PICK s \in {"pending", "booked"}, d \in (Day(clock) - Drift) .. Day(clock) :
          bank' = [bank EXCEPT ![n] = [state |-> s, day |-> d]]
    BY DEF Appear, Book
  <2>2. Day(clock) \in Int /\ Drift \in Int
    BY <1>0, DaysOfTicks, BankConstants
  <2> QED BY <1>0, <1>1, <2>1, <2>2
<1>2. CASE EditStep \/ Setting \/ Tick \/ SyncDue \/ UNCHANGED vars
  <2>1. bank' = bank
    BY <1>2, EditsKeep DEF Setting, Link, SetAutoSync, Tick, SyncDue, vars, bankVars
  <2> QED BY <2>1
<1>3. \A p \in Syncs : Sync(p) => bank' = bank
  BY <1>0, OneMoves
<1> QED BY <1>1, <1>2, <1>3, Steps DEF Sync, Over

LEMMA FetchedStep ==
  ASSUME OverlapCoversLateness, Base, Register, Arrival, WindowMovesOn, [Next]_vars,
         NEW q \in Syncs, pc'[q] \in {"accounts", "preview"}
  PROVE  FetchedInTime(q)'
<1>0. /\ TypeOK /\ MergeIsOfTwo /\ IdsAreDrawnOnce /\ ShapeOf(q) /\ OneAtATime /\ clock \in Ticks
      /\ pc[q] = "preview" => PlanIsSound(q)
      /\ pc[q] \in {"accounts", "preview"} => FetchedInTime(q)
      /\ job[q] \in Job
  BY DEF Base, Shapes, Register, WindowMovesOn, TypeOK
<1>1. CASE Fetch(q)
  BY <1>0, <1>1, FetchIsInTime DEF WindowMovesOn
<1>2. CASE ~Fetch(q)
  <2>1. /\ pc[q] \in {"accounts", "preview"}
        /\ job'[q].got = job[q].got /\ job'[q].at = job[q].at /\ job'[q].last = job[q].last
        /\ job'[q].answered = job[q].answered
        /\ EditStep \/ Commit(q) \/ UNCHANGED <<rows, merge, excused, cut>>
    <3>1. CASE PreviewStart(q) \/ PreviewRow(q)
      BY <3>1, OthersKeep DEF PreviewStart, PreviewRow
    <3>2. CASE Commit(q)
      <4>1. job'[q] = [job[q] EXCEPT !.todo = @ \ {batch[q].ext}]
        BY <1>0, <3>2 DEF Commit, TypeOK
      <4> QED BY <1>0, <3>2, <4>1 DEF Commit, Job
    <3>3. CASE ~PreviewStart(q) /\ ~PreviewRow(q) /\ ~Commit(q)
      BY <1>0, <1>2, <3>3, SyncGoesOn
    <3> QED BY <3>1, <3>2, <3>3
  <2>2. Active(q)
    BY <2>1 DEF Active
  <2>3. \A p \in Syncs : Touch(p) => p = q
    BY <1>0, <2>2 DEF OneAtATime, Touch, Active
  <2>4. ~Touch(q)
    BY <1>0 DEF Touch, TypeOK
  <2>5. since' = since /\ skipped \subseteq skipped'
    <3>1. CASE EditStep \/ Setting \/ Tick \/ Bank \/ SyncDue \/ UNCHANGED vars
      BY <3>1, EditsKeep DEF Setting, Link, SetAutoSync, Tick, Bank, Appear, Book, SyncDue, vars, ghosts
    <3>2. ASSUME NEW p \in Syncs,
                 Load(p) \/ Fetch(p) \/ PreviewStart(p) \/ PreviewRow(p) \/ Commit(p) \/ Over(p)
          PROVE  since' = since /\ skipped \subseteq skipped'
      BY <3>2 DEF Load, Fetch, PreviewStart, PreviewRow, Commit, Over, FetchFails, Abort, Ended, ghosts
    <3> QED BY <2>3, <2>4, <3>1, <3>2, Steps
  <2>6. excused \subseteq excused'
    BY <2>1, EditsExcept DEF Commit
  <2>7. \A m \in Moves : bank'[m] = bank[m] \/ bank'[m].day >= Day(job[q].at) - Drift
    <3>1. /\ job[q].at \in Ticks /\ job[q].at <= clock
      BY <1>0, <2>2 DEF ShapeOf
    <3>2. Day(job[q].at) \in Int /\ Day(clock) \in Int /\ Day(job[q].at) <= Day(clock) /\ Drift \in Int
      BY <1>0, <3>1, DaysOfTicks, DaysGoOn, BankConstants
    <3> QED BY <3>2, BankIsLate
  <2>8. ASSUME NEW m \in Moves, NEW s, InRegister(m, s), m \notin excused'
        PROVE  InRegister(m, s)' \/ \E f \in job[q].got : f.move = m
    <3>1. CASE EditStep
      BY <1>0, <2>8, <3>1, EditKeepsInRegister
    <3>2. CASE Commit(q)
      <4>1. PlanIsSound(q)
        BY <1>0, <3>2 DEF Commit
      <4>2. \/ InRegister(m, s)'
            \/ \E f \in Of(q, batch[q].ext) : f.move = m /\ ~(StatusOf(f.state) >= s)
        BY <1>0, <2>8, <3>2, <4>1, CommitKeepsInRegister
      <4> QED BY <4>2 DEF Of
    <3>3. CASE UNCHANGED <<rows, merge, excused, cut>>
      BY <2>8, <3>3 DEF InRegister, Live
    <3> QED BY <2>1, <3>1, <3>2, <3>3
  <2>9. \A f \in job[q].got : f.move \in Moves
    BY <1>0 DEF Job, Fetched
  <2>10. FetchedInTime(q)
    BY <1>0, <2>1
  <2> QED BY <2>1, <2>5, <2>6, <2>7, <2>8, <2>9, <2>10, FetchedKept
<1> QED BY <1>1, <1>2

\* The window stands where nothing it is about has changed but for the better.
LEMMA WindowKept ==
  ASSUME WindowIsPassed, conn'.last = conn.last, since' = since, skipped \subseteq skipped', excused \subseteq excused',
         \A m \in Moves : bank'[m] = bank[m] \/ bank'[m].day >= Day(conn.last) - Overlap,
         conn.last # Never =>
           \A m \in Moves : m \notin excused' /\ InRegister(m, Owed(bank[m].state)) =>
             InRegister(m, Owed(bank[m].state))' \/ bank[m].day >= Day(conn.last) - Overlap
             \/ bank'[m] # bank[m]
  PROVE  WindowIsPassed'
<1> SUFFICES ASSUME conn.last # Never, NEW m \in Moves, bank'[m].state # "none", bank'[m].day >= since,
                    extOf[m] \notin skipped', m \notin excused',
                    ~(bank'[m].day >= Day(conn.last) - Overlap)
             PROVE  InRegister(m, Owed(bank[m].state))'
  BY DEF WindowIsPassed
<1>1. bank'[m] = bank[m]
  OBVIOUS
<1>2. InRegister(m, Owed(bank[m].state))
  BY <1>1 DEF WindowIsPassed
<1> QED BY <1>1, <1>2

\* The state of the bank under a prime is the state it had, where it has not changed.
LEMMA InRegisterKept ==
  ASSUME NEW m \in Moves, bank'[m] = bank[m], NEW s, s = Owed(bank[m].state), InRegister(m, s)'
  PROVE  InRegister(m, Owed(bank[m].state))'
BY DEF InRegister, Owed, StatusOf

LEMMA TouchMovesOn ==
  ASSUME OverlapCoversLateness, Base, Register, Arrival, WindowMovesOn, NEW p \in Syncs, Touch(p)
  PROVE  WindowIsPassed'
<1>0. /\ TypeOK /\ ShapeOf(p) /\ OneAtATime /\ Arrives(p) /\ FetchedInTime(p) /\ WindowIsPassed
      /\ conn \in [last : Ticks \cup {Never}, auto : BOOLEAN]
      /\ bank \in [Moves -> [state : {"none", "pending", "booked"}, day : Days]]
      /\ UNCHANGED <<rows, merge, excused, cut, bank, clock>> /\ clock \in Ticks
      /\ pc[p] = "accounts" /\ job[p].todo = {}
  BY OthersKeep DEF Base, Shapes, Register, Arrival, WindowMovesOn, TypeOK, Touch, bankVars
<1>1. /\ Active(p) /\ job[p].last = conn.last /\ job[p].at \in Ticks /\ job[p].at <= clock
      /\ clock - job[p].at <= MaxLag
  BY <1>0 DEF Active, ShapeOf, OneAtATime
<1>2. CASE job[p].answered = {}
  <2>1. UNCHANGED <<conn, since, skipped>>
    BY <1>2 DEF Touch
  <2> QED BY <1>0, <2>1 DEF WindowIsPassed, InRegister, Live
<1>3. CASE job[p].answered # {}
  <2>1. /\ conn'.last = clock /\ skipped' = skipped \cup (Exts \ job[p].answered)
        /\ since' = Wanted(p)
    BY <1>0, <1>1, <1>3 DEF Touch, Wanted
  <2>2. /\ Day(clock) \in Int /\ Day(job[p].at) \in Int /\ Drift \in Int /\ Overlap \in Int
        /\ Day(clock) - Overlap <= Day(job[p].at) - Drift
    BY <1>0, <1>1, CoveredDays
  <2>3. ASSUME NEW m \in Moves, bank[m].state # "none", bank[m].day >= Wanted(p),
               extOf[m] \notin skipped', m \notin excused
        PROVE  bank[m].day >= Day(clock) - Overlap \/ InRegister(m, Owed(bank[m].state))
    <3>1. extOf[m] \in Got(p) /\ extOf[m] \notin skipped
      BY <2>1, <2>3, BankConstants DEF Got
    <3>2. CASE Late(p, m)
      <4>1. bank[m].day \in Int
        BY <1>0 DEF Days
      <4> QED BY <2>2, <3>2, <4>1 DEF Late
    <3>3. ASSUME NEW f \in job[p].got, f.move = m, ~Late(p, m)
          PROVE  InRegister(m, Owed(bank[m].state))
      <4>1. f.state = bank[m].state
        BY <1>0, <3>3 DEF FetchedInTime
      <4>2. Secure(m, job[p].links[extOf[m]], Owed(bank[m].state))
        BY <1>0, <2>3, <3>3, <4>1 DEF Arrives
      <4> QED BY <4>2 DEF Secure, Holds, InRegister
    <3> QED BY <1>0, <2>3, <3>1, <3>2, <3>3 DEF FetchedInTime
  <2>4. \A m \in Moves : InRegister(m, Owed(bank[m].state)) => InRegister(m, Owed(bank[m].state))'
    BY <1>0 DEF InRegister, Live
  <2> QED BY <1>0, <2>1, <2>3, <2>4 DEF WindowIsPassed
<1> QED BY <1>2, <1>3

LEMMA WindowStep ==
  ASSUME OverlapCoversLateness, Base, Register, Arrival, WindowMovesOn, [Next]_vars
  PROVE  WindowIsPassed'
<1>0. /\ TypeOK /\ MergeIsOfTwo /\ IdsAreDrawnOnce /\ WindowIsPassed /\ clock \in Ticks /\ conn.last <= clock
      /\ conn \in [last : Ticks \cup {Never}, auto : BOOLEAN]
      /\ bank \in [Moves -> [state : {"none", "pending", "booked"}, day : Days]]
      /\ \A p \in Syncs : pc[p] = "preview" => PlanIsSound(p)
  BY DEF Base, Shapes, Register, WindowMovesOn, TypeOK
<1>1. conn.last # Never => /\ Day(conn.last) \in Int /\ Day(clock) \in Int /\ Drift \in Int /\ Overlap \in Int
                           /\ Day(conn.last) - Overlap <= Day(clock) - Drift
  BY <1>0, CoveredDays
<1>2. CASE conn.last = Never /\ conn'.last = conn.last
  BY <1>2 DEF WindowIsPassed
<1>3. CASE conn.last # Never /\ ~(\E p \in Syncs : Touch(p))
  <2>1. conn'.last = conn.last /\ since' = since /\ skipped \subseteq skipped'
    <3>1. CASE EditStep \/ Setting \/ Tick \/ Bank \/ SyncDue \/ UNCHANGED vars
      BY <1>0, <3>1, EditsKeep DEF Setting, Link, SetAutoSync, Tick, Bank, Appear, Book, SyncDue, vars, ghosts
    <3>2. ASSUME NEW p \in Syncs,
                 Load(p) \/ Fetch(p) \/ PreviewStart(p) \/ PreviewRow(p) \/ Commit(p) \/ Over(p)
          PROVE  conn' = conn /\ since' = since /\ skipped \subseteq skipped'
      BY <3>2 DEF Load, Fetch, PreviewStart, PreviewRow, Commit, Over, FetchFails, Abort, Ended, ghosts
    <3> QED BY <1>3, <3>1, <3>2, Steps
  <2>2. \A m \in Moves : bank'[m] = bank[m] \/ bank'[m].day >= Day(conn.last) - Overlap
    BY <1>1, <1>3, BankIsLate
  <2>3. excused \subseteq excused'
    <3>1. EditStep => excused \subseteq excused'
      BY EditsExcept
    <3>2. \A p \in Syncs : Commit(p) => excused \subseteq excused'
      BY DEF Commit
    <3> QED BY <3>1, <3>2, Steps, OthersKeep
  <2>4. ASSUME NEW m \in Moves, m \notin excused', InRegister(m, Owed(bank[m].state)), bank'[m] = bank[m],
               NEW s, s = Owed(bank[m].state)
        PROVE  InRegister(m, s)' \/ bank[m].day >= Day(conn.last) - Overlap
    <3>1. CASE EditStep
      BY <1>0, <2>4, <3>1, EditKeepsInRegister
    <3>2. ASSUME NEW p \in Syncs, Commit(p), ~InRegister(m, s)'
          PROVE  bank[m].day >= Day(conn.last) - Overlap
      <4>1. PICK f \in Of(p, batch[p].ext) : f.move = m /\ ~(StatusOf(f.state) >= s)
        <5>1. PlanIsSound(p) /\ InRegister(m, s)
          BY <1>0, <2>4, <3>2 DEF Commit
        <5> QED BY <1>0, <2>4, <3>2, <5>1, CommitKeepsInRegister
      <4>2. /\ Active(p) /\ FetchedInTime(p) /\ ShapeOf(p) /\ job[p].last = conn.last
        BY <3>2 DEF Commit, Active, WindowMovesOn, Base, Shapes, Register, OneAtATime
      <4>3. f.state # bank[m].state
        BY <2>4, <4>1, StatusesAreOwed DEF Statuses
      <4>4. bank[m].day >= Day(job[p].at) - Drift
        BY <4>1, <4>2, <4>3 DEF FetchedInTime, Late, Of
      <4>5. job[p].at \in Ticks /\ conn.last \in Ticks /\ conn.last <= job[p].at
        BY <1>0, <1>3, <4>2 DEF ShapeOf
      <4>6. /\ Day(conn.last) \in Int /\ Day(job[p].at) \in Int /\ Drift \in Int /\ Overlap \in Int
            /\ Day(conn.last) - Overlap <= Day(job[p].at) - Drift /\ bank[m].day \in Int
        BY <1>0, <4>5, CoveredDays DEF Days
      <4> QED BY <4>4, <4>6
    <3>3. CASE UNCHANGED <<rows, merge, excused, cut>>
      BY <2>4, <3>3 DEF InRegister, Live
    <3> QED BY <3>1, <3>2, <3>3, Steps, OthersKeep
  <2>5. \A m \in Moves : m \notin excused' /\ InRegister(m, Owed(bank[m].state)) =>
          InRegister(m, Owed(bank[m].state))' \/ bank[m].day >= Day(conn.last) - Overlap
          \/ bank'[m] # bank[m]
    BY <2>4, InRegisterKept
  <2> QED BY <1>0, <2>1, <2>2, <2>3, <2>5, WindowKept
<1>4. ASSUME NEW p \in Syncs, Touch(p) PROVE WindowIsPassed'
  BY <1>4, TouchMovesOn
<1>5. ~(\E p \in Syncs : Touch(p)) => conn'.last = conn.last
  <2>1. CASE EditStep \/ Setting \/ Tick \/ Bank \/ SyncDue \/ UNCHANGED vars
    BY <1>0, <2>1, EditsKeep DEF Setting, Link, SetAutoSync, Tick, Bank, Appear, Book, SyncDue, vars
  <2>2. ASSUME NEW p \in Syncs,
               Load(p) \/ Fetch(p) \/ PreviewStart(p) \/ PreviewRow(p) \/ Commit(p) \/ Over(p)
        PROVE  conn' = conn
    BY <2>2 DEF Load, Fetch, PreviewStart, PreviewRow, Commit, Over, FetchFails, Abort, Ended
  <2> QED BY <2>1, <2>2, Steps
<1> QED BY <1>2, <1>3, <1>4, <1>5

-----------------------------------------------------------------------------
(***************************************************************************)
(* The theorems                                                            *)
(***************************************************************************)

\* Every variable of a connection and its registers keeps its shape, syncs
\* overlapping or not: nothing planned, seen or merged points at what is not there.
THEOREM BankTypes == Spec => []TypeOK
<1>1. Base => TypeOK
  BY DEF Base, Shapes
<1> QED BY <1>1, BaseInit, BaseStep, PTL DEF Spec

\* The background job reaches the bank at most once in each day's slot (SyncDue and
\* TouchBankConnectionSync), whatever presses of the button, slow syncs, failures
\* and edits come between, and though nothing keeps two syncs apart.
THEOREM TheJobSyncsOnceADay == Spec => []OneAutomaticSyncADay
<1>1. Base => OneAutomaticSyncADay
  BY DEF Base, Shapes, TypeOK, Slots, OneAutomaticSyncADay
<1> QED BY <1>1, BaseInit, BaseStep, PTL DEF Spec

\* Where syncs of the connection do not overlap, no movement of the bank has two rows
\* in a register (the refs and the claims of ImportPreview, the commit, Merge), but
\* for those a merge has not finished with.
THEOREM NoMovementTwice == ASSUME Serial PROVE Spec => []OneRowPerMovement
<1>1. Base /\ Register => OneRowPerMovement
  <2> SUFFICES ASSUME Base, Register, NEW i \in Live, NEW j \in Live, i # j, rows[i].ref \in Moves,
                      rows[i].ref = rows[j].ref, rows[i].acct = rows[j].acct
               PROVE  rows[i].ref \in cut \/ (merge.copied /\ rows[i].ref = merge.ref)
    BY DEF OneRowPerMovement
  <2>1. i \in Ids /\ j \in Ids /\ rows[i].acct \in Accounts
    BY LiveRows DEF Base, Shapes, Row
  <2>2. Holds(i, rows[i].acct, rows[i].ref) /\ Holds(j, rows[i].acct, rows[i].ref)
    BY DEF Holds
  <2> QED BY <2>1, <2>2 DEF Register, Unique, Sole, Copied
<1>2. Init => Base /\ Register
  BY BaseInit, RegisterInit
<1>3. Base /\ Register /\ [Next]_vars => (Base /\ Register)'
  BY BaseStep, RegisterStep
<1> QED BY <1>1, <1>2, <1>3, PTL DEF Spec

\* Where syncs of the connection do not overlap, what the bank reported is in the
\* register when the sync has been through its accounts, settled as the bank says
\* (ImportPreview's matching and the commit), but for what a person has edited since.
THEOREM WhatWasFetchedArrives == ASSUME Serial PROVE Spec => []RegisterHasWhatWasFetched
<1> DEFINE I == Base /\ Register /\ Arrival
<1>1. I => RegisterHasWhatWasFetched
  <2> SUFFICES ASSUME I, NEW p \in Syncs, pc[p] = "accounts", job[p].todo = {}, NEW f \in job[p].got,
                      f.move \notin excused
               PROVE  \E i \in Live : /\ rows[i].ref = f.move
                                      /\ rows[i].acct = job[p].links[extOf[f.move]]
                                      /\ rows[i].status >= Owed(f.state)
    BY DEF RegisterHasWhatWasFetched
  <2>1. Secure(f.move, job[p].links[extOf[f.move]], Owed(f.state))
    BY DEF Arrival, Arrives
  <2> QED BY <2>1 DEF Secure, Holds
<1>2. Init => I
  BY BaseInit, RegisterInit, ArrivalInit
<1>3. I /\ [Next]_vars => I'
  BY BaseStep, RegisterStep, ArrivalStep
<1> QED BY <1>1, <1>2, <1>3, PTL DEF Spec

\* Where syncs do not overlap and the overlap outlasts the bank's delay and a sync's
\* own time (resyncOverlapDays is seven days), moving last_synced_at on skips nothing:
\* what the next sync will not ask for any more is in a register.
THEOREM TheWindowSkipsNothing ==
  ASSUME Serial, OverlapCoversLateness PROVE Spec => []NothingFallsOutOfTheWindow
<1> DEFINE I == Base /\ Register /\ Arrival /\ WindowMovesOn
<1>1. I => NothingFallsOutOfTheWindow
  <2> SUFFICES ASSUME I, conn.last # Never, NEW m \in Moves, bank[m].state # "none", bank[m].day >= since,
                      bank[m].day < From(conn.last, clock), extOf[m] \notin skipped, m \notin excused
               PROVE  \E i \in Live : rows[i].ref = m /\ rows[i].status >= Owed(bank[m].state)
    BY DEF NothingFallsOutOfTheWindow
  <2>1. /\ bank[m].day \in Int /\ Overlap \in Int /\ conn.last \in Ticks
    BY BankConstants DEF Base, Shapes, TypeOK, Days
  <2>2. Day(conn.last) \in Int
    BY <2>1, DaysOfTicks
  <2>3. bank[m].day < Day(conn.last) - Overlap
    BY DEF From
  <2>4. InRegister(m, Owed(bank[m].state))
    BY <2>1, <2>2, <2>3 DEF WindowMovesOn, WindowIsPassed
  <2> QED BY <2>4 DEF InRegister
<1>2. Init => I
  <2>1. Init => WindowMovesOn
    BY DEF Init, WindowMovesOn, WindowIsPassed
  <2> QED BY <2>1, BaseInit, RegisterInit, ArrivalInit
<1>3. I /\ [Next]_vars => I'
  <2> SUFFICES ASSUME I, [Next]_vars PROVE I'
    OBVIOUS
  <2>1. WindowIsPassed'
    BY WindowStep
  <2>2. \A q \in Syncs : pc'[q] \in {"accounts", "preview"} => FetchedInTime(q)'
    BY FetchedStep
  <2>3. WindowMovesOn'
    BY <2>1, <2>2 DEF WindowMovesOn
  <2> QED BY <2>3, BaseStep, RegisterStep, ArrivalStep
<1> QED BY <1>1, <1>2, <1>3, PTL DEF Spec
=============================================================================
