------------------------------ MODULE BankSync ------------------------------
(***************************************************************************)
(* One bank connection and the registers it feeds: banksync/service.go      *)
(* (SyncDue, syncAndRecord, syncOnce, commitRows), the matching and the      *)
(* commit of importio/service.go, and what people do to the same registers   *)
(* and the same connection meanwhile (transaction/review.go's Merge among    *)
(* it).  "auto" is the background job, "manual" a press of "Sync now"; no    *)
(* lock keeps them apart, and Serial is the assumption that they never       *)
(* overlap.  The clock counts half days: an odd tick is past the hour at     *)
(* which the connection is to sync, an even one before it.                   *)
(***************************************************************************)
EXTENDS Integers, FiniteSets

CONSTANTS
  Moves,          \* what happens on the person's accounts at the bank
  Exts,           \* the accounts of the connection, as the bank names them
  Accounts,       \* the accounts of the wallet
  extOf,          \* on which of them each movement happens
  amountOf,       \* its amount
  Ids,            \* the ids rows may get (AUTOINCREMENT: none is used twice)
  Free, Gone,     \* what an id stands for before its row and after it
                  \* (in a plan, Free is an id nothing is planned for)
  Overlap,        \* resyncOverlapDays
  Lookback,       \* firstSyncLookbackDays
  Window,         \* bankReconcileWindowDays
  SyncDays,       \* the days on which the connection is to sync by itself
  PendingStatus,  \* the status the provider's pending rows are given ...
  BookedStatus,   \* ... and that of its booked rows
  Partial,        \* the provider's accounts fail one by one (not SimpleFIN's)
  Drift,          \* how late, in days, the bank shows a movement
  MaxLag,         \* how long, in half days, a sync may take
  Serial,         \* no sync of the connection starts while another runs
  LastTick, MaxEdits, MaxAborts   \* bounds

NoRef  == "by hand"     \* import_ref = ''
MailRef == "mail"       \* import_ref LIKE 'mail:%'
NoAccount == "no account"
Never == -1
Reconciled == 2         \* transaction.StatusReconciled
Statuses == 0..2
Syncs == {"auto", "manual"}
Day(t) == t \div 2
Ticks == 0..LastTick
Days == (-Drift)..(Day(LastTick) + 1)
Refs == Moves \cup {NoRef, MailRef}
Row == [acct: Accounts, ref: Refs, amount: {amountOf[m] : m \in Moves}, day: Days, status: Statuses]

\* The shapes of what a sync holds.
Fetched == [move : Moves, state : {"pending", "booked"}, day : Days]
Found   == [ref : Refs, id : Ids, status : Statuses]
Planned == [ref : Moves, acct : Accounts, amount : {amountOf[m] : m \in Moves}, day : Days,
            status : Statuses, new : BOOLEAN]
Job == [slot : 0..Day(LastTick) \cup {Never}, at : Ticks \cup {Never}, last : Ticks \cup {Never},
        links : [Exts -> Accounts \cup {NoAccount}],
        answered : SUBSET Exts, got : SUBSET Fetched, todo : SUBSET Exts]
Batch == [ext : Exts \cup {NoAccount}, seen : SUBSET Found, left : SUBSET Fetched,
          plan : [Ids -> Planned \cup {Free}]]
Merge == [at : {"none", "ref", "delete"}, keep : Ids \cup {0}, drop : Ids \cup {0}, ref : Refs,
          copied : BOOLEAN]

\* What the constants are: every provider's booked rows get at least the status of
\* its pending ones.
ASSUME BankConstants ==
  /\ extOf \in [Moves -> Exts]
  /\ {Overlap, Lookback, Window, Drift, MaxLag, LastTick, MaxEdits, MaxAborts} \subseteq Nat
  /\ PendingStatus \in Statuses /\ BookedStatus \in Statuses /\ PendingStatus <= BookedStatus
  /\ Partial \in BOOLEAN /\ Serial \in BOOLEAN
  /\ NoRef \notin Moves /\ MailRef \notin Moves /\ NoAccount \notin Accounts \cup Exts
  /\ Free # Gone /\ {Free, Gone} \cap Row = {} /\ Free \notin Planned

VARIABLES
  clock,
  bank,     \* the bank's own books: state and date of each movement
  rows,     \* the transactions table
  links,    \* bank_links: where each account of the bank goes
  conn,     \* bank_connections: last_synced_at, auto_sync
  pc,       \* where each of the two syncs is
  job,      \* what it read at its start and fetched
  batch,    \* the preview of the account it is at
  merge,    \* the merge of two rows a person has under way
  edits, aborts,
  \* history: what the properties count, and what they make exceptions of
  runs,     \* how many automatic syncs that reached the bank each slot has had
  since,    \* the first day the first sync asked for: what is older is not wanted
  skipped,  \* accounts passed over by a sync that moved the window on
  excused,  \* movements whose row a person took away, restated or edited under a sync
  cut       \* refs that an unfinished or overtaken merge left on two rows

bankVars  == <<clock, bank>>
syncVars  == <<pc, job, batch>>
editVars  == <<merge, edits>>
ghosts    == <<runs, since, skipped, excused, cut>>
vars == <<bankVars, rows, links, conn, syncVars, editVars, aborts, ghosts>>

Live == {i \in Ids : rows[i] \notin {Free, Gone}}
NoJob == [slot |-> Never, at |-> Never, last |-> Never, links |-> [e \in Exts |-> NoAccount],
          answered |-> {}, got |-> {}, todo |-> {}]
NoBatch == [ext |-> NoAccount, seen |-> {}, left |-> {}, plan |-> [i \in Ids |-> Free]]
NoMerge == [at |-> "none", keep |-> 0, drop |-> 0, ref |-> NoRef, copied |-> FALSE]

StatusOf(state) == IF state = "booked" THEN BookedStatus ELSE PendingStatus
\* The least status of the row of a movement: a row already there is only ever
\* settled up to reconciled, so short of it that of a pending one will do.
Owed(state) == IF StatusOf(state) >= Reconciled THEN StatusOf(state) ELSE PendingStatus
\* No overlap: the window starts on the day of the last sync.
FromLast(last, now) == IF last = Never THEN Day(now) - Lookback ELSE Day(last)

\* The first day the next sync of a connection synced at last asks for.
From(last, now) == IF last = Never THEN Day(now) - Lookback ELSE Day(last) - Overlap
\* No bank booking stands behind the row yet.
bankless(ref) == ref \in {NoRef, MailRef}

Init ==
  /\ clock = 0
  /\ bank = [m \in Moves |-> [state |-> "none", day |-> 0]]
  /\ rows = [i \in Ids |-> Free]
  /\ links \in [Exts -> Accounts]
  /\ conn = [last |-> Never, auto |-> TRUE]
  /\ pc = [p \in Syncs |-> "idle"]
  /\ job = [p \in Syncs |-> NoJob]
  /\ batch = [p \in Syncs |-> NoBatch]
  /\ merge = NoMerge
  /\ edits = 0 /\ aborts = 0
  /\ runs = [d \in 0..Day(LastTick) |-> 0] /\ since = -Drift
  /\ skipped = {} /\ excused = {} /\ cut = {}

----------------------------------------------------------------------------
(* The bank and the clock.                                                   *)

\* Half a day goes by; no sync takes longer than MaxLag.
Tick ==
  /\ clock < LastTick
  /\ \A p \in Syncs : job[p].at # Never => clock - job[p].at < MaxLag
  /\ clock' = clock + 1
  /\ UNCHANGED <<bank, rows, links, conn, syncVars, editVars, aborts, ghosts>>

\* A movement appears at the bank, pending or booked, dated up to Drift days back.
Appear(m) ==
  /\ bank[m].state = "none"
  /\ \E s \in {"pending", "booked"}, d \in (Day(clock) - Drift)..Day(clock) :
       bank' = [bank EXCEPT ![m] = [state |-> s, day |-> d]]
  /\ UNCHANGED <<clock, rows, links, conn, syncVars, editVars, aborts, ghosts>>

\* A pending movement is booked, under its date or the booking's.
Book(m) ==
  /\ bank[m].state = "pending"
  /\ \E d \in ((Day(clock) - Drift)..Day(clock)) :
       /\ d >= bank[m].day
       /\ bank' = [bank EXCEPT ![m] = [state |-> "booked", day |-> d]]
  /\ UNCHANGED <<clock, rows, links, conn, syncVars, editVars, aborts, ghosts>>

----------------------------------------------------------------------------
(* A sync.                                                                   *)

\* The last sync is not looked at.
scheduleDueAlways == Day(clock) \in SyncDays /\ clock % 2 = 1

\* The scheduled hour of an enabled day has come, and the connection has not
\* been synced since.
scheduleDue ==
  /\ Day(clock) \in SyncDays
  /\ clock % 2 = 1
  /\ conn.last < clock

\* SyncDue lists the connection among those due now.
SyncDue ==
  /\ pc["auto"] = "idle"
  /\ conn.auto /\ scheduleDue
  /\ pc' = [pc EXCEPT !["auto"] = "due"]
  /\ job' = [job EXCEPT !["auto"].slot = Day(clock)]
  /\ UNCHANGED <<bankVars, rows, links, conn, batch, editVars, aborts, ghosts>>

\* The connection and its links are read.
Load(p) ==
  /\ pc[p] = IF p = "auto" THEN "due" ELSE "idle"
  /\ Serial => \A q \in Syncs : pc[q] \in {"idle", "due"}
  /\ job' = [job EXCEPT ![p] = [@ EXCEPT !.at = clock, !.last = conn.last, !.links = links]]
  /\ pc' = [pc EXCEPT ![p] = "fetch"]
  /\ UNCHANGED <<bankVars, rows, links, conn, batch, editVars, aborts, ghosts>>

Linked(p) == {e \in Exts : job[p].links[e] # NoAccount}

\* What the bank answers for one account, from the day asked for.
Answer(p, e) ==
  {[move |-> m, state |-> bank[m].state, day |-> bank[m].day] :
     m \in {n \in Moves : /\ extOf[n] = e
                          /\ bank[n].state # "none"
                          /\ bank[n].day >= From(job[p].last, job[p].at)}}

\* The bank answers for the accounts that do not fail.
Fetch(p) ==
  /\ pc[p] = "fetch"
  /\ \E ok \in SUBSET Linked(p) :
       /\ Partial \/ ok = Linked(p)
       /\ job' = [job EXCEPT ![p] =
            [@ EXCEPT !.answered = ok,
                      !.got  = UNION {Answer(p, e) : e \in ok},
                      !.todo = {e \in ok : Answer(p, e) # {}}]]
  /\ pc' = [pc EXCEPT ![p] = "accounts"]
  /\ UNCHANGED <<bankVars, rows, links, conn, batch, editVars, aborts, ghosts>>

Of(p, e) == {f \in job[p].got : extOf[f.move] = e}

\* The preview of one account begins with the refs of its rows.
PreviewStart(p) ==
  /\ pc[p] = "accounts"
  /\ \E e \in job[p].todo :
       LET acct == job[p].links[e] IN
       batch' = [batch EXCEPT ![p] =
         [NoBatch EXCEPT !.ext = e, !.left = Of(p, e),
          !.seen = {[ref |-> rows[i].ref, id |-> i, status |-> rows[i].status] :
                      i \in {j \in Live : rows[j].acct = acct /\ rows[j].ref # NoRef}}]]
  /\ pc' = [pc EXCEPT ![p] = "preview"]
  /\ UNCHANGED <<bankVars, rows, links, conn, job, editVars, aborts, ghosts>>

Acct(p) == job[p].links[batch[p].ext]
\* A pending row is not known again once it is booked.
SeenInState(p, f) == {x \in batch[p].seen : x.ref = f.move /\ x.status = StatusOf(f.state)}

SeenAs(p, f) == {x \in batch[p].seen : x.ref = f.move}
Claimed(p) == {i \in Ids : batch[p].plan[i] # Free}   \* matchedIDs, and the ids of the new rows

\* A row may be claimed twice in one batch.
CandidatesTwice(p, f) ==
  {i \in Live : /\ rows[i].acct = Acct(p) /\ rows[i].amount = amountOf[f.move]
                /\ rows[i].day \in (f.day - Window)..(f.day + Window)
                /\ bankless(rows[i].ref)}

\* Rows entered by hand or from a mail that may be the movement f.
Candidates(p, f) ==
  {i \in Live \ Claimed(p) :
     /\ rows[i].acct = Acct(p) /\ rows[i].amount = amountOf[f.move]
     /\ rows[i].day \in (f.day - Window)..(f.day + Window)
     /\ bankless(rows[i].ref)}

\* An id for a new row, that neither a row nor a plan has.
FreshIds == {i \in Ids : rows[i] = Free /\ \A q \in Syncs : i \notin Claimed(q)}
Fresh == CHOOSE i \in FreshIds : TRUE

Entry(p, f, isNew) ==
  [ref |-> f.move, acct |-> Acct(p), amount |-> amountOf[f.move], day |-> f.day,
   status |-> StatusOf(f.state), new |-> isNew]
Plan(p, f, id, isNew) == [batch[p].plan EXCEPT ![id] = Entry(p, f, isNew)]

\* A row already imported is left out, unless it was pending and is now booked.
Settles(p, f, x) == /\ x.status < Reconciled /\ StatusOf(f.state) >= Reconciled
                    /\ x.id \notin Claimed(p)
Match(p, f) ==
  IF SeenAs(p, f) # {}
  THEN \E x \in SeenAs(p, f) :
         batch' = [batch EXCEPT ![p] =
           [batch[p] EXCEPT !.left = @ \ {f}, !.plan = IF Settles(p, f, x) THEN Plan(p, f, x.id, FALSE) ELSE @]]
  ELSE \E i \in Ids : \E isNew \in BOOLEAN :
         /\ IF Cardinality(Candidates(p, f)) = 1     \* one candidate: merged into it
            THEN i \in Candidates(p, f) /\ ~isNew
            ELSE FreshIds # {} /\ i = Fresh /\ isNew
         /\ batch' = [batch EXCEPT ![p] = [batch[p] EXCEPT !.left = @ \ {f}, !.plan = Plan(p, f, i, isNew)]]

PreviewRow(p) ==
  /\ pc[p] = "preview"
  /\ \E f \in batch[p].left : Match(p, f)
  /\ UNCHANGED <<bankVars, rows, links, conn, pc, job, editVars, aborts, ghosts>>

\* What the commit makes of the row with id i: UPDATE touches no deleted row.
Written(i, w) ==
  IF w.new THEN [acct |-> w.acct, ref |-> w.ref, amount |-> w.amount, day |-> w.day, status |-> w.status]
  ELSE IF i \in Live THEN [rows[i] EXCEPT !.ref = w.ref, !.day = w.day, !.status = w.status]
  ELSE rows[i]

\* Updates that a person's edit since the preview has made wrong: the row is
\* gone, or stands for another movement by now.
Overtaken(p) ==
  {i \in Claimed(p) : /\ ~batch[p].plan[i].new
                      /\ i \in Live => rows[i].ref \in Moves /\ rows[i].ref # batch[p].plan[i].ref}

\* The planned rows are written in one transaction.
Commit(p) ==
  LET plan == batch[p].plan IN
  /\ pc[p] = "preview" /\ batch[p].left = {}
  /\ rows' = [i \in Ids |-> IF i \in Claimed(p) THEN Written(i, plan[i]) ELSE rows[i]]
  /\ excused' = excused \cup {plan[i].ref : i \in Overtaken(p)}
                        \cup {rows[i].ref : i \in Overtaken(p) \cap Live}
  /\ job' = [job EXCEPT ![p].todo = @ \ {batch[p].ext}]
  /\ batch' = [batch EXCEPT ![p] = NoBatch]
  /\ pc' = [pc EXCEPT ![p] = "accounts"]
  /\ UNCHANGED <<bankVars, links, conn, editVars, aborts, runs, since, skipped, cut>>

\* Every account done: the window moves on if the bank answered for one at least.
Touch(p) ==
  /\ pc[p] = "accounts" /\ job[p].todo = {}
  /\ pc' = [pc EXCEPT ![p] = "idle"]
  /\ job' = [job EXCEPT ![p] = NoJob]
  /\ IF job[p].answered = {} THEN UNCHANGED <<conn, runs, since, skipped>>
     ELSE /\ conn' = [conn EXCEPT !.last = clock]
          /\ since' = IF conn.last = Never THEN From(Never, job[p].at) ELSE since
          /\ skipped' = skipped \cup (Exts \ job[p].answered)
          /\ runs' = IF p = "auto" THEN [runs EXCEPT ![job[p].slot] = IF @ < 2 THEN @ + 1 ELSE @]
                     ELSE runs
  /\ UNCHANGED <<bankVars, rows, links, batch, editVars, aborts, excused, cut>>

Ended(p) ==
  /\ pc' = [pc EXCEPT ![p] = "idle"]
  /\ job' = [job EXCEPT ![p] = NoJob]
  /\ batch' = [batch EXCEPT ![p] = NoBatch]
  /\ UNCHANGED <<bankVars, rows, links, conn, editVars, ghosts>>

\* The whole fetch fails: the credentials, the consent, the network.
FetchFails(p) == pc[p] = "fetch" /\ Ended(p) /\ UNCHANGED aborts

\* The preview or the commit of an account fails and is rolled back, or the
\* process stops, or the request is given up: the sync ends there.
Abort(p) ==
  /\ pc[p] \notin {"idle", "fetch"}
  /\ aborts < MaxAborts /\ aborts' = aborts + 1
  /\ Ended(p)

----------------------------------------------------------------------------
(* What people do meanwhile, one at a time.                                  *)

Edit == edits < MaxEdits /\ merge = NoMerge /\ edits' = edits + 1
MovesOf(ids) == {rows[i].ref : i \in ids} \cap Moves

\* A transaction is entered by hand, or read from a bank's mail, under today's
\* date or one somewhat off.
AddRow(a, m, ref) ==
  /\ Edit
  /\ \E i \in FreshIds : \E d \in {Day(clock), Day(clock) + 1} :
       /\ i = Fresh
       /\ rows' = [rows EXCEPT ![i] = [acct |-> a, ref |-> ref, amount |-> amountOf[m],
                                       day |-> d, status |-> 0]]
  /\ UNCHANGED <<bankVars, links, conn, syncVars, merge, aborts, ghosts>>

DeleteRow(i) ==
  /\ Edit /\ i \in Live
  /\ rows' = [rows EXCEPT ![i] = Gone]
  /\ excused' = excused \cup MovesOf({i})
  /\ UNCHANGED <<bankVars, links, conn, syncVars, merge, aborts, runs, since, skipped, cut>>

\* The inline toggle of the register.
SetStatus(i, s) ==
  /\ Edit /\ i \in Live /\ s # rows[i].status
  /\ rows' = [rows EXCEPT ![i].status = s]
  /\ excused' = excused \cup MovesOf({i})
  /\ UNCHANGED <<bankVars, links, conn, syncVars, merge, aborts, runs, since, skipped, cut>>

\* Merge reads a pair of likely duplicates: one account, one amount.
MergeRead(k, d) ==
  /\ Edit /\ {k, d} \subseteq Live /\ k # d
  /\ rows[k].acct = rows[d].acct /\ rows[k].amount = rows[d].amount
  /\ merge' = [NoMerge EXCEPT !.keep = k, !.drop = d, !.ref = rows[d].ref,
       !.at = IF rows[k].ref = NoRef /\ rows[d].ref # NoRef THEN "ref" ELSE "delete"]
  /\ UNCHANGED <<bankVars, rows, links, conn, syncVars, aborts, ghosts>>

\* The kept row inherits the ref.
MergeRef ==
  LET k == merge.keep  d == merge.drop IN
  /\ merge.at = "ref"
  /\ merge' = [merge EXCEPT !.at = "delete", !.copied = TRUE]
  /\ rows' = IF k \in Live THEN [rows EXCEPT ![k].ref = merge.ref] ELSE rows
  /\ excused' = excused \cup MovesOf({k} \cap Live)
  /\ cut' = IF rows[d].ref = merge.ref THEN cut ELSE cut \cup {merge.ref}
  /\ UNCHANGED <<bankVars, links, conn, syncVars, edits, aborts, runs, since, skipped>>

\* The dropped row is deleted.
MergeDelete ==
  /\ merge.at = "delete"
  /\ rows' = [rows EXCEPT ![merge.drop] = Gone]
  /\ excused' = excused \cup MovesOf({merge.drop} \cap Live)
  /\ merge' = NoMerge
  /\ UNCHANGED <<bankVars, links, conn, syncVars, edits, aborts, runs, since, skipped, cut>>

\* The merge ends between its two statements.
MergeAbort ==
  /\ merge.at # "none" /\ aborts < MaxAborts
  /\ aborts' = aborts + 1
  /\ merge' = NoMerge
  /\ cut' = IF merge.copied THEN cut \cup {merge.ref} ELSE cut
  /\ UNCHANGED <<bankVars, rows, links, conn, syncVars, edits, runs, since, skipped, excused>>

\* An account of the bank is linked to another account of the wallet, or to none.
Link(e, a) ==
  /\ Edit /\ a # links[e]
  /\ links' = [links EXCEPT ![e] = a]
  /\ skipped' = skipped \cup {e}
  /\ UNCHANGED <<bankVars, rows, conn, syncVars, merge, aborts, runs, since, excused, cut>>

SetAutoSync ==
  /\ Edit
  /\ conn' = [conn EXCEPT !.auto = ~@]
  /\ UNCHANGED <<bankVars, rows, links, syncVars, merge, aborts, ghosts>>

----------------------------------------------------------------------------
Bank == \E m \in Moves : Appear(m) \/ Book(m)
Sync(p) == \/ Load(p) \/ Fetch(p) \/ PreviewStart(p) \/ PreviewRow(p)
           \/ Commit(p) \/ Touch(p) \/ FetchFails(p) \/ Abort(p)
Editing == \/ \E a \in Accounts, m \in Moves, ref \in {NoRef, MailRef} : AddRow(a, m, ref)
           \/ \E i \in Ids : DeleteRow(i) \/ \E s \in Statuses : SetStatus(i, s)
           \/ \E k, d \in Ids : MergeRead(k, d)
           \/ \E e \in Exts, a \in Accounts \cup {NoAccount} : Link(e, a)
           \/ SetAutoSync
Merging == MergeRef \/ MergeDelete \/ MergeAbort

Next == Tick \/ Bank \/ SyncDue \/ (\E p \in Syncs : Sync(p)) \/ Editing \/ Merging
Spec == Init /\ [][Next]_vars

----------------------------------------------------------------------------
(* What must hold.                                                           *)

\* Every variable keeps its shape: the table, the links, the two syncs' progress.
TypeOK ==
  /\ clock \in Ticks
  /\ bank \in [Moves -> [state : {"none", "pending", "booked"}, day : Days]]
  /\ rows \in [Ids -> Row \cup {Free, Gone}]
  /\ links \in [Exts -> Accounts \cup {NoAccount}]
  /\ conn \in [last : Ticks \cup {Never}, auto : BOOLEAN]
  /\ pc \in [Syncs -> {"idle", "due", "fetch", "accounts", "preview"}]
  /\ job \in [Syncs -> Job]
  /\ batch \in [Syncs -> Batch]
  /\ merge \in Merge
  /\ edits \in 0..MaxEdits /\ aborts \in 0..MaxAborts
  /\ runs \in [0..Day(LastTick) -> 0..2] /\ since \in Int
  /\ skipped \subseteq Exts /\ excused \subseteq Moves /\ cut \subseteq Moves \cup {MailRef}

\* No movement of the bank stands twice in a register, however often it is
\* fetched, pending and booked, and whatever is entered, merged and deleted
\* meanwhile (docs/bank-sync.md: "Re-syncing only imports new transactions").
\* A merge has the ref on both rows until it deletes one; if it stops there,
\* or the table moved under it, they stay.
OneRowPerMovement ==
  \A i, j \in Live :
    (i # j /\ rows[i].ref \in Moves /\ rows[i].ref = rows[j].ref /\ rows[i].acct = rows[j].acct)
      => rows[i].ref \in cut \/ (merge.copied /\ rows[i].ref = merge.ref)

\* When a sync ends, each movement the bank reported is in the register it is
\* linked to, with the status the bank's word calls for: none was lost to
\* another of the same amount, and a pending one that is booked is settled up,
\* where booked means reconciled (docs/bank-sync.md: "settled up to reconciled
\* instead of duplicated").
RegisterHasWhatWasFetched ==
  \A p \in Syncs : pc[p] = "accounts" /\ job[p].todo = {} =>
    \A f \in job[p].got :
      f.move \in excused \/
      \E i \in Live : /\ rows[i].ref = f.move /\ rows[i].acct = job[p].links[extOf[f.move]]
                      /\ rows[i].status >= Owed(f.state)

\* What the next sync will no longer ask for is in a register, with its last
\* status: moving last_synced_at on skips nothing, across slow, failed, late
\* and aborted syncs.  Accounts passed over by a partial sync, and those
\* linked later, are the exception the code makes, and so is what was too old
\* for the first sync.
NothingFallsOutOfTheWindow ==
  conn.last # Never =>
    \A m \in Moves :
      bank[m].state # "none" /\ bank[m].day >= since /\ bank[m].day < From(conn.last, clock)
        /\ extOf[m] \notin skipped /\ m \notin excused
      => \E i \in Live : rows[i].ref = m /\ rows[i].status >= Owed(bank[m].state)

\* The job reaches the bank at most once on a scheduled day, with presses of
\* "Sync now", aborted and overnight syncs between (docs/bank-sync.md: "A
\* connection syncs at most once per scheduled day").
OneAutomaticSyncADay == \A d \in DOMAIN runs : runs[d] <= 1
=============================================================================
