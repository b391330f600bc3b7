-------------------------------- MODULE Ledger --------------------------------
(***************************************************************************)
(* The register of a wallet: transactions, the transfers that pair two of  *)
(* them (transfer/service.go), and the requests that delete and merge them *)
(* (transaction/service.go, review.go, review_mail.go). What a row says is *)
(* left out, but for where it came from: its ref.                          *)
(*                                                                         *)
(* What makes it hard: a transfer is two rows and a third that pairs them, *)
(* and no constraint of the database keeps the legs together.  Delete      *)
(* reads the pair first and deletes in a later transaction; a merge and a  *)
(* bulk delete are several such steps; other requests, and the deletion of *)
(* a whole account, come in between, and a request may stop anywhere.      *)
(***************************************************************************)
EXTENDS Naturals, FiniteSets

CONSTANTS
  Accounts,  \* account ids
  Ids,       \* transaction ids; AUTOINCREMENT never gives one twice
  Handlers,  \* concurrent requests
  MaxBulk    \* bound: rows one bulk delete names

\* import_ref: empty, the bank's, or that of the mail the row was read from.
Refs == {"none", "bank", "mail"}
Pair == [from : Ids, to : Ids]

VARIABLES
  accounts,   \* the accounts that exist
  register,   \* the rows of the transactions table, by id: their ref
  home,       \* the account of every row ever inserted: no statement moves one
  transfers,  \* the rows of the transfers table
  made,       \* every pair ever inserted in it
  pc,         \* where each request is
  todo,       \* rows it has yet to delete
  doomed,     \* rows it read it has to delete together
  held,       \* the kept row of a merge, and the ref it had or is to have
  asked       \* rows someone asked to delete

tables == <<accounts, register, home, transfers, made>>
calls  == <<pc, todo, doomed, held>>
vars   == <<tables, calls, asked>>

Steps == {"idle",      \* no request
          "pair",      \* Delete, before it reads the pair
          "rows",      \* Delete, before the rows go
          "drop",      \* Merge, before it reads the row to drop
          "inherit",   \* Merge, before the kept row gets the ref
          "fold"}      \* MergeMail, before its transaction

Live == DOMAIN register
Used == DOMAIN home
NoHeld == [id |-> {}, ref |-> "none"]

\* GetTransferByTransaction: the legs paired with a row.
Twin(id) == { i \in Ids : \E t \in transfers : {i, id} = {t.from, t.to} }

Init ==
  /\ accounts = Accounts
  /\ register = [i \in {} |-> {}]
  /\ home = [i \in {} |-> {}]
  /\ transfers = {} /\ made = {}
  /\ pc = [h \in Handlers |-> "idle"]
  /\ todo = [h \in Handlers |-> {}]
  /\ doomed = [h \in Handlers |-> {}]
  /\ held = [h \in Handlers |-> NoHeld]
  /\ asked = {}

-----------------------------------------------------------------------------
(* Statements. *)

\* Rows are inserted in an account that exists, under ids never used.
Insert(new, ref, acct) ==
  /\ new \cap Used = {} /\ \A i \in new : acct[i] \in accounts
  /\ register' = [i \in Live \cup new |-> IF i \in new THEN ref ELSE register[i]]
  /\ home' = [i \in Used \cup new |-> IF i \in new THEN acct[i] ELSE home[i]]

\* DELETE FROM transactions: the transfers of the rows cascade away.
Remove(gone) ==
  /\ register' = [i \in Live \ gone |-> register[i]]
  /\ transfers' = { t \in transfers : {t.from, t.to} \cap gone = {} }
  /\ UNCHANGED <<home, made>>

\* The request goes to `step`, with these rows left.
Goto(h, step, left, together, kept) ==
  /\ pc' = [pc EXCEPT ![h] = step]
  /\ todo' = [todo EXCEPT ![h] = left]
  /\ doomed' = [doomed EXCEPT ![h] = together]
  /\ held' = [held EXCEPT ![h] = kept]

Done(h) == Goto(h, "idle", {}, {}, NoHeld)

-----------------------------------------------------------------------------
(* Entering. *)

\* A row entered by hand, posted by a schedule, imported, or read from a mail.
Create(id, a, ref) ==
  /\ Insert({id}, ref, [i \in {id} |-> a])
  /\ UNCHANGED <<accounts, transfers, made, calls, asked>>

\* Both legs and their pair, in one transaction. A request's transfer is
\* between two accounts; a schedule's, not validated, may stay within one.
CreateTransfer(from, to, a, b) ==
  /\ from # to
  /\ Insert({from, to}, "none", [i \in {from, to} |-> IF i = from THEN a ELSE b])
  /\ transfers' = transfers \cup {[from |-> from, to |-> to]}
  /\ made' = made \cup {[from |-> from, to |-> to]}
  /\ UNCHANGED <<accounts, calls, asked>>

-----------------------------------------------------------------------------
(* Deleting. *)

\* The DELETE of one transaction, or BulkDelete's check of every id.
AskDelete(h, ids) ==
  /\ pc[h] = "idle"
  /\ ids # {} /\ ids \subseteq Live
  /\ Goto(h, "pair", ids, {}, NoHeld)
  /\ asked' = asked \cup ids
  /\ UNCHANGED tables

\* Mutant: a delete that does not look for the other leg.
ReadPairNot(h) ==
  /\ pc[h] = "pair"
  /\ \E id \in todo[h] : Goto(h, "rows", todo[h] \ {id}, {id}, NoHeld)
  /\ UNCHANGED <<tables, asked>>

\* Delete of one row of those left (a bulk delete takes them in the order the
\* request has them): is it a leg? A row gone by now is not.
ReadPair(h) ==
  /\ pc[h] = "pair"
  /\ \E id \in todo[h] :
       Goto(h, "rows", todo[h] \ {id}, {id} \cup Twin(id), NoHeld)
  /\ UNCHANGED <<tables, asked>>

\* The row, or both legs in one transaction.
DeleteRows(h) ==
  /\ pc[h] = "rows"
  /\ Remove(doomed[h])
  /\ IF todo[h] = {} THEN Done(h) ELSE Goto(h, "pair", todo[h], {}, NoHeld)
  /\ UNCHANGED <<accounts, asked>>

\* Delete of a transfer reads it and both legs, and deletes them likewise.
AskDeleteTransfer(h, t) ==
  /\ pc[h] = "idle"
  /\ t \in transfers
  /\ Goto(h, "rows", {}, {t.from, t.to}, NoHeld)
  /\ asked' = asked \cup {t.from, t.to}
  /\ UNCHANGED tables

\* ON DELETE CASCADE: the rows of the account, and the transfers they were in.
\* Nothing deletes the legs in the other accounts.
DeleteAccount(a) ==
  /\ a \in accounts
  /\ accounts' = accounts \ {a}
  /\ Remove({ i \in Live : home[i] = a })
  /\ UNCHANGED <<calls, asked>>

-----------------------------------------------------------------------------
(* The review inbox. *)

\* Merge reads the row to keep...
AskMerge(h, keep, drop) ==
  /\ pc[h] = "idle"
  /\ keep # drop /\ keep \in Live /\ drop \in Used
  /\ Goto(h, "drop", {drop}, {}, [id |-> {keep}, ref |-> register[keep]])
  /\ UNCHANGED <<tables, asked>>

\* Mutant: the merge deletes the row it was to keep when nothing is inherited.
MergeReadSwapped(h) ==
  /\ pc[h] = "drop"
  /\ \E drop \in todo[h] :
       IF drop \notin Live
         THEN Done(h) /\ UNCHANGED asked
         ELSE /\ Goto(h, "pair", held[h].id, {}, NoHeld)
              /\ asked' = asked \cup {drop}
  /\ UNCHANGED tables

\* ... and the row to drop, and decides whether the kept one inherits its ref.
MergeRead(h) ==
  /\ pc[h] = "drop"
  /\ \E drop \in todo[h] :
       IF drop \notin Live
         THEN Done(h) /\ UNCHANGED asked
         ELSE /\ IF held[h].ref = "none" /\ register[drop] # "none"
                   THEN Goto(h, "inherit", {drop}, {},
                             [id |-> held[h].id, ref |-> register[drop]])
                   ELSE Goto(h, "pair", {drop}, {}, NoHeld)
              /\ asked' = asked \cup {drop}
  /\ UNCHANGED tables

\* SetTransactionImportRef, of the kept row if it is still there. Then Delete.
Inherit(h) ==
  /\ pc[h] = "inherit"
  /\ register' = [i \in Live |-> IF i \in held[h].id THEN held[h].ref ELSE register[i]]
  /\ Goto(h, "pair", todo[h], {}, NoHeld)
  /\ UNCHANGED <<accounts, home, transfers, made, asked>>

\* MergeMail reads both rows: one of a mail, one of the bank, in one account.
AskMergeMail(h, mail, bank) ==
  /\ pc[h] = "idle"
  /\ {mail, bank} \subseteq Live
  /\ register[mail] = "mail" /\ register[bank] = "bank"
  /\ home[mail] = home[bank]
  /\ Goto(h, "fold", {mail}, {}, [id |-> {bank}, ref |-> "bank"])
  /\ asked' = asked \cup {mail}
  /\ UNCHANGED tables

\* Its transaction moves what the mail said, and the mails, to the bank row.
\* If that row is gone, mails that should point at it fail the transaction.
Fold(h) ==
  /\ pc[h] = "fold"
  /\ \/ Goto(h, "pair", todo[h], {}, NoHeld)
     \/ held[h].id \cap Live = {} /\ Done(h)
  /\ UNCHANGED <<tables, asked>>

\* A request ends early wherever it is: the caller left, the database refused,
\* the server stopped.
Abort(h) ==
  /\ pc[h] # "idle"
  /\ Done(h)
  /\ UNCHANGED <<tables, asked>>

-----------------------------------------------------------------------------
Entering ==
  \/ \E id \in Ids, a \in Accounts, ref \in Refs : Create(id, a, ref)
  \/ \E from, to \in Ids, a, b \in Accounts : CreateTransfer(from, to, a, b)

Deleting(h) ==
  \/ \E ids \in SUBSET Ids : Cardinality(ids) <= MaxBulk /\ AskDelete(h, ids)
  \/ ReadPair(h) \/ DeleteRows(h)
  \/ \E t \in Pair : AskDeleteTransfer(h, t)

Merging(h) ==
  \/ \E keep, drop \in Ids : AskMerge(h, keep, drop)
  \/ MergeRead(h) \/ Inherit(h)
  \/ \E mail, bank \in Ids : AskMergeMail(h, mail, bank)
  \/ Fold(h)

Next ==
  \/ Entering
  \/ \E h \in Handlers : Deleting(h) \/ Merging(h) \/ Abort(h)
  \/ \E a \in Accounts : DeleteAccount(a)

Spec == Init /\ [][Next]_vars

-----------------------------------------------------------------------------
(* Properties. *)

\* Every variable keeps its type: a transfer is of two rows that are there (its
\* foreign keys), and requests name rows that were inserted.
TypeOK ==
  /\ accounts \subseteq Accounts
  /\ Live \subseteq Used /\ Used \subseteq Ids
  /\ register \in [Live -> Refs]
  /\ home \in [Used -> Accounts]
  /\ transfers \subseteq made /\ made \subseteq Pair
  /\ \A t \in transfers : {t.from, t.to} \subseteq Live
  /\ pc \in [Handlers -> Steps]
  /\ todo \in [Handlers -> SUBSET Used]
  /\ doomed \in [Handlers -> SUBSET Used]
  /\ held \in [Handlers -> [id : SUBSET Ids, ref : Refs]]
  /\ asked \subseteq Used

\* No orphan legs are ever left behind (transaction/service.go:848-850,
\* migrations/0006_transfers.sql): as long as the accounts of a transfer exist
\* its legs are both in the register, paired, or both gone, whatever requests
\* overlap and wherever they stop.
NoOrphanLegs ==
  \A t \in made :
    {home[t.from], home[t.to]} \subseteq accounts =>
      \/ {t.from, t.to} \subseteq Live /\ t \in transfers
      \/ {t.from, t.to} \cap Live = {} /\ t \notin transfers

\* Someone asked for the row, or for the other leg of its transfer.
Wanted(i) ==
  \/ i \in asked
  \/ \E t \in made : i \in {t.from, t.to} /\ {t.from, t.to} \cap asked # {}

\* A row leaves the register only because someone asked for it, or for the
\* other leg of its transfer, or deleted its account: no request deletes by a
\* pairing that is another row's.
OnlyAskedGoes ==
  \A i \in Used \ Live : home[i] \in accounts => Wanted(i)

\* Why they hold. Pairs share no row, and a pair is in the table as long as
\* both its rows are in the register.
Paired ==
  /\ \A t \in made : t.from # t.to /\ {t.from, t.to} \subseteq Used
  /\ \A s, t \in made : {s.from, s.to} \cap {t.from, t.to} # {} => s = t
  /\ \A t \in made : {t.from, t.to} \subseteq Live => t \in transfers
  /\ \A i \in Live : home[i] \in accounts

\* What a request read of a pair stays right for as long as the pair exists:
\* it is about to delete both legs of it or neither.
Together ==
  \A h \in Handlers, t \in transfers : t.from \in doomed[h] <=> t.to \in doomed[h]

Meant ==
  \A h \in Handlers :
    /\ pc[h] # "drop" => todo[h] \subseteq asked
    /\ \A i \in doomed[h] : Wanted(i)

\* The inductive invariant: a pair read outside the transaction that deletes
\* it (transaction/service.go:854) is never out of date in a way that matters,
\* because pairs are made with their rows and never changed.
LedgerInv == TypeOK /\ Paired /\ Together /\ Meant /\ NoOrphanLegs /\ OnlyAskedGoes
=============================================================================
