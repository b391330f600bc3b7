------------------------------- MODULE Review -------------------------------
(***************************************************************************)
(* The review (web: ReviewPage.tsx, ReviewNeedsCategory.tsx,                *)
(* ReviewUnconfirmed.tsx, UnusualBox.tsx; server: transaction/review.go and *)
(* review_mail.go): imported rows that need a category, filed one by one or *)
(* from proposals; suspected pairs, merged or dismissed; rows read from     *)
(* mails that the bank has not booked.                                      *)
(***************************************************************************)
EXTENDS Integers, FiniteSets, FiniteSetsExt, SequencesExt

CONSTANTS
  Imported,     \* the rows at the start: id -> [acc, amount, category, payee, ref, old]
  Coming,       \* the rows a sync brings, by id
  MailRefs,     \* the refs of rows read from mails
  Links,        \* the accounts the page is opened for, None among them
  Payees, Categories,
  Proposals,    \* what may be proposed: [id -> [categoryId, payeeId]], each
  Flags,        \* the AI's unusual rows: [kind, id, other]
  Overlap,      \* two pages at once; a sync the page has not read yet
  MaxCalls, MaxEdits,   \* bounds
  None

\* Rows are rows, a pair flagged as double is of rows there may be, a category is not none.
Ids == DOMAIN Imported \cup DOMAIN Coming
IsRow(r) == r = [acc |-> r.acc, amount |-> r.amount, category |-> r.category, payee |-> r.payee,
                 ref |-> r.ref, old |-> r.old]
AreRows(rs) == rs = [i \in DOMAIN rs |-> rs[i]] /\ \A i \in DOMAIN rs : IsRow(rs[i])
ASSUME ReviewConstants ==
  /\ AreRows(Imported) /\ AreRows(Coming)
  /\ \A f \in Flags : f.kind = "double" => {f.id, f.other} \subseteq Ids
  /\ None \notin Categories /\ Overlap \in BOOLEAN

VARIABLES
  rows, dismissed, flags,   \* the server's
  copy, stale,              \* the answer shown; it is to be read again
  onlyAccount,              \* the account the page is narrowed to
  drafts,                   \* the proposals by row, or None: [categoryId, payeeId, picked]
  form,                     \* the row open in the transaction's form
  calls, made, edits,
  let, spare, missed        \* what was asked of each row; refs dropped with their rows; pairs dismissed unseen

vars == <<rows, dismissed, flags, copy, stale, onlyAccount, drafts, form, calls, made, edits, let, spare, missed>>
server == <<rows, dismissed, flags>>
asked == <<let, spare, missed>>

(* The server's answer. *)
ids(rs) == DOMAIN rs
fromMail(r) == r.ref \in MailRefs

duplicatePairs(rs, gone) ==
  {p \in kSubset(2, ids(rs)) : \A i, j \in p : rs[i].acc = rs[j].acc /\ rs[i].amount = rs[j].amount} \ gone
ListImportedUncategorized(rs) == {i \in ids(rs) : rs[i].ref # None /\ rs[i].category = None}
\* A payment and its reversal, both read from mails.
Reversals(rs) == {p \in kSubset(2, {i \in ids(rs) : fromMail(rs[i])}) :
                    \A i, j \in p : i # j => rs[i].acc = rs[j].acc /\ rs[i].amount = -rs[j].amount /\ rs[i].amount # 0}
unconfirmed(rs) == {i \in ids(rs) : fromMail(rs[i]) /\ rs[i].old} \ (UNION Reversals(rs))
ListBankRowsNear(rs, i) == {b \in ids(rs) : rs[b].acc = rs[i].acc /\ rs[b].ref # None /\ ~fromMail(rs[b])}

Current == [rows |-> rows, dismissed |-> dismissed, flags |-> flags]
inScope(i) == onlyAccount \in {None, copy.rows[i].acc}
needs == {i \in ListImportedUncategorized(copy.rows) : inScope(i)}
dups == {p \in duplicatePairs(copy.rows, copy.dismissed) : \E i \in p : inScope(i)}
shown == IF drafts = None THEN {} ELSE needs \cap DOMAIN drafts
picked == {i \in shown : drafts[i].picked /\ drafts[i].categoryId # None}

Init == /\ rows = Imported /\ dismissed = {} /\ flags = Flags
        /\ copy = Current /\ stale = FALSE /\ onlyAccount \in Links
        /\ drafts = None /\ form = None /\ calls = {} /\ made = 0 /\ edits = 0
        /\ let = [i \in ids(Imported) |-> {<<Imported[i].category, Imported[i].payee>>}] /\ spare = {} /\ missed = {}

isPending(kind) == \E c \in calls : c.kind = kind
mutate(kind, arg) == /\ made < MaxCalls /\ made' = made + 1
                     /\ Overlap \/ (calls = {} /\ ~stale)
                     /\ calls' = calls \cup {[no |-> made', kind |-> kind, arg |-> arg, step |-> "sent", read |-> None]}
Press == UNCHANGED <<server, copy, stale, onlyAccount, drafts, form, edits>>
Edit == edits < MaxEdits /\ edits' = edits + 1 /\ UNCHANGED <<server, copy, stale, calls, made, asked>>
allAccounts == onlyAccount # None /\ Edit /\ onlyAccount' = None /\ UNCHANGED <<drafts, form>>

(* Rows that need a category. *)
propose == /\ shown = {} /\ needs # {} /\ ~isPending("propose") /\ mutate("propose", None)
           /\ Press /\ UNCHANGED asked
edit == /\ Edit /\ UNCHANGED <<onlyAccount, form>>
        /\ \E i \in shown :
             \/ \E v \in Payees : drafts' = [drafts EXCEPT ![i].payeeId = v]
             \/ \E v \in Categories : drafts' = [drafts EXCEPT ![i].categoryId = v, ![i].picked = TRUE]
             \/ drafts[i].categoryId # None /\ drafts' = [drafts EXCEPT ![i].picked = ~@]
selectAll == LET could == {i \in shown : drafts[i].categoryId # None}
             IN /\ could # {} /\ Edit /\ UNCHANGED <<onlyAccount, form>>
                /\ drafts' = [i \in DOMAIN drafts |-> IF i \in could THEN [drafts[i] EXCEPT !.picked = (picked # could)] ELSE drafts[i]]

\* What Confirm sends.
Sent == picked
Asks(i, c, p) == let' = [let EXCEPT ![i] = @ \cup {<<IF c = None THEN x[1] ELSE c, IF p = None THEN x[2] ELSE p>> : x \in @}]
confirmPicked == /\ picked # {} /\ ~isPending("confirm")
                 /\ mutate("confirm", [i \in Sent |-> drafts[i]])
                 /\ let' = [i \in DOMAIN let |-> IF i \in picked
                              THEN let[i] \cup {<<drafts[i].categoryId, IF drafts[i].payeeId = None THEN x[2] ELSE drafts[i].payeeId>> : x \in let[i]}
                              ELSE let[i]]
                 /\ Press /\ UNCHANGED <<spare, missed>>
\* A row without a proposal is filed as soon as it is picked.
save == /\ \E i \in needs \ shown :
             \/ \E v \in Categories : mutate("save", [id |-> i, category |-> v, payee |-> None]) /\ Asks(i, v, None)
             \/ \E v \in Payees : mutate("save", [id |-> i, category |-> None, payee |-> v]) /\ Asks(i, None, v)
        /\ Press /\ UNCHANGED <<spare, missed>>
openEdit == /\ form = None /\ Edit /\ UNCHANGED <<onlyAccount, drafts>>
            /\ \E i \in (UNION dups) \cap ids(rows) : form' = [id |-> i, category |-> rows[i].category, payee |-> rows[i].payee]
TransactionForm == /\ form # None /\ form' = None
                   /\ \E v \in Categories : mutate("save", [form EXCEPT !.category = v]) /\ Asks(form.id, v, form.payee)
                   /\ UNCHANGED <<server, copy, stale, onlyAccount, drafts, edits, spare, missed>>

(* Pairs. *)

\* Every pair of the wallet; narrowed to an account, those on screen.
Dismissed == [all |-> onlyAccount = None, pairs |-> dups, saw |-> dups]
comparison ==
  /\ \E p \in dups :
       \/ \E k \in p : ~isPending("merge") /\ mutate("merge", [keep |-> k, drop |-> CHOOSE d \in p : d # k])
       \/ ~isPending("dismiss") /\ mutate("dismiss", [all |-> FALSE, pairs |-> {p}, saw |-> dups])
       \/ \E k \in p : mutate("remove", {k})
  /\ Press /\ UNCHANGED asked
dismissAll == /\ dups # {} /\ ~isPending("dismiss") /\ mutate("dismiss", Dismissed)
              /\ Press /\ UNCHANGED asked
(* Rows of mails; unusual rows. *)
ReviewUnconfirmed ==
  /\ \/ \E m \in unconfirmed(copy.rows) : inScope(m) /\ \E b \in ListBankRowsNear(copy.rows, m) :
          ~isPending("mergeMail") /\ mutate("mergeMail", [mail |-> m, bank |-> b])
     \/ \E m \in unconfirmed(copy.rows) : inScope(m) /\ ~isPending("remove") /\ mutate("remove", {m})
     \/ \E p \in Reversals(copy.rows) : ~isPending("remove") /\ mutate("remove", p)
  /\ Press /\ UNCHANGED asked
UnusualBox ==
  /\ \E f \in copy.flags : ~isPending("fine") /\
       IF f.kind = "double" THEN mutate("dismiss", [all |-> FALSE, pairs |-> {{f.id, f.other}}, saw |-> dups \cup {{f.id, f.other}}])
       ELSE mutate("fine", f)
  /\ Press /\ UNCHANGED asked

(* The server's part. *)
Step(c, step, read) == calls' = (calls \ {c}) \cup {[c EXCEPT !.step = step, !.read = read]}
Screen == UNCHANGED <<copy, stale, onlyAccount, drafts, form, made, edits>>
Without(rs, gone) == Restrict(rs, ids(rs) \ gone)
\* (Mutant: the dropped row's ref is always taken.)
TakesAlways(k, d) == d.ref # None

\* A row kept takes the dropped one's ref when it has none.
Takes(k, d) == k.ref = None /\ d.ref # None
Merge(c) ==
  \/ /\ c.step = "sent" /\ {c.arg.keep, c.arg.drop} \subseteq ids(rows)
     /\ Step(c, "read", [keep |-> rows[c.arg.keep], drop |-> rows[c.arg.drop]])
     /\ UNCHANGED <<server, asked>>
  \/ /\ c.step = "read"
     /\ rows' = IF Takes(c.read.keep, c.read.drop) /\ c.arg.keep \in ids(rows)
                THEN [rows EXCEPT ![c.arg.keep].ref = c.read.drop.ref] ELSE rows
     /\ Step(c, "written", c.read)
     /\ UNCHANGED <<dismissed, flags, asked>>
  \/ /\ c.step = "written"
     /\ rows' = Without(rows, {c.arg.drop}) /\ Step(c, "ok", None)
     /\ spare' = IF c.read.keep.ref = None THEN spare ELSE spare \cup {c.read.drop.ref}
     /\ UNCHANGED <<dismissed, flags, let, missed>>
\* The bank's row takes the mail's category and payee; then the mail's row goes.
MergeMail(c) ==
  \/ /\ c.step = "sent" /\ {c.arg.mail, c.arg.bank} \subseteq ids(rows)
     /\ fromMail(rows[c.arg.mail]) /\ ~fromMail(rows[c.arg.bank])
     /\ LET m == rows[c.arg.mail] b == rows[c.arg.bank]
            to == [b EXCEPT !.category = IF m.category = None THEN @ ELSE m.category, !.payee = IF m.payee = None THEN @ ELSE m.payee]
        IN /\ rows' = [rows EXCEPT ![c.arg.bank] = to]
           /\ let' = [let EXCEPT ![c.arg.bank] = @ \cup {<<to.category, to.payee>>}]
     /\ Step(c, "written", None) /\ UNCHANGED <<dismissed, flags, spare, missed>>
  \/ /\ c.step = "written" /\ rows' = Without(rows, {c.arg.mail}) /\ Step(c, "ok", None)
     /\ spare' = spare \cup {rows[c.arg.mail].ref : x \in {c.arg.mail} \cap ids(rows)}
     /\ UNCHANGED <<dismissed, flags, let, missed>>
Dismiss(c) ==
  LET these == IF c.arg.all THEN duplicatePairs(rows, dismissed) ELSE c.arg.pairs
  IN /\ (UNION these) \subseteq ids(rows) /\ dismissed' = dismissed \cup these
     /\ missed' = missed \cup (these \ c.arg.saw) /\ Step(c, "ok", None)
     /\ flags' = {f \in flags : {f.id, f.other} \notin these}
     /\ UNCHANGED <<rows, let, spare>>
BulkDelete(c) == /\ c.arg \subseteq ids(rows) /\ rows' = Without(rows, c.arg) /\ Step(c, "ok", None)
                 /\ spare' = spare \cup {rows[i].ref : i \in c.arg}
                 /\ UNCHANGED <<dismissed, flags, let, missed>>
Given(v, old) == IF v = None THEN old ELSE v
BulkCategorize(c) ==
  /\ ids(c.arg) \subseteq ids(rows) /\ Step(c, "ok", None) /\ UNCHANGED <<dismissed, flags, asked>>
  /\ rows' = [i \in ids(rows) |-> IF i \in ids(c.arg) THEN [rows[i] EXCEPT !.category = c.arg[i].categoryId, !.payee = Given(c.arg[i].payeeId, @)]
                                  ELSE rows[i]]
BulkUpdate(c) ==
  /\ c.arg.id \in ids(rows) /\ Step(c, "ok", None) /\ UNCHANGED <<dismissed, flags, asked>>
  /\ rows' = [rows EXCEPT ![c.arg.id].category = Given(c.arg.category, @), ![c.arg.id].payee = Given(c.arg.payee, @)]
Propose(c) == \E ps \in Proposals : Step(c, "ok", ps) /\ UNCHANGED <<server, asked>>
Fine(c) == flags' = flags \ {c.arg} /\ Step(c, "ok", None) /\ UNCHANGED <<rows, dismissed, asked>>
Serve(c) ==
  /\ Screen
  /\ CASE c.kind = "merge" -> Merge(c)
       [] c.kind = "mergeMail" -> MergeMail(c)
       [] OTHER -> c.step = "sent" /\ CASE c.kind = "dismiss" -> Dismiss(c)
                                        [] c.kind = "remove" -> BulkDelete(c)
                                        [] c.kind = "confirm" -> BulkCategorize(c)
                                        [] c.kind = "save" -> BulkUpdate(c)
                                        [] c.kind = "fine" -> Fine(c)
                                        [] OTHER -> Propose(c)
\* Pairs dismissed one by one may stop half-way.
Refuse(c) == /\ c.step = "sent" /\ Step(c, "failed", None) /\ Screen /\ UNCHANGED <<rows, flags, asked>>
             /\ \E done \in IF c.kind = "dismiss" /\ ~c.arg.all THEN (SUBSET c.arg.pairs) \ {c.arg.pairs} ELSE {{}} :
                  dismissed' = dismissed \cup done

\* What an answer brings: proposals make drafts; the rows confirmed lose theirs.
Draft(p) == [categoryId |-> p.categoryId, payeeId |-> p.payeeId, picked |-> p.categoryId # None]
Answer(c) ==
  /\ c.step \in {"ok", "failed"} /\ calls' = calls \ {c}
  /\ stale' = (stale \/ (c.step = "ok" /\ c.kind # "propose"))
  /\ drafts' = IF c.step = "failed" THEN drafts
               ELSE CASE c.kind = "propose" -> [i \in DOMAIN c.read |-> Draft(c.read[i])]
                      [] c.kind = "confirm" -> Without(drafts, picked)
                      [] OTHER -> drafts
  /\ UNCHANGED <<server, copy, onlyAccount, form, made, edits, asked>>
refresh == /\ stale /\ stale' = FALSE /\ copy' = Current
           /\ UNCHANGED <<server, onlyAccount, drafts, form, calls, made, edits, asked>>
\* A sync brings a row; the page reads it when the reader comes back to it.
Sync == /\ ids(rows) \cap ids(Coming) = {} /\ ids(Coming) \cap DOMAIN let = {} /\ (Overlap \/ calls = {})
        /\ rows' = [i \in ids(rows) \cup ids(Coming) |-> IF i \in ids(rows) THEN rows[i] ELSE Coming[i]]
        /\ let' = [i \in DOMAIN let \cup ids(Coming) |-> IF i \in DOMAIN let THEN let[i] ELSE {<<Coming[i].category, Coming[i].payee>>}]
        /\ stale' = TRUE
        /\ UNCHANGED <<dismissed, flags, copy, onlyAccount, drafts, form, calls, made, edits, spare, missed>>

Next == \/ allAccounts \/ propose \/ edit \/ selectAll \/ confirmPicked \/ save \/ openEdit \/ TransactionForm
        \/ comparison \/ dismissAll \/ ReviewUnconfirmed \/ UnusualBox \/ refresh \/ Sync
        \/ \E c \in calls : Serve(c) \/ Refuse(c) \/ Answer(c)

Spec == Init /\ [][Next]_vars

----------------------------------------------------------------------------

\* Types: every row picked has a category to file it under; a dismissed pair is not offered.
TypeOK == /\ drafts # None => \A i \in DOMAIN drafts : drafts[i].picked => drafts[i].categoryId # None
          /\ dups \cap copy.dismissed = {}

\* A row's category and payee are the ones it came with or the ones the reader chose: a proposal
\* changes nothing before it is confirmed ("nothing is saved until Confirm",
\* ReviewNeedsCategory.tsx).
OnlyConfirmedIsSaved == \A i \in ids(rows) : <<rows[i].category, rows[i].payee>> \in let[i]

\* The bank's ref of a row stays on a row, so that a sync recognises it, unless the row was
\* deleted or folded into one that has a ref of its own (review.go: "so a future sync
\* recognises it and does not re-create the duplicate").
RefsKept == \A i \in ids(Imported) : Imported[i].ref \in {None} \cup spare \cup {rows[j].ref : j \in ids(rows)}

\* A pair is dismissed only if the reader saw it (ReviewPage.tsx: "all" means what the reader
\* can see).
DismissedWereSeen == missed = {}

\* However rows are filed, merged and dismissed, all three hold.
InboxKeeps == TypeOK /\ OnlyConfirmedIsSaved /\ RefsKept /\ DismissedWereSeen
=============================================================================
