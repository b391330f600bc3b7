------------------------------- MODULE Payees --------------------------------
(***************************************************************************)
(* Payees (web: PayeesPage.tsx and payees/: payeeList.ts, PayeeTable,       *)
(* PayeeSheet, PayeeCleanup, MergeModal; server: internal/payee): the list  *)
(* and its filters, a payee's sheet, merging one into another, and the AI's *)
(* cleanup: groups of payees that take one clean name at once, and the undo *)
(* of the last one.                                                         *)
(* A name is <<word, spelling>>: two spellings of a word differ in case     *)
(* only. `txns' stands for the transactions and the templates, which the    *)
(* server moves the same way.                                               *)
(***************************************************************************)
EXTENDS Integers, Sequences, FiniteSets, SequencesExt, FiniteSetsExt

CONSTANTS
  AtFirst,   \* the wallets it may start with: [payees, txns, rules, ignored, cats]
  Names,     \* what the reader types
  Offers,    \* the AI's proposals: sequences of [name, ids, rule]
  CatOf,     \* what each transaction is filed under: txn -> category or None
  MaxCalls, MaxEdits,  \* bounds
  None

VARIABLES
  wallet,        \* the server's: payees id -> [name, def, mode], txns and rules -> payee, ignored, cats
  last, next,    \* the last cleanup's undo; the next ids, never used twice
  seen, stale,   \* the page's copy; to be read again
  filter, phone, \* [word, noDefault, unusedOnly]; the phone's list
  sheet, form,   \* [open, editing]; [name, cat, mode]
  asking, merging, target,  \* payees of the open dialogs, and the payee chosen to merge into
  box,           \* the drafts of a cleanup
  call, made, edits,
  before         \* the wallet the last cleanup found, while nothing else has changed it

payeeVars == <<wallet, last, next, seen, stale, filter, phone, sheet, form, asking, merging, target, box, call, made, edits, before>>
server == <<wallet, last, next, before>>
page == <<filter, phone, sheet, form, asking, merging, target, box>>

sameName(a, b) == a[1] = b[1]
Ids(w) == DOMAIN w.payees
Without(f, id) == [x \in DOMAIN f \ {id} |-> f[x]]
Point(f, from, to) == [x \in DOMAIN f |-> IF f[x] = from THEN to ELSE f[x]]
With(f, id, v) == [x \in DOMAIN f \cup {id} |-> IF x = id THEN v ELSE f[x]]

(* The server. *)
Duplicate(w, except, name) == \E p \in Ids(w) \ {except} : sameName(w.payees[p].name, name)
\* The UNIQUE constraint compares spelling by spelling.
Taken(w, except, name) == \E p \in Ids(w) \ {except} : w.payees[p].name = name
\* What pointed at a deleted payee points at none; its ignored payments go.
DeletePayee(w, id) == [w EXCEPT !.payees = Without(@, id), !.txns = Point(@, id, None),
                                !.rules = Point(@, id, None), !.ignored = @ \ {id}]
mergeInto(w, s, t) == DeletePayee([w EXCEPT !.txns = Point(@, s, t), !.rules = Point(@, s, t),
                                            !.ignored = IF s \in @ THEN @ \cup {t} ELSE @], s)
\* The payee that already has the name: spelt so first, then in any case.
cleanupTarget(name, all) ==
  LET spelt == {p \in DOMAIN all : all[p].name = name}
      like == IF spelt = {} THEN {p \in DOMAIN all : sameName(all[p].name, name)} ELSE spelt
  IN IF like = {} THEN None ELSE CHOOSE p \in like : \A q \in like : all[p].name[2] <= all[q].name[2]
used(w, id) == Cardinality({t \in DOMAIN w.txns : w.txns[t] = id})
\* The default category of a clean payee: its own, or that of the merged payee with the most transactions.
DefaultOf(w, ids, t) ==
  LET givers == {i \in DOMAIN ids : ids[i] # t /\ w.payees[ids[i]].def # None}
  IN IF w.payees[t].def # None \/ givers = {} THEN w.payees[t].def
     ELSE w.payees[ids[CHOOSE i \in givers : \A j \in givers :
              used(w, ids[i]) > used(w, ids[j]) \/ (used(w, ids[i]) = used(w, ids[j]) /\ i <= j)]].def
PointsAt(f, id) == {x \in DOMAIN f : f[x] = id}
\* (Mutant: read when its transactions have moved already.)
mergedLate(w, id, t) == [id |-> id, target |-> t, row |-> w.payees[id], txns |-> {}, rules |-> {},
                         ignored |-> id \in w.ignored]
mergedOf(w, id, t) == [id |-> id, target |-> t, row |-> w.payees[id], txns |-> PointsAt(w.txns, id),
                       rules |-> PointsAt(w.rules, id), ignored |-> id \in w.ignored]
\* One group of a cleanup, after the groups before it; `all' is the wallet as the cleanup found it.
Clean(st, g, all) ==
  LET ids == Range(g.ids)
      found == cleanupTarget(g.name, all.payees)
      t == IF found = None THEN g.ids[1] ELSE found
      was == all.payees[t]
      name == IF t \in ids THEN g.name ELSE was.name
      def == DefaultOf(all, g.ids, t)
      fresh == was.name # name \/ was.def # def
      gone == SelectSeq(g.ids, LAMBDA id : id # t)
      named == [st.w EXCEPT !.payees[t].name = name, !.payees[t].def = def]
      moved == FoldLeft(LAMBDA w, id : mergeInto(w, id, t), named, gone)
  IN IF \/ ~st.ok \/ ids \cap st.touched # {} \/ ~(ids \subseteq Ids(all))
        \/ t \in st.touched /\ t \notin ids
        \/ fresh /\ Taken(st.w, t, name)
     THEN [st EXCEPT !.ok = FALSE]
     ELSE [ok |-> TRUE, touched |-> st.touched \cup ids \cup {t},
           w |-> IF g.rule THEN [moved EXCEPT !.rules = With(@, st.next, t)] ELSE moved,
           next |-> IF g.rule THEN st.next + 1 ELSE st.next,
           undo |-> [renamed |-> st.undo.renamed \o (IF fresh THEN <<[id |-> t, name |-> was.name, def |-> was.def]>> ELSE <<>>),
                     merged |-> st.undo.merged \o [i \in DOMAIN gone |-> mergedOf(named, gone[i], t)],
                     rules |-> st.undo.rules \cup (IF g.rule THEN {st.next} ELSE {})]]
Cleanup(w, groups) == FoldLeft(LAMBDA st, g : Clean(st, g, w),
                        [ok |-> groups # <<>>, w |-> w, touched |-> {}, next |-> next.rule,
                         undo |-> [renamed |-> <<>>, merged |-> <<>>, rules |-> {}]], groups)
\* A name or a category given back: the name must be free, the category must still be there.
Fits(w, id, row) == ~Taken(w, id, row.name) /\ row.def \in w.cats \cup {None}
RenameBack(st, r) == IF ~st.ok \/ r.id \notin Ids(st.w) THEN st
                     ELSE [ok |-> Fits(st.w, r.id, r),
                           w |-> [st.w EXCEPT !.payees[r.id].name = r.name, !.payees[r.id].def = r.def]]
\* What was moved and is still where it was moved to.
Back(f, m, moved) == [x \in DOMAIN f |-> IF x \in moved /\ f[x] = m.target THEN m.id ELSE f[x]]
BringBack(st, m) == IF ~st.ok THEN st
                    ELSE [ok |-> Fits(st.w, m.id, m.row),
                          w |-> [st.w EXCEPT !.payees = With(@, m.id, m.row), !.txns = Back(@, m, m.txns),
                                             !.rules = Back(@, m, m.rules),
                                             !.ignored = IF m.ignored THEN @ \cup {m.id} ELSE @]]
UndoCleanup(w, u) ==
  LET bare == [w EXCEPT !.rules = [x \in DOMAIN @ \ u.rules |-> @[x]]]
      named == FoldLeft(RenameBack, [ok |-> TRUE, w |-> bare], u.renamed)
  IN FoldLeft(BringBack, named, u.merged)

(* The page's list (payeeList.ts). *)
HeldOf(s, id) == PointsAt(s.txns, id)
usual(s, id, c) == Cardinality({t \in HeldOf(s, id) : CatOf[t] = c})
worthSuggesting(s, id, c) == 2 * usual(s, id, c) >= Cardinality({t \in HeldOf(s, id) : CatOf[t] # None})
buildRows(s) == [id \in Ids(s) |->
  LET likely == {c \in s.cats : usual(s, id, c) > 0 /\ worthSuggesting(s, id, c)}
  IN [count |-> Cardinality(HeldOf(s, id)), def |-> s.payees[id].def,
      suggested |-> IF s.payees[id].def = None THEN likely ELSE {}]]
isUnused(r) == r.count = 0
\* A chip that would leave nothing filters nothing.
arrange(rows) == LET none == {id \in DOMAIN rows : rows[id].def = None}
                     unused == {id \in DOMAIN rows : isUnused(rows[id])}
                 IN {id \in DOMAIN rows :
                       /\ filter.word = None \/ seen.payees[id].name[1] = filter.word
                       /\ filter.noDefault => (none = {} \/ id \in none)
                       /\ filter.unusedOnly => (unused = {} \/ id \in unused)}

Blank == [open |-> FALSE, editing |-> None]
Empty == [name |-> None, cat |-> None, mode |-> 0]
Idle == [kind |-> None, step |-> "done"]
Init == /\ wallet \in AtFirst /\ last = None /\ next = [payee |-> Max(Ids(wallet) \cup {0}) + 1, rule |-> 50]
        /\ seen = wallet /\ stale = FALSE
        /\ filter = [word |-> None, noDefault |-> FALSE, unusedOnly |-> FALSE] /\ phone \in BOOLEAN
        /\ sheet = Blank /\ form = Empty /\ asking = None /\ merging = None /\ target = None /\ box = <<>>
        /\ call = Idle /\ made = 0 /\ edits = 0 /\ before = None

rest == ~sheet.open /\ asking = None /\ merging = None
Edit == edits < MaxEdits /\ edits' = edits + 1 /\ UNCHANGED <<server, seen, stale, call, made, phone>>
\* A mutation waits for the one before it, and for the list to be read again.
mutate(kind, arg) == /\ made < MaxCalls /\ made' = made + 1 /\ call.kind = None /\ ~stale
                     /\ call' = [kind |-> kind, step |-> "sent", arg |-> arg]
                     /\ UNCHANGED <<server, seen, stale, edits>>

Filter == /\ Edit /\ rest /\ UNCHANGED <<sheet, form, asking, merging, target, box>>
          /\ filter' \in {[filter EXCEPT !.noDefault = ~@], [filter EXCEPT !.unusedOnly = ~@]}
                         \cup {[filter EXCEPT !.word = x] : x \in {n[1] : n \in Names} \cup {None}}
\* The sheet is filled as it opens, with the payee as the list had it.
Opened(p) == /\ sheet' = [open |-> TRUE, editing |-> p]
             /\ form' = IF p = None THEN Empty
                        ELSE [name |-> seen.payees[p].name, cat |-> seen.payees[p].def, mode |-> seen.payees[p].mode]
onMerge(p) == merging' = p /\ target' = None /\ sheet' = [sheet EXCEPT !.open = FALSE]
askDelete(p) == asking' = p /\ sheet' = [sheet EXCEPT !.open = FALSE]
addButton == Edit /\ rest /\ Opened(None) /\ UNCHANGED <<filter, asking, merging, target, box>>
RowMenu(p) == \/ Opened(p) /\ UNCHANGED <<asking, merging, target>>
              \/ onMerge(p) /\ UNCHANGED <<form, asking>>
              \/ askDelete(p) /\ UNCHANGED <<form, merging, target>>
PayeeTable == /\ ~phone /\ Edit /\ rest /\ UNCHANGED <<filter, box>>
              /\ \E p \in arrange(buildRows(seen)) : RowMenu(p)
PayeePhoneList == /\ phone /\ Edit /\ rest /\ UNCHANGED <<filter, asking, merging, target, box>>
                  /\ \E p \in arrange(buildRows(seen)) : Opened(p)
\* "Use it" on a row: the rest as the list has it.
adopt == /\ ~phone /\ rest /\ UNCHANGED page
         /\ \E p \in arrange(buildRows(seen)) : \E c \in buildRows(seen)[p].suggested :
              mutate("save", [id |-> p, name |-> seen.payees[p].name, cat |-> c, mode |-> seen.payees[p].mode])
PayeeSheet == /\ Edit /\ sheet.open /\ UNCHANGED <<filter, asking, merging, target, box, sheet>>
              /\ form' \in {[form EXCEPT !.name = n] : n \in Names} \cup {[form EXCEPT !.cat = c] : c \in seen.cats \cup {None}}
                           \cup {[form EXCEPT !.mode = m] : m \in 0 .. 1}
\* A menu in its head: Merge and Delete.
SheetMenu == /\ Edit /\ sheet.open /\ sheet.editing # None /\ UNCHANGED <<filter, box, form>>
             /\ \/ onMerge(sheet.editing) /\ UNCHANGED asking
                \/ askDelete(sheet.editing) /\ UNCHANGED <<merging, target>>
duplicate == Duplicate(seen, sheet.editing, form.name)
save == /\ sheet.open /\ form.name # None /\ ~duplicate /\ UNCHANGED page
        /\ mutate("save", [id |-> sheet.editing, name |-> form.name, cat |-> form.cat, mode |-> form.mode])
Close == /\ ~rest /\ sheet' = [sheet EXCEPT !.open = FALSE] /\ asking' = None /\ merging' = None
         /\ UNCHANGED <<server, seen, stale, filter, phone, form, target, box, call, made, edits>>
remove == /\ asking # None /\ mutate("remove", asking) /\ asking' = None
          /\ UNCHANGED <<filter, phone, sheet, form, merging, target, box>>
MergeModal == \/ /\ Edit /\ merging # None /\ target' \in Ids(seen) \ {merging}
                 /\ UNCHANGED <<filter, sheet, form, asking, merging, box>>
              \/ /\ merging # None /\ target # None /\ mutate("merge", [from |-> merging, to |-> target])
                 /\ UNCHANGED page

(* The cleanup: the AI's groups, each a draft the reader may change. *)
propose == /\ rest /\ box = <<>> /\ UNCHANGED page
           /\ \E o \in Offers : (\A i \in DOMAIN o : Range(o[i].ids) \subseteq Ids(wallet)) /\ mutate("propose", o)
Drafts(o) == [i \in DOMAIN o |-> [g |-> o[i], on |-> TRUE, name |-> o[i].name, off |-> {}, ruleOn |-> o[i].rule]]
GroupRow == /\ Edit /\ rest /\ box # <<>> /\ UNCHANGED <<filter, sheet, form, asking, merging, target>>
            /\ \E i \in DOMAIN box : box' \in {[box EXCEPT ![i].on = ~@], [box EXCEPT ![i].ruleOn = ~@]}
                 \cup {[box EXCEPT ![i].name = n] : n \in Names}
                 \cup {[box EXCEPT ![i].off = SymDiff(@, {p})] : p \in Range(box[i].g.ids)}
Kept(d) == SelectSeq(d.g.ids, LAMBDA p : p \notin d.off)
ready == SelectSeq(box, LAMBDA d : d.on /\ Kept(d) # <<>>)
apply == /\ rest /\ ready # <<>> /\ UNCHANGED page
         /\ mutate("apply", [i \in DOMAIN ready |-> [name |-> ready[i].name, ids |-> Kept(ready[i]), rule |-> ready[i].ruleOn]])
onCancel == /\ box # <<>> /\ box' = <<>> /\ UNCHANGED <<server, seen, stale, filter, phone, sheet, form, asking, merging, target, call, made, edits>>
PayeeCleanupBar == /\ rest /\ box = <<>> /\ last # None /\ UNCHANGED page /\ mutate("undo", None)

(* The server takes the call. *)
Settle(ok) == call' = [call EXCEPT !.step = IF ok THEN "ok" ELSE "refused"]
Create(a) == LET ok == ~Duplicate(wallet, None, a.name) /\ a.cat \in wallet.cats \cup {None} IN
  /\ Settle(ok) /\ UNCHANGED last
  /\ IF ok THEN /\ wallet' = [wallet EXCEPT !.payees = With(@, next.payee, [name |-> a.name, def |-> a.cat, mode |-> a.mode])]
                /\ next' = [next EXCEPT !.payee = @ + 1] /\ before' = None
     ELSE UNCHANGED <<wallet, next, before>>
Update(a) == LET ok == a.id \in Ids(wallet) /\ ~Duplicate(wallet, a.id, a.name) /\ a.cat \in wallet.cats \cup {None} IN
  /\ Settle(ok) /\ UNCHANGED <<last, next>>
  /\ IF ok THEN /\ wallet' = [wallet EXCEPT !.payees[a.id] = [name |-> a.name, def |-> a.cat, mode |-> a.mode]]
                /\ before' = None
     ELSE UNCHANGED <<wallet, before>>
Delete(id) == /\ Settle(id \in Ids(wallet)) /\ UNCHANGED <<last, next>>
              /\ wallet' = (IF id \in Ids(wallet) THEN DeletePayee(wallet, id) ELSE wallet)
              /\ before' = (IF id \in Ids(wallet) THEN None ELSE before)
Merge(a) == LET ok == a.from # a.to /\ {a.from, a.to} \subseteq Ids(wallet) IN
            /\ Settle(ok) /\ UNCHANGED <<last, next>>
            /\ wallet' = (IF ok THEN mergeInto(wallet, a.from, a.to) ELSE wallet)
            /\ before' = (IF ok THEN None ELSE before)
CleanUp(groups) == LET st == Cleanup(wallet, groups) IN
                   /\ Settle(st.ok)
                   /\ IF st.ok THEN wallet' = st.w /\ last' = st.undo /\ next' = [next EXCEPT !.rule = st.next] /\ before' = wallet
                      ELSE UNCHANGED server
Undo == LET st == UndoCleanup(wallet, last) IN
        IF last # None /\ st.ok THEN Settle(TRUE) /\ wallet' = st.w /\ last' = None /\ before' = None /\ UNCHANGED next
        ELSE Settle(FALSE) /\ UNCHANGED server
Serve == /\ call.step = "sent" /\ UNCHANGED <<seen, stale, page, made, edits>>
         /\ CASE call.kind = "save" -> IF call.arg.id = None THEN Create(call.arg) ELSE Update(call.arg)
              [] call.kind = "remove" -> Delete(call.arg)
              [] call.kind = "merge" -> Merge(call.arg)
              [] call.kind = "apply" -> CleanUp(call.arg)
              [] call.kind = "undo" -> Undo
              [] OTHER -> Settle(TRUE) /\ UNCHANGED server
\* A category deleted elsewhere: the defaults that name it go with it.
CategoryGone == /\ edits < MaxEdits /\ edits' = edits + 1
                /\ \E c \in wallet.cats :
                     wallet' = [wallet EXCEPT !.cats = @ \ {c},
                       !.payees = [p \in DOMAIN @ |-> IF @[p].def = c THEN [@[p] EXCEPT !.def = None] ELSE @[p]]]
                /\ before' = None /\ stale' = TRUE /\ UNCHANGED <<last, next, seen, page, call, made>>

cleaned == box' = <<>> /\ stale' = TRUE /\ UNCHANGED <<sheet, form, merging>>
Answer == /\ call.step \in {"ok", "refused"} /\ call' = Idle /\ UNCHANGED <<server, seen, filter, phone, asking, target, made, edits>>
          /\ IF call.step = "refused" THEN UNCHANGED <<stale, sheet, form, merging, box>>
             ELSE CASE call.kind = "save" -> /\ stale' = TRUE /\ sheet' = [sheet EXCEPT !.open = FALSE]
                                             /\ UNCHANGED <<form, merging, box>>
                    [] call.kind = "remove" -> stale' = TRUE /\ UNCHANGED <<sheet, form, merging, box>>
                    [] call.kind = "merge" -> stale' = TRUE /\ merging' = None /\ UNCHANGED <<sheet, form, box>>
                    [] call.kind = "propose" -> box' = Drafts(call.arg) /\ UNCHANGED <<stale, sheet, form, merging>>
                    [] OTHER -> cleaned
Refetch == /\ stale /\ seen' = wallet /\ stale' = FALSE /\ UNCHANGED <<server, page, call, made, edits>>

Next == \/ Filter \/ addButton \/ PayeeTable \/ PayeePhoneList \/ adopt \/ PayeeSheet \/ SheetMenu \/ save \/ Close
        \/ remove \/ MergeModal \/ propose \/ GroupRow \/ apply \/ onCancel \/ PayeeCleanupBar
        \/ Serve \/ CategoryGone \/ Answer \/ Refetch
Spec == Init /\ [][Next]_payeeVars

\* Every transaction and rule points at a payee there is or at none, and no two
\* payees of the wallet are spelt the same, through merges, cleanups and undos.
TypeOK == /\ \A t \in DOMAIN wallet.txns : wallet.txns[t] \in Ids(wallet) \cup {None}
          /\ \A r \in DOMAIN wallet.rules : wallet.rules[r] \in Ids(wallet) \cup {None}
          /\ wallet.ignored \subseteq Ids(wallet)
          /\ \A p \in Ids(wallet) : /\ ~Taken(wallet, p, wallet.payees[p].name) /\ p < next.payee
                                    /\ wallet.payees[p].def \in wallet.cats \cup {None}
          /\ call.step \in {"sent", "ok", "refused", "done"}

\* Of a step: a merge or a cleanup never leaves a transaction without its payee: only
\* deleting that payee does (mergeInto, UndoCleanup).
OnlyDeletingTakesAPayee ==
  \A t \in DOMAIN wallet.txns : wallet.txns[t] # None /\ wallet'.txns[t] = None
     => call.kind = "remove" /\ call.arg = wallet.txns[t]

\* Of a step: "Undo last cleanup", pressed before anything else has changed, is not
\* refused and gives the payees, their transactions and their rules back as
\* they were (cleanup.go, UndoCleanup).
Books(w) == <<w.payees, w.txns, w.rules>>
UndoGivesBack ==
  (call.kind = "undo" /\ call.step = "sent" /\ call'.step # "sent" /\ before # None)
     => call'.step = "ok" /\ Books(wallet') = Books(before)

=============================================================================
