--------------------------------- MODULE Entry ---------------------------------
(***************************************************************************)
(* The sheet a transaction is entered in (web: TransactionForm.tsx): one   *)
(* component that stays mounted, seeded each time it opens; a save and the *)
(* helpers that fill fields (rules, AI, "create" in a list) are requests   *)
(* whose answers find whatever the sheet holds by then.                    *)
(*                                                                         *)
(* External: the server's rows, as create and update leave them, and the   *)
(* helpers' answers (Offers).                                              *)
(***************************************************************************)
EXTENDS Naturals, Sequences, FiniteSets, SequencesExt

CONSTANTS
  Stored,       \* the account's rows: a sequence of forms
  Templates,    \* the templates there are: a sequence of forms
  Offers,       \* helper -> the answers it may give
  Payees, Categories, Memos, Tags,   \* what a field may hold
  Accounts,     \* the accounts an entry may land in; Home is the register's
  Home,
  Dates,
  Today,
  DateDefault,  \* preferences.entryDefaults.date: "today" or "last"
  Typing,       \* field -> the values the reader types
  MaxTyped, MaxOpens, MaxSaves, MaxAsks, MaxFaults,   \* bounds
  None          \* no value

VARIABLES
  entry,     \* the sheet: None, or what it holds
  book,      \* the server's rows
  stencils,  \* the templates
  sending,   \* the save in flight, or None
  asked,     \* helpers in flight: what each saw when it was asked
  lastDate,  \* localStorage: the date of the last new entry
  crossed,   \* filled, or opened again, while a save was in flight
  spent      \* how often each bounded thing happened

vars == <<entry, book, stencils, sending, asked, lastDate, crossed, spent>>

Count(what, bound) ==
  /\ spent[what] < bound
  /\ spent' = [spent EXCEPT ![what] = @ + 1]

----------------------------------------------------------------------------
(* What a sheet starts from. *)

\* The date of a new entry: today, or the one last saved when there is one.
StartDate == IF DateDefault = "last" /\ lastDate # None THEN lastDate ELSE Today

Forms ==
  [date : Dates, direction : {"expense", "income"}, amount : Nat, payee : Payees \cup {None},
   category : Categories \cup {None}, memo : Memos, tags : SUBSET Tags, isSplit : BOOLEAN,
   splits : Seq(Nat)]

Blank(date) ==
  [date |-> date, direction |-> "expense", amount |-> 0, payee |-> None,
   category |-> None, memo |-> "", tags |-> {}, isSplit |-> FALSE, splits |-> <<>>]

\* A duplicate keeps the row's own date; only its status starts afresh, and
\* a status is not modelled.
initialValues(row, date) == IF row = None THEN Blank(date) ELSE row

Sheet(kind, id, form) ==
  [kind |-> kind, id |-> id, form |-> form, baseline |-> form, account |-> Home,
   template |-> None, keep |-> FALSE, photo |-> "none", attach |-> FALSE]

\* The sheet opens on a new entry (an income's shortcut turns the sign after the
\* baseline is taken), on a row, or on a copy of one.
Open ==
  /\ entry = None
  /\ Count("opens", MaxOpens)
  /\ \/ \E d \in {"expense", "income"} :
          entry' = [Sheet("new", None, initialValues(None, StartDate)) EXCEPT !.form.direction = d]
     \/ \E id \in DOMAIN book, kind \in {"edit", "copy"} :
          entry' = Sheet(kind, IF kind = "edit" THEN id ELSE None,
                         initialValues(book[id].form, StartDate))
  /\ crossed' = (crossed \/ sending # None)
  /\ UNCHANGED <<book, stencils, sending, asked, lastDate>>

----------------------------------------------------------------------------
(* The reader's hand. *)

Fill(form) == entry' = [entry EXCEPT !.form = form]

Touch ==
  /\ entry # None
  /\ Count("typed", MaxTyped)
  /\ crossed' = (crossed \/ sending # None)
  /\ UNCHANGED <<book, stencils, sending, asked, lastDate>>

\* A field is typed in; a category is not offered while the entry is split, and
\* a sign typed before the amount turns the direction.
Type ==
  /\ Touch
  /\ \E f \in DOMAIN Typing : \E v \in Typing[f] :
       /\ f = "category" => ~entry.form.isSplit
       /\ Fill([entry.form EXCEPT ![f] = v])

TypeSplit ==
  /\ Touch
  /\ \/ Fill([entry.form EXCEPT !.isSplit = ~@])
     \/ /\ entry.form.isSplit
        /\ \/ \E a \in Typing["amount"] : Fill([entry.form EXCEPT !.splits = Append(@, a)])
           \/ \E i \in DOMAIN entry.form.splits :
                Fill([entry.form EXCEPT !.splits = RemoveAt(@, i)])

\* The account is not one of the fields the sheet compares; an existing row
\* keeps its own.
SetAccount ==
  /\ Touch
  /\ entry.kind # "edit"
  /\ \E a \in Accounts : entry' = [entry EXCEPT !.account = a]

KeepFields ==
  /\ Touch
  /\ entry.kind # "edit"
  /\ entry' = [entry EXCEPT !.keep = ~@]

\* (Mutant: the baseline moves to the template's values.)
FromTemplateBased(tpl) ==
  LET form == [stencils[tpl] EXCEPT !.date = entry.form.date]
  IN  entry' = [entry EXCEPT !.form = form, !.baseline = form, !.template = tpl]

\* A template fills every field but the date.
FromTemplate(tpl) ==
  entry' = [entry EXCEPT !.form = [stencils[tpl] EXCEPT !.date = entry.form.date],
                         !.template = tpl]

applyTemplate ==
  /\ Touch
  /\ entry.kind # "edit"
  /\ \E tpl \in DOMAIN stencils : FromTemplate(tpl)

\* A receipt's photo is taken, kept for the save or thrown away again.
Photo ==
  /\ Touch
  /\ entry.kind # "edit"
  /\ \/ /\ entry.photo = "none"
        /\ entry' = [entry EXCEPT !.photo = "taken"]
     \/ /\ entry.photo = "read"
        /\ entry' = [entry EXCEPT !.attach = ~@]
     \/ /\ entry.photo # "none"
        /\ entry' = [entry EXCEPT !.photo = "none", !.attach = FALSE]

----------------------------------------------------------------------------
(* Saving. *)

Sum(seq) == FoldSeq(LAMBDA a, b : a + b, 0, seq)

splitMismatch(form) ==
  form.isSplit /\ form.splits # <<>> /\ Sum(form.splits) # form.amount

\* What the server takes: a split entry has no category of its own and its parts
\* add up to it, any other has no parts.
AddsUp(form) ==
  /\ ~splitMismatch(form)
  /\ IF form.isSplit THEN form.category = None ELSE form.splits = <<>>

canSave ==
  /\ entry.form.amount # 0
  /\ ~splitMismatch(entry.form)
  /\ sending = None

\* What is sent: a split entry has no category of its own, any other no splits.
Body(form) ==
  [form EXCEPT !.category = IF form.isSplit THEN None ELSE @,
               !.splits = IF form.isSplit THEN @ ELSE <<>>]

submit(mode) ==
  /\ entry # None
  /\ canSave
  /\ mode = "new" => entry.kind # "edit"
  /\ Count("saves", MaxSaves)
  /\ sending' = [mode |-> mode, id |-> entry.id, form |-> Body(entry.form),
                 account |-> entry.account,
                 template |-> IF entry.kind = "edit" THEN None ELSE entry.template,
                 photo |-> entry.kind # "edit" /\ entry.attach]
  /\ UNCHANGED <<entry, book, stencils, asked, lastDate, crossed>>

\* The foot's buttons.
Press(mode) == submit(mode)

\* Enter saves and closes, Shift+Enter saves and starts another.
onEnter(shift) == submit(IF shift THEN "new" ELSE "close")

\* What the sheet holds becomes a template. What is sent is taken when asked
\* and the answer only adds to the list, so it is one step.
saveTemplate ==
  /\ entry # None
  /\ entry.form.amount # 0 \/ entry.form.isSplit
  /\ Count("asks", MaxAsks)
  /\ stencils' = Append(stencils, [Body(entry.form) EXCEPT !.date = Today])
  /\ UNCHANGED <<entry, book, sending, asked, lastDate, crossed>>

\* The fields cleared for another entry; the date stays.
resetFields(e) ==
  LET form == Blank(e.form.date)
  IN  [e EXCEPT !.form = form, !.baseline = form, !.template = None]

\* What the answer does to the sheet that is open by then: it need not be the
\* one that sent it.
Settled(e, mode) ==
  IF e = None \/ mode = "close" THEN None
  ELSE LET f == [e EXCEPT !.photo = "none", !.attach = FALSE]
       IN  IF f.keep THEN [f EXCEPT !.baseline = f.form] ELSE resetFields(f)

Commit ==
  LET row == [form |-> sending.form, account |-> sending.account,
              template |-> sending.template, photo |-> sending.photo]
  IN  book' = IF sending.id = None THEN Append(book, row)
              ELSE [book EXCEPT ![sending.id].form = sending.form]

\* The save lands. The row stands even if its photo does not attach.
Saved ==
  /\ sending # None
  /\ Commit
  /\ lastDate' = IF entry = None \/ entry.kind = "edit" THEN lastDate ELSE entry.form.date
  /\ entry' = Settled(entry, sending.mode)
  /\ sending' = None
  /\ crossed' = (crossed /\ entry' # None)
  /\ UNCHANGED <<stencils, asked, spent>>

\* It fails: the sheet stays as it is. The row may have been written, when only
\* the answer was lost.
SaveFailed ==
  /\ sending # None
  /\ Count("faults", MaxFaults)
  /\ \/ Commit /\ crossed' = (entry # None)
     \/ UNCHANGED <<book, crossed>>
  /\ sending' = None
  /\ UNCHANGED <<entry, stencils, asked, lastDate>>

----------------------------------------------------------------------------
(* Closing. *)

dirty == entry.form # entry.baseline

\* At once when nothing is unsaved, otherwise once the reader agrees.
requestClose(agreed) ==
  /\ entry # None
  /\ dirty => agreed
  /\ entry' = None
  /\ crossed' = (crossed /\ sending # None)
  /\ UNCHANGED <<book, stencils, sending, asked, lastDate, spent>>

----------------------------------------------------------------------------
(* The helpers. *)

\* A photo the model has not read.
CanRead == entry.kind # "edit" /\ entry.photo = "taken"

\* What may be asked of the sheet as it is: rules read a memo, a payee or tags
\* of an entry that is not being edited; the category needs a payee.
Askable(kind) ==
  CASE kind = "rules"    -> entry.kind # "edit"
                            /\ (entry.form.memo # "" \/ entry.form.payee # None
                                \/ entry.form.tags # {})
    [] kind = "category" -> entry.form.payee # None /\ ~entry.form.isSplit
    [] kind = "parse"    -> entry.kind # "edit"
    [] kind = "receipt"  -> CanRead
    [] kind = "create"   -> ~entry.form.isSplit

Ask(kind) ==
  /\ entry # None
  /\ Askable(kind)
  /\ Count("asks", MaxAsks)
  /\ asked' = asked \cup {[kind |-> kind, saw |-> entry.form]}
  /\ UNCHANGED <<entry, book, stencils, sending, lastDate, crossed>>

\* (Mutant: a rule's payee and category replace what was there.)
ByRulesOver(form, saw, a) ==
  [form EXCEPT !.payee = IF a.payee # None THEN a.payee ELSE @,
               !.category = IF a.category # None THEN a.category ELSE @,
               !.tags = IF a.tags \subseteq saw.tags THEN @ ELSE saw.tags \cup a.tags]

\* The first matching rule fills what was empty when it was asked.
ByRules(form, saw, a) ==
  [form EXCEPT
     !.payee = IF saw.payee = None /\ a.payee # None THEN a.payee ELSE @,
     !.category = IF ~saw.isSplit /\ saw.category = None /\ a.category # None
                    THEN a.category ELSE @,
     !.tags = IF a.tags \subseteq saw.tags THEN @ ELSE saw.tags \cup a.tags]

\* The model reads a sentence or a receipt; what it did not find stays.
applyEntry(form, a) ==
  [form EXCEPT !.amount = IF a.amount = 0 THEN @ ELSE a.amount,
               !.direction = a.direction,
               !.payee = IF a.payee = None THEN @ ELSE a.payee,
               !.category = IF a.category = None THEN @ ELSE a.category,
               !.memo = IF a.memo = "" THEN @ ELSE a.memo,
               !.tags = IF a.tags = {} THEN @ ELSE a.tags]

\* A category made in the list, or the one the server had by that name, is
\* picked when the answer comes.
Created(form, a) == [form EXCEPT !.category = a.category]

Filled(form, q, a) ==
  CASE q.kind = "rules"               -> ByRules(form, q.saw, a)
    [] q.kind \in {"parse", "receipt"} -> applyEntry(form, a)
    [] OTHER                           -> Created(form, a)

\* An answer fills the sheet, if one is open; an error or an empty answer fills
\* nothing.
Answered ==
  \E q \in asked :
    /\ asked' = asked \ {q}
    /\ \/ UNCHANGED entry
       \/ /\ entry # None
          /\ \E a \in Offers[q.kind] :
               entry' = [entry EXCEPT
                           !.form = Filled(@, q, a),
                           !.photo = IF q.kind = "receipt" /\ @ # "none" THEN "read" ELSE @]
    /\ crossed' = (crossed \/ (sending # None /\ entry' # entry))
    /\ UNCHANGED <<book, stencils, sending, lastDate, spent>>

----------------------------------------------------------------------------
\* What a helper may answer: a rule, a pick in a list, a reading of words.
Expected ==
  LET rule    == [payee : Payees \cup {None}, category : Categories \cup {None}, tags : SUBSET Tags]
      pick    == [category : Categories \cup {None}]
      reading == [payee : Payees \cup {None}, category : Categories \cup {None}, amount : Nat,
                  direction : {"expense", "income"}, memo : Memos, tags : SUBSET Tags]
  IN  [rules |-> rule, category |-> pick, create |-> pick, parse |-> reading, receipt |-> reading]

\* The rows and the templates are ones a sheet can write, what is typed and
\* answered fits its field.
EntryConstants ==
  /\ Home \in Accounts /\ Today \in Dates /\ "" \in Memos
  /\ Stored \in Seq(Forms) /\ \A i \in DOMAIN Stored : AddsUp(Stored[i])
  /\ Templates \in Seq(Forms)
  /\ "amount" \in DOMAIN Typing /\ DOMAIN Typing \subseteq DOMAIN Blank(Today)
  /\ \A f \in DOMAIN Typing : \A v \in Typing[f] : [Blank(Today) EXCEPT ![f] = v] \in Forms
  /\ \A k \in DOMAIN Offers : k \in DOMAIN Expected /\ Offers[k] \subseteq Expected[k]

Init ==
  /\ entry = None
  /\ book = [ i \in DOMAIN Stored |->
                [form |-> Stored[i], account |-> Home, template |-> None, photo |-> FALSE] ]
  /\ stencils = Templates
  /\ sending = None
  /\ asked = {}
  /\ lastDate = None
  /\ crossed = FALSE
  /\ spent = [ w \in {"typed", "opens", "saves", "asks", "faults"} |-> 0 ]

Next ==
  \/ Open
  \/ Type
  \/ TypeSplit
  \/ SetAccount
  \/ KeepFields
  \/ applyTemplate
  \/ Photo
  \/ \E mode \in {"close", "new"} : Press(mode)
  \/ \E shift \in BOOLEAN : onEnter(shift)
  \/ saveTemplate
  \/ Saved
  \/ SaveFailed
  \/ \E agreed \in BOOLEAN : requestClose(agreed)
  \/ \E kind \in DOMAIN Offers : Ask(kind)
  \/ Answered

Spec == Init /\ [][Next]_vars

----------------------------------------------------------------------------
(* Properties. *)

\* Every entry the sheet, the save in flight and the server hold is one the
\* sheet can write: no split entry carries a category of its own, and its parts
\* add up to it.
TypeOK ==
  /\ entry # None => entry.form \in Forms /\ entry.baseline \in Forms
  /\ \A i \in DOMAIN book :
       book[i].form \in Forms /\ AddsUp(book[i].form) /\ book[i].account \in Accounts
  /\ lastDate \in Dates \cup {None}

\* A sheet that may close without asking holds nothing the server does not have:
\* a new entry is blank or as last saved, an edited row reads as it was opened or
\* written. Only what was typed, or opened, while a save was in flight escapes.
QuietSheetHasNothingUnsaved ==
  (entry # None /\ ~dirty /\ ~crossed)
    => \/ entry.form \in { Blank(d) : d \in Dates }
       \/ \E i \in DOMAIN book : Body(entry.form) = Body(book[i].form)

\* A rule's suggestion never replaces a payee or a category that was chosen
\* before it was asked for, nor takes a tag away that it was shown.
SparesWhatItSaw ==
  \A q \in asked \ asked' :
    (q.kind = "rules" /\ entry # None) =>
      /\ entry'.form.payee # entry.form.payee => q.saw.payee = None
      /\ entry'.form.category # entry.form.category => q.saw.category = None
      /\ q.saw.tags \cap entry.form.tags \subseteq entry'.form.tags

================================================================================
