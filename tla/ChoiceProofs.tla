---------------------------- MODULE ChoiceProofs ----------------------------
(****************************************************************************)
(* What the reader chose stays chosen.                                      *)
(*                                                                          *)
(* The review (Review, extended), for any rows, proposals, flags and number *)
(* of presses: a row's category is its own or one the reader chose, the     *)
(* refs of the bank stay on a row, and no pair is dismissed unseen - where  *)
(* one page works on a wallet (~Overlap).                                   *)
(*                                                                          *)
(* The sidebar (NavLayout, an instance), for any pages, built-in groups and *)
(* saved layouts: every page is in it once, and what was hidden stays so.   *)
(*                                                                          *)
(* The overview (Dashboard, an instance), for any widgets, sizes and saved  *)
(* layouts: what is shown or saved fits the grid, no two on one another.    *)
(****************************************************************************)
EXTENDS Review, FiniteSetTheorems, SequenceTheorems, WellFoundedInduction, TLAPS

-----------------------------------------------------------------------------
(****************************************************************************)
(* The invariant                                                            *)
(****************************************************************************)

\* The tables, and what may have been asked of each row.
Tables ==
  /\ AreRows(rows) /\ ids(rows) \subseteq Ids /\ flags \subseteq Flags /\ copy.flags \subseteq Flags
  /\ let = [i \in DOMAIN let |-> let[i]] /\ ids(rows) \subseteq DOMAIN let

\* Proposals on screen are drafts, and one that is picked has a category.
AreDrafts(ds) ==
  /\ ds = [i \in DOMAIN ds |-> ds[i]]
  /\ \A i \in DOMAIN ds :
       /\ ds[i] = [categoryId |-> ds[i].categoryId, payeeId |-> ds[i].payeeId, picked |-> ds[i].picked]
       /\ ds[i].picked => ds[i].categoryId # None

\* What a call is about to do was asked for (of let); a merge works on the rows it read,
\* and the ref of the row to go is on the other one or that has a ref of its own.
Ready(kind, arg, asks) ==
  /\ kind = "confirm" =>
       \A i \in DOMAIN arg \cap ids(rows) :
         <<arg[i].categoryId, Given(arg[i].payeeId, rows[i].payee)>> \in asks[i]
  /\ kind = "save" /\ arg.id \in ids(rows) =>
       <<Given(arg.category, rows[arg.id].category), Given(arg.payee, rows[arg.id].payee)>>
         \in asks[arg.id]
  /\ kind = "dismiss" =>
       (IF arg.all THEN duplicatePairs(rows, dismissed) ELSE arg.pairs) \subseteq arg.saw
  /\ kind = "merge" => arg.keep # arg.drop
Asked(c) == /\ c.kind = "confirm" => AreDrafts(drafts)
            /\ c.step = "sent" => Ready(c.kind, c.arg, let)
Merging(kind, arg, step, read) ==
  kind = "merge" =>
    /\ arg.keep # arg.drop
    /\ step \in {"read", "written"} => {arg.keep, arg.drop} \subseteq ids(rows)
    /\ step = "read" => read = [keep |-> rows[arg.keep], drop |-> rows[arg.drop]]
    /\ step = "written" => /\ read.keep.ref = None => rows[arg.keep].ref = rows[arg.drop].ref
                           /\ read.keep.ref # None => read.drop.ref = rows[arg.drop].ref

\* One call at a time.
Calls ==
  \A c \in calls :
    /\ calls = {c}
    /\ c = [no |-> c.no, kind |-> c.kind, arg |-> c.arg, step |-> c.step, read |-> c.read]
    /\ Asked(c) /\ Merging(c.kind, c.arg, c.step, c.read)

\* Until a call was served, the page shows the rows there are.
Unserved == \A c \in calls : c.step \in {"sent", "failed"} \/ c.kind = "propose"
Fresh == ~stale /\ Unserved => copy.rows = rows /\ copy.dismissed \subseteq dismissed

Screens ==
  /\ drafts # None => AreDrafts(drafts)
  /\ form # None => form = [id |-> form.id, category |-> form.category, payee |-> form.payee]

ReviewInv == /\ Tables /\ Calls /\ Fresh /\ Screens
             /\ OnlyConfirmedIsSaved /\ RefsKept /\ DismissedWereSeen

-----------------------------------------------------------------------------
(****************************************************************************)
(* Calls and pairs                                                          *)
(****************************************************************************)

IsCall(c) == c = [no |-> c.no, kind |-> c.kind, arg |-> c.arg, step |-> c.step, read |-> c.read]

\* A press sends the one call there is.
LEMMA Mutated ==
  ASSUME ~Overlap, NEW kind, NEW arg, mutate(kind, arg)
  PROVE  /\ calls = {} /\ ~stale
         /\ \E c : calls' = {c} /\ IsCall(c) /\ c.kind = kind /\ c.arg = arg /\ c.step = "sent"
<1> DEFINE c == [no |-> made', kind |-> kind, arg |-> arg, step |-> "sent", read |-> None]
<1>1. IsCall(c) /\ c.kind = kind /\ c.arg = arg /\ c.step = "sent"
  BY DEF IsCall
<1>2. calls = {} /\ ~stale /\ calls' = {c}
  BY DEF mutate
<1> HIDE DEF c
<1> QED BY <1>1, <1>2

\* The server takes a call a step on.
LEMMA Stepped ==
  ASSUME NEW c \in calls, calls = {c}, IsCall(c), NEW step, NEW read, Step(c, step, read)
  PROVE  \E d : /\ calls' = {d} /\ IsCall(d)
                /\ d.kind = c.kind /\ d.arg = c.arg /\ d.step = step /\ d.read = read
<1> DEFINE d == [c EXCEPT !.step = step, !.read = read]
<1>1. d \in [no : {c.no}, kind : {c.kind}, arg : {c.arg}, step : {step}, read : {read}]
  BY DEF IsCall
<1>2. calls' = {d}
  BY DEF Step
<1> HIDE DEF d
<1> QED BY <1>1, <1>2 DEF IsCall

\* A pair is of two rows.
LEMMA PairIsOfTwo ==
  ASSUME NEW rs, NEW gone, NEW p \in duplicatePairs(rs, gone)
  PROVE  /\ p \subseteq ids(rs) /\ p \notin gone
         /\ \E i \in p : TRUE
         /\ \A k \in p : \E d \in p : d # k
<1>1. p \subseteq ids(rs) /\ Cardinality(p) = 2 /\ p \notin gone
  BY DEF duplicatePairs, kSubset
<1>2. p # {}
  BY <1>1, FS_EmptySet
<1>3. ASSUME NEW k \in p PROVE \E d \in p : d # k
  <2> SUFFICES ASSUME \A d \in p : d = k PROVE FALSE
    OBVIOUS
  <2>1. p = {k}
    BY <1>3
  <2> QED BY <1>1, <2>1, FS_Singleton
<1> QED BY <1>1, <1>2, <1>3

\* With fewer dismissed there are more pairs.
LEMMA PairsLeft ==
  ASSUME NEW rs, NEW gone, NEW more, gone \subseteq more
  PROVE  duplicatePairs(rs, more) \subseteq duplicatePairs(rs, gone)
BY DEF duplicatePairs

\* The pairs on screen are pairs of the rows shown, and all of them unless the page is
\* narrowed to an account.
LEMMA PairsOnScreen ==
  /\ dups \subseteq duplicatePairs(copy.rows, copy.dismissed)
  /\ onlyAccount = None => dups = duplicatePairs(copy.rows, copy.dismissed)
<1>1. dups \subseteq duplicatePairs(copy.rows, copy.dismissed)
  BY DEF dups
<1>2. ASSUME onlyAccount = None, NEW p \in duplicatePairs(copy.rows, copy.dismissed)
      PROVE  p \in dups
  <2>1. PICK i \in p : TRUE
    BY PairIsOfTwo
  <2>2. inScope(i)
    BY <1>2 DEF inScope
  <2> QED BY <2>1, <2>2 DEF dups
<1> QED BY <1>1, <1>2

-----------------------------------------------------------------------------
(****************************************************************************)
(* The page                                                                 *)
(****************************************************************************)

\* A press keeps the invariant when what it sends has been asked for.
LEMMA Pressing ==
  ASSUME ReviewInv, ~Overlap, NEW kind, NEW arg, mutate(kind, arg),
         UNCHANGED <<server, copy, stale, drafts, spare, missed>>,
         form' # None => form' = [id |-> form'.id, category |-> form'.category, payee |-> form'.payee],
         let' = [i \in DOMAIN let' |-> let'[i]], DOMAIN let' = DOMAIN let,
         \A i \in DOMAIN let : let[i] \subseteq let'[i],
         kind = "confirm" => AreDrafts(drafts), Ready(kind, arg, let')
  PROVE  ReviewInv'
<1>1. /\ UNCHANGED <<rows, dismissed, flags>>
  BY DEF server
<1>2. PICK c : calls' = {c} /\ IsCall(c) /\ c.kind = kind /\ c.arg = arg /\ c.step = "sent"
  BY Mutated
<1>3. calls = {} /\ ~stale
  BY Mutated
<1>4. Tables'
  BY <1>1 DEF ReviewInv, Tables
<1>5. Calls'
  <2>1. Asked(c)'
    BY <1>1, <1>2 DEF Asked, Ready, AreDrafts, duplicatePairs
  <2>2. Merging(c.kind, c.arg, c.step, c.read)'
    BY <1>1, <1>2 DEF Merging, Ready
  <2> QED BY <1>2, <2>1, <2>2 DEF Calls, IsCall
<1>6. Fresh' /\ Screens'
  BY <1>1, <1>3 DEF ReviewInv, Fresh, Unserved, Screens
<1>7. OnlyConfirmedIsSaved' /\ RefsKept' /\ DismissedWereSeen'
  BY <1>1 DEF ReviewInv, OnlyConfirmedIsSaved, RefsKept, DismissedWereSeen, Tables
<1> QED BY <1>4, <1>5, <1>6, <1>7 DEF ReviewInv

\* What the page shows is what there is when it may send.
LEMMA Shown ==
  ASSUME ReviewInv, ~Overlap, NEW kind, NEW arg, mutate(kind, arg)
  PROVE  copy.rows = rows /\ copy.dismissed \subseteq dismissed
BY Mutated DEF ReviewInv, Fresh, Unserved

\* What is asked of a row is asked of what it has.
LEMMA Asking ==
  ASSUME ReviewInv, NEW i, i \in ids(rows), NEW v, NEW w, Asks(i, v, w)
  PROVE  <<Given(v, rows[i].category), Given(w, rows[i].payee)>> \in let'[i]
<1>1. i \in DOMAIN let /\ <<rows[i].category, rows[i].payee>> \in let[i]
  BY DEF ReviewInv, Tables, OnlyConfirmedIsSaved
<1>2. let'[i] = let[i] \cup {<<IF v = None THEN x[1] ELSE v, IF w = None THEN x[2] ELSE w>> : x \in let[i]}
  BY <1>1 DEF Asks
<1> QED BY <1>1, <1>2 DEF Given

LEMMA AskingKeeps ==
  ASSUME ReviewInv, NEW i, NEW v, NEW w, Asks(i, v, w)
  PROVE  /\ let' = [j \in DOMAIN let' |-> let'[j]] /\ DOMAIN let' = DOMAIN let
         /\ \A j \in DOMAIN let : let[j] \subseteq let'[j]
<1>1. let = [j \in DOMAIN let |-> let[j]]
  BY DEF ReviewInv, Tables
<1> QED BY <1>1 DEF Asks

\* The reader's presses.
LEMMA Filing == ASSUME ReviewInv, ~Overlap, confirmPicked \/ save PROVE ReviewInv'
<1>1. CASE confirmPicked
  <2>1. PICK arg : arg = [i \in Sent |-> drafts[i]]
    OBVIOUS
  <2>2. /\ mutate("confirm", arg) /\ UNCHANGED <<server, copy, stale, drafts, form, spare, missed>>
        /\ picked # {}
    BY <1>1, <2>1 DEF confirmPicked, Press
  <2>3. let' = [i \in DOMAIN let |-> IF i \in picked
          THEN let[i] \cup {<<drafts[i].categoryId, IF drafts[i].payeeId = None THEN x[2] ELSE drafts[i].payeeId>> : x \in let[i]}
          ELSE let[i]]
    BY <1>1 DEF confirmPicked
  <2>4. /\ let' = [j \in DOMAIN let' |-> let'[j]] /\ DOMAIN let' = DOMAIN let
        /\ \A j \in DOMAIN let : let[j] \subseteq let'[j]
    BY <2>3
  <2>5. copy.rows = rows
    BY <2>2, Shown
  <2>6. picked \subseteq DOMAIN drafts /\ drafts # None
    BY <2>2 DEF picked, shown
  <2>7. AreDrafts(drafts)
    BY <2>6 DEF ReviewInv, Screens
  <2>8. ASSUME NEW i \in DOMAIN arg \cap ids(rows)
        PROVE  <<arg[i].categoryId, Given(arg[i].payeeId, rows[i].payee)>> \in let'[i]
    <3>1. i \in picked /\ arg[i] = drafts[i]
      BY <2>1 DEF Sent
    <3>2. i \in DOMAIN let /\ <<rows[i].category, rows[i].payee>> \in let[i]
      BY DEF ReviewInv, Tables, OnlyConfirmedIsSaved
    <3> QED BY <2>3, <3>1, <3>2 DEF Given
  <2>9. Ready("confirm", arg, let')
    BY <2>8 DEF Ready
  <2> QED BY <2>2, <2>4, <2>7, <2>9, Pressing DEF ReviewInv, Screens
<1>2. ASSUME NEW i \in needs, NEW v, NEW w, Asks(i, v, w), Press, UNCHANGED <<spare, missed>>,
             mutate("save", [id |-> i, category |-> v, payee |-> w])
      PROVE  ReviewInv'
  <2>1. i \in ids(rows)
    BY <1>2, Shown DEF needs, ListImportedUncategorized, ids
  <2>2. Ready("save", [id |-> i, category |-> v, payee |-> w], let')
    BY <1>2, <2>1, Asking DEF Ready
  <2> QED BY <1>2, <2>2, AskingKeeps, Pressing DEF Press, ReviewInv, Screens
<1> QED BY <1>1, <1>2 DEF save

LEMMA Completing == ASSUME ReviewInv, ~Overlap, TransactionForm PROVE ReviewInv'
<1>1. PICK v \in Categories : mutate("save", [form EXCEPT !.category = v]) /\ Asks(form.id, v, form.payee)
  BY DEF TransactionForm
<1> DEFINE i == form.id
           w == form.payee
           arg == [id |-> i, category |-> v, payee |-> w]
<1>2. arg = [form EXCEPT !.category = v]
  BY DEF TransactionForm, ReviewInv, Screens
<1>3. mutate("save", arg) /\ Asks(i, v, w)
  BY <1>1, <1>2
<1>4. Ready("save", arg, let')
  <2> SUFFICES ASSUME i \in ids(rows)
               PROVE  <<Given(v, rows[i].category), Given(w, rows[i].payee)>> \in let'[i]
    BY DEF Ready
  <2> QED BY <1>3, Asking
<1>5. form' = None /\ UNCHANGED <<server, copy, stale, drafts, spare, missed>>
  BY DEF TransactionForm
<1> QED BY <1>3, <1>4, <1>5, AskingKeeps, Pressing

LEMMA LetKeeps == ASSUME ReviewInv, UNCHANGED let
                  PROVE  /\ let' = [j \in DOMAIN let' |-> let'[j]] /\ DOMAIN let' = DOMAIN let
                         /\ \A j \in DOMAIN let : let[j] \subseteq let'[j]
BY DEF ReviewInv, Tables

LEMMA Comparing ==
  ASSUME ReviewInv, ~Overlap, propose \/ comparison \/ dismissAll \/ ReviewUnconfirmed \/ UnusualBox
  PROVE  ReviewInv'
<1>0. Press /\ UNCHANGED asked
  BY DEF propose, comparison, dismissAll, ReviewUnconfirmed, UnusualBox
<1>1. ASSUME NEW kind, NEW arg, mutate(kind, arg), kind # "confirm", Ready(kind, arg, let)
      PROVE  ReviewInv'
  <2>1. UNCHANGED <<server, copy, stale, drafts, form, let, spare, missed>>
    BY <1>0 DEF Press, asked
  <2>2. Ready(kind, arg, let')
    BY <1>1, <2>1
  <2> QED BY <1>1, <2>1, <2>2, LetKeeps, Pressing DEF ReviewInv, Screens
<1>2. ASSUME NEW kind \in {"propose", "remove", "mergeMail", "fine"}, NEW arg, mutate(kind, arg)
      PROVE  ReviewInv'
  BY <1>1, <1>2 DEF Ready
<1>3. ASSUME NEW saw, NEW pairs, pairs \subseteq saw,
             mutate("dismiss", [all |-> FALSE, pairs |-> pairs, saw |-> saw])
      PROVE  ReviewInv'
  BY <1>1, <1>3 DEF Ready
<1>4. CASE propose
  BY <1>2, <1>4 DEF propose
<1>5. CASE comparison
  <2>1. PICK p \in dups :
          \/ \E k \in p : mutate("merge", [keep |-> k, drop |-> CHOOSE d \in p : d # k])
          \/ mutate("dismiss", [all |-> FALSE, pairs |-> {p}, saw |-> dups])
          \/ \E k \in p : mutate("remove", {k})
    BY <1>5 DEF comparison
  <2>2. ASSUME NEW k \in p, mutate("merge", [keep |-> k, drop |-> CHOOSE d \in p : d # k])
        PROVE  ReviewInv'
    <3>1. \E d \in p : d # k
      BY PairsOnScreen, PairIsOfTwo
    <3>2. PICK drop : drop = CHOOSE d \in p : d # k
      OBVIOUS
    <3>3. drop # k
      BY <3>1, <3>2
    <3>4. Ready("merge", [keep |-> k, drop |-> drop], let)
      BY <3>3 DEF Ready
    <3> QED BY <1>1, <2>2, <3>2, <3>4
  <2>3. CASE mutate("dismiss", [all |-> FALSE, pairs |-> {p}, saw |-> dups])
    BY <1>3, <2>3
  <2> QED BY <1>2, <2>1, <2>2, <2>3
<1>6. CASE dismissAll
  <2>1. mutate("dismiss", [all |-> onlyAccount = None, pairs |-> dups, saw |-> dups])
    BY <1>6 DEF dismissAll, Dismissed
  <2>2. copy.rows = rows /\ copy.dismissed \subseteq dismissed
    BY <2>1, Shown
  <2>3. onlyAccount = None => duplicatePairs(rows, dismissed) \subseteq dups
    BY <2>2, PairsOnScreen, PairsLeft
  <2>4. CASE onlyAccount = None
    <3>1. Ready("dismiss", [all |-> TRUE, pairs |-> dups, saw |-> dups], let)
      BY <2>3, <2>4 DEF Ready
    <3>2. mutate("dismiss", [all |-> TRUE, pairs |-> dups, saw |-> dups])
      BY <2>1, <2>4
    <3> QED BY <1>1, <3>1, <3>2
  <2>5. CASE onlyAccount # None
    BY <1>3, <2>1, <2>5
  <2> QED BY <2>4, <2>5
<1>7. CASE ReviewUnconfirmed
  BY <1>2, <1>7 DEF ReviewUnconfirmed
<1>8. CASE UnusualBox
  BY <1>2, <1>3, <1>8 DEF UnusualBox
<1> QED BY <1>4, <1>5, <1>6, <1>7, <1>8

-----------------------------------------------------------------------------
(****************************************************************************)
(* The server                                                               *)
(****************************************************************************)

\* A call taken on keeps the invariant when the tables do, a merge goes on with the rows it
\* read, and what fails or only proposes leaves the rows.
LEMMA Served ==
  ASSUME ReviewInv, NEW c \in calls, NEW s, NEW r, Step(c, s, r), Screen, s # "sent",
         AreRows(rows)', ids(rows)' \subseteq Ids, flags' \subseteq flags,
         let' = [i \in DOMAIN let' |-> let'[i]], ids(rows)' \subseteq DOMAIN let',
         Merging(c.kind, c.arg, s, r)',
         OnlyConfirmedIsSaved', RefsKept', DismissedWereSeen',
         s = "failed" \/ c.kind = "propose" => /\ rows' = rows /\ dismissed \subseteq dismissed'
                                               /\ c.step = "sent"
  PROVE  ReviewInv'
<1>1. /\ calls = {c} /\ IsCall(c) /\ Asked(c)
  BY DEF ReviewInv, Calls, IsCall
<1>2. PICK d : calls' = {d} /\ IsCall(d) /\ d.kind = c.kind /\ d.arg = c.arg /\ d.step = s /\ d.read = r
  BY <1>1, Stepped
<1>3. UNCHANGED <<copy, stale, drafts, form>>
  BY DEF Screen
<1>4. Tables'
  BY <1>3 DEF ReviewInv, Tables
<1>5. Calls'
  <2>1. Asked(d)'
    BY <1>1, <1>2, <1>3 DEF Asked, AreDrafts
  <2>2. Merging(d.kind, d.arg, d.step, d.read)'
    BY <1>2
  <2> QED BY <1>2, <2>1, <2>2 DEF Calls, IsCall
<1>6. Screens'
  BY <1>3 DEF ReviewInv, Screens
<1>7. Fresh'
  BY <1>1, <1>2, <1>3 DEF ReviewInv, Fresh, Unserved
<1> QED BY <1>4, <1>5, <1>6, <1>7 DEF ReviewInv

\* Rows go: what is left is as it was, and the refs of the others were put by.
LEMMA Going ==
  ASSUME ReviewInv, NEW gone, rows' = Without(rows, gone), UNCHANGED let, spare \subseteq spare',
         \A i \in gone \cap ids(rows) :
           \/ rows[i].ref \in spare'
           \/ \E j \in ids(rows) \ gone : rows[j].ref = rows[i].ref
  PROVE  /\ AreRows(rows)' /\ ids(rows)' \subseteq Ids
         /\ let' = [i \in DOMAIN let' |-> let'[i]] /\ ids(rows)' \subseteq DOMAIN let'
         /\ OnlyConfirmedIsSaved' /\ RefsKept'
<1>1. /\ ids(rows)' = ids(rows) \ gone
      /\ rows' = [i \in ids(rows) \ gone |-> rows[i]]
  BY DEF Without, Restrict, ids
<1>2. /\ AreRows(rows)' /\ ids(rows)' \subseteq Ids
      /\ let' = [i \in DOMAIN let' |-> let'[i]] /\ ids(rows)' \subseteq DOMAIN let'
  BY <1>1 DEF ReviewInv, Tables, AreRows, IsRow, ids
<1>3. OnlyConfirmedIsSaved'
  BY <1>1 DEF ReviewInv, OnlyConfirmedIsSaved
<1>4. RefsKept'
  <2> SUFFICES ASSUME NEW i \in ids(Imported)
               PROVE  Imported[i].ref \in {None} \cup spare' \cup {rows'[j].ref : j \in ids(rows)'}
    BY DEF RefsKept, ids
  <2>1. Imported[i].ref \in {None} \cup spare \cup {rows[j].ref : j \in ids(rows)}
    BY DEF ReviewInv, RefsKept
  <2>2. CASE Imported[i].ref \in {None} \cup spare
    BY <2>2
  <2>3. ASSUME NEW j \in ids(rows), Imported[i].ref = rows[j].ref
        PROVE  Imported[i].ref \in spare' \cup {rows'[k].ref : k \in ids(rows)'}
    BY <1>1, <2>3
  <2> QED BY <2>1, <2>2, <2>3
<1> QED BY <1>2, <1>3, <1>4

\* Rows stay and keep their refs, or take one that was missing; what they have was asked for.
LEMMA Staying ==
  ASSUME ReviewInv, AreRows(rows)', ids(rows)' = ids(rows), spare' = spare,
         let' = [i \in DOMAIN let' |-> let'[i]], DOMAIN let' = DOMAIN let,
         \A i \in DOMAIN let : let[i] \subseteq let'[i],
         \A i \in ids(rows) :
           /\ rows[i].ref \in {None, rows'[i].ref}
           /\ \/ rows'[i].category = rows[i].category /\ rows'[i].payee = rows[i].payee
              \/ <<rows'[i].category, rows'[i].payee>> \in let'[i]
  PROVE  /\ AreRows(rows)' /\ ids(rows)' \subseteq Ids
         /\ let' = [i \in DOMAIN let' |-> let'[i]] /\ ids(rows)' \subseteq DOMAIN let'
         /\ OnlyConfirmedIsSaved' /\ RefsKept'
<1>1. ids(rows)' \subseteq Ids /\ ids(rows)' \subseteq DOMAIN let'
  BY DEF ReviewInv, Tables
<1>2. OnlyConfirmedIsSaved'
  BY DEF ReviewInv, Tables, OnlyConfirmedIsSaved
<1>3. RefsKept'
  BY ZenonT(40) DEF ReviewInv, RefsKept
<1> QED BY <1>1, <1>2, <1>3

LEMMA Merges == ASSUME ReviewInv, NEW c \in calls, c.kind = "merge", Merge(c), Screen
                PROVE  ReviewInv'
<1>1. Merging(c.kind, c.arg, c.step, c.read)
  BY DEF ReviewInv, Calls
<1>2. CASE c.step = "sent" /\ {c.arg.keep, c.arg.drop} \subseteq ids(rows)
           /\ Step(c, "read", [keep |-> rows[c.arg.keep], drop |-> rows[c.arg.drop]])
           /\ UNCHANGED <<server, asked>>
  <2>1. UNCHANGED <<rows, dismissed, flags, let, spare, missed>>
    BY <1>2 DEF server, asked
  <2>2. Merging(c.kind, c.arg, "read", [keep |-> rows[c.arg.keep], drop |-> rows[c.arg.drop]])'
    BY <1>1, <1>2, <2>1 DEF Merging
  <2>3. /\ AreRows(rows)' /\ ids(rows)' \subseteq Ids
        /\ let' = [i \in DOMAIN let' |-> let'[i]] /\ ids(rows)' \subseteq DOMAIN let'
        /\ OnlyConfirmedIsSaved' /\ RefsKept' /\ DismissedWereSeen'
    BY <2>1 DEF ReviewInv, Tables, AreRows, OnlyConfirmedIsSaved, RefsKept, DismissedWereSeen
  <2> QED BY <1>2, <2>1, <2>2, <2>3, Served
<1>3. CASE /\ c.step = "read"
           /\ rows' = IF Takes(c.read.keep, c.read.drop) /\ c.arg.keep \in ids(rows)
                      THEN [rows EXCEPT ![c.arg.keep].ref = c.read.drop.ref] ELSE rows
           /\ Step(c, "written", c.read) /\ UNCHANGED <<dismissed, flags, asked>>
  <2> DEFINE k == c.arg.keep
             d == c.arg.drop
  <2>1. /\ UNCHANGED <<dismissed, flags, let, spare, missed>>
        /\ k # d /\ k \in ids(rows) /\ d \in ids(rows)
        /\ c.read.keep = rows[k] /\ c.read.drop = rows[d]
    BY <1>1, <1>3 DEF asked, Merging
  <2>2. AreRows(rows)
    BY DEF ReviewInv, Tables
  <2>3. /\ ids(rows)' = ids(rows) /\ AreRows(rows)'
        /\ \A i \in ids(rows) : /\ i # k => rows'[i] = rows[i]
                                /\ rows'[i].category = rows[i].category /\ rows'[i].payee = rows[i].payee
        /\ rows'[k].ref = IF rows[k].ref = None THEN rows[d].ref ELSE rows[k].ref
    BY <1>3, <2>1, <2>2 DEF AreRows, IsRow, ids, Takes
  <2>4. Merging(c.kind, c.arg, "written", c.read)'
    BY <2>1, <2>3 DEF Merging
  <2>5. /\ AreRows(rows)' /\ ids(rows)' \subseteq Ids
        /\ let' = [i \in DOMAIN let' |-> let'[i]] /\ ids(rows)' \subseteq DOMAIN let'
        /\ OnlyConfirmedIsSaved' /\ RefsKept'
    <3>1. \A i \in ids(rows) : rows[i].ref \in {None, rows'[i].ref}
      BY <2>1, <2>3
    <3> QED BY <2>1, <2>3, <3>1, LetKeeps, Staying
  <2>6. DismissedWereSeen'
    BY <2>1 DEF ReviewInv, DismissedWereSeen
  <2> QED BY <1>3, <2>1, <2>4, <2>5, <2>6, Served
<1>4. CASE /\ c.step = "written"
           /\ rows' = Without(rows, {c.arg.drop}) /\ Step(c, "ok", None)
           /\ spare' = IF c.read.keep.ref = None THEN spare ELSE spare \cup {c.read.drop.ref}
           /\ UNCHANGED <<dismissed, flags, let, missed>>
  <2>1. \A i \in {c.arg.drop} \cap ids(rows) :
           \/ rows[i].ref \in spare'
           \/ \E j \in ids(rows) \ {c.arg.drop} : rows[j].ref = rows[i].ref
    BY <1>1, <1>4 DEF Merging
  <2>2. /\ AreRows(rows)' /\ ids(rows)' \subseteq Ids
        /\ let' = [i \in DOMAIN let' |-> let'[i]] /\ ids(rows)' \subseteq DOMAIN let'
        /\ OnlyConfirmedIsSaved' /\ RefsKept'
    BY <1>4, <2>1, Going
  <2>3. DismissedWereSeen' /\ Merging(c.kind, c.arg, "ok", None)'
    BY <1>1, <1>4 DEF ReviewInv, DismissedWereSeen, Merging
  <2> QED BY <1>4, <2>2, <2>3, Served
<1> QED BY <1>2, <1>3, <1>4 DEF Merge

LEMMA MailMerges == ASSUME ReviewInv, NEW c \in calls, c.kind = "mergeMail", MergeMail(c), Screen
                    PROVE  ReviewInv'
<1>1. \A s, r : Merging(c.kind, c.arg, s, r)'
  BY DEF Merging
<1>2. CASE c.step = "sent"
  <2> DEFINE i == c.arg.mail
             j == c.arg.bank
             category == IF rows[i].category = None THEN rows[j].category ELSE rows[i].category
             payee == IF rows[i].payee = None THEN rows[j].payee ELSE rows[i].payee
  <2>1. PICK to : to = [rows[j] EXCEPT !.category = category, !.payee = payee]
    OBVIOUS
  <2>2. /\ i \in ids(rows) /\ j \in ids(rows) /\ Step(c, "written", None)
        /\ rows' = [rows EXCEPT ![j] = to]
        /\ let' = [let EXCEPT ![j] = @ \cup {<<to.category, to.payee>>}]
        /\ UNCHANGED <<dismissed, flags, spare, missed>>
    BY <1>2, <2>1 DEF MergeMail
  <2>3. AreRows(rows) /\ ids(rows) \subseteq DOMAIN let /\ let = [k \in DOMAIN let |-> let[k]]
    BY DEF ReviewInv, Tables
  <2>4. IsRow(rows[j])
    BY <2>2, <2>3 DEF AreRows, ids
  <2>5. IsRow(to) /\ to.ref = rows[j].ref
    <3>1. to = [acc |-> rows[j].acc, amount |-> rows[j].amount, category |-> category, payee |-> payee,
                ref |-> rows[j].ref, old |-> rows[j].old]
      BY <2>1, <2>4 DEF IsRow
    <3> QED BY <3>1 DEF IsRow
  <2>6. /\ AreRows(rows)' /\ ids(rows)' = ids(rows)
        /\ let' = [k \in DOMAIN let' |-> let'[k]] /\ DOMAIN let' = DOMAIN let
        /\ \A k \in DOMAIN let : let[k] \subseteq let'[k]
    BY <2>2, <2>3, <2>5 DEF AreRows, ids
  <2>7. \A k \in ids(rows) :
           /\ rows[k].ref \in {None, rows'[k].ref}
           /\ \/ rows'[k].category = rows[k].category /\ rows'[k].payee = rows[k].payee
              \/ <<rows'[k].category, rows'[k].payee>> \in let'[k]
    BY <2>2, <2>3, <2>5 DEF AreRows, ids
  <2>8. /\ ids(rows)' \subseteq Ids /\ ids(rows)' \subseteq DOMAIN let'
        /\ OnlyConfirmedIsSaved' /\ RefsKept'
    BY <2>2, <2>6, <2>7, Staying
  <2>9. DismissedWereSeen'
    BY <2>2 DEF ReviewInv, DismissedWereSeen
  <2> QED BY <1>1, <2>2, <2>6, <2>8, <2>9, Served
<1>3. CASE /\ rows' = Without(rows, {c.arg.mail}) /\ Step(c, "ok", None)
           /\ spare' = spare \cup {rows[c.arg.mail].ref : x \in {c.arg.mail} \cap ids(rows)}
           /\ UNCHANGED <<dismissed, flags, let, missed>>
  <2>1. /\ AreRows(rows)' /\ ids(rows)' \subseteq Ids
        /\ let' = [i \in DOMAIN let' |-> let'[i]] /\ ids(rows)' \subseteq DOMAIN let'
        /\ OnlyConfirmedIsSaved' /\ RefsKept'
    BY <1>3, Going
  <2>2. DismissedWereSeen'
    BY <1>3 DEF ReviewInv, DismissedWereSeen
  <2> QED BY <1>1, <1>3, <2>1, <2>2, Served
<1> QED BY <1>2, <1>3 DEF MergeMail

\* The calls of one step.
LEMMA Changes ==
  ASSUME ReviewInv, NEW c \in calls, c.step = "sent", c.kind # "merge", Screen,
         \/ c.kind = "dismiss" /\ Dismiss(c)
         \/ c.kind = "remove" /\ BulkDelete(c)
         \/ c.kind = "confirm" /\ BulkCategorize(c)
         \/ c.kind = "save" /\ BulkUpdate(c)
         \/ c.kind = "fine" /\ Fine(c)
         \/ Propose(c)
  PROVE  ReviewInv'
<1>0. /\ \A s, r : Merging(c.kind, c.arg, s, r)'
      /\ Ready(c.kind, c.arg, let)
      /\ AreRows(rows) /\ ids(rows) \subseteq DOMAIN let
  BY DEF Merging, ReviewInv, Calls, Asked, Tables
\* Rows that stay: what is set in them was asked for.
<1> DEFINE Sets(i) == /\ rows[i].ref \in {None, rows'[i].ref}
                      /\ \/ rows'[i].category = rows[i].category /\ rows'[i].payee = rows[i].payee
                         \/ <<rows'[i].category, rows'[i].payee>> \in let[i]
<1>1. ASSUME AreRows(rows)', ids(rows)' = ids(rows), UNCHANGED <<let, spare, missed>>,
             flags' \subseteq flags, \A i \in ids(rows) : Sets(i),
             NEW r, Step(c, "ok", r),
             c.kind = "propose" => rows' = rows /\ dismissed \subseteq dismissed'
      PROVE  ReviewInv'
  <2>1. /\ let' = let /\ spare' = spare /\ \A i \in ids(rows) : Sets(i)
    BY <1>1
  <2>2. /\ let' = [i \in DOMAIN let' |-> let'[i]] /\ ids(rows)' \subseteq DOMAIN let'
        /\ ids(rows)' \subseteq Ids /\ OnlyConfirmedIsSaved' /\ RefsKept'
    BY <1>1, <2>1, LetKeeps, Staying
  <2>3. DismissedWereSeen'
    BY <1>1 DEF ReviewInv, DismissedWereSeen
  <2> QED BY <1>0, <1>1, <2>2, <2>3, Served
<1>2. ASSUME c.kind = "dismiss", Dismiss(c) PROVE ReviewInv'
  <2> DEFINE these == IF c.arg.all THEN duplicatePairs(rows, dismissed) ELSE c.arg.pairs
  <2>1. these \subseteq c.arg.saw
    BY <1>0, <1>2 DEF Ready
  <2>2. /\ missed' = missed \cup (these \ c.arg.saw) /\ flags' \subseteq flags
        /\ UNCHANGED <<rows, let, spare>> /\ Step(c, "ok", None)
    BY <1>2 DEF Dismiss
  <2>3. UNCHANGED <<let, spare, missed>>
    BY <2>1, <2>2
  <2>4. AreRows(rows)' /\ ids(rows)' = ids(rows) /\ \A i \in ids(rows) : Sets(i)
    BY <1>0, <2>2 DEF AreRows, ids
  <2> HIDE DEF these, Sets
  <2> QED BY <1>1, <1>2, <2>2, <2>3, <2>4
<1>3. ASSUME c.kind = "remove", BulkDelete(c) PROVE ReviewInv'
  <2>1. /\ rows' = Without(rows, c.arg) /\ Step(c, "ok", None)
        /\ spare' = spare \cup {rows[i].ref : i \in c.arg}
        /\ UNCHANGED <<dismissed, flags, let, missed>>
    BY <1>3 DEF BulkDelete
  <2>2. /\ AreRows(rows)' /\ ids(rows)' \subseteq Ids
        /\ let' = [i \in DOMAIN let' |-> let'[i]] /\ ids(rows)' \subseteq DOMAIN let'
        /\ OnlyConfirmedIsSaved' /\ RefsKept'
    BY <2>1, Going
  <2>3. DismissedWereSeen'
    BY <2>1 DEF ReviewInv, DismissedWereSeen
  <2> QED BY <1>0, <1>3, <2>1, <2>2, <2>3, Served
<1>4. ASSUME c.kind = "confirm", BulkCategorize(c) PROVE ReviewInv'
  <2>1. /\ ids(c.arg) \subseteq ids(rows) /\ Step(c, "ok", None)
        /\ UNCHANGED <<dismissed, flags, let, spare, missed>>
        /\ rows' = [i \in ids(rows) |-> IF i \in ids(c.arg)
                      THEN [rows[i] EXCEPT !.category = c.arg[i].categoryId, !.payee = Given(c.arg[i].payeeId, @)]
                      ELSE rows[i]]
    BY <1>4 DEF BulkCategorize, asked
  <2>2. ASSUME NEW i \in ids(rows), i \in ids(c.arg)
        PROVE  rows'[i] = [acc |-> rows[i].acc, amount |-> rows[i].amount, category |-> c.arg[i].categoryId,
                           payee |-> Given(c.arg[i].payeeId, rows[i].payee), ref |-> rows[i].ref, old |-> rows[i].old]
    <3>1. IsRow(rows[i])
      BY <1>0 DEF AreRows, ids
    <3>2. PICK p : p = Given(c.arg[i].payeeId, rows[i].payee)
      OBVIOUS
    <3>3. rows'[i] = [rows[i] EXCEPT !.category = c.arg[i].categoryId, !.payee = p]
      BY <2>1, <2>2, <3>2
    <3> QED BY <3>1, <3>2, <3>3 DEF IsRow
  <2>3. ids(rows)' = ids(rows) /\ rows' = [i \in ids(rows) |-> rows'[i]]
    BY <2>1 DEF ids
  <2>4. \A i \in ids(rows) : IsRow(rows'[i])
    BY <1>0, <2>1, <2>2 DEF IsRow, AreRows, ids
  <2>5. AreRows(rows)'
    BY <2>3, <2>4 DEF AreRows, ids
  <2>6. ASSUME NEW i \in ids(rows) PROVE Sets(i)
    <3>1. CASE i \in ids(c.arg)
      <4>1. <<c.arg[i].categoryId, Given(c.arg[i].payeeId, rows[i].payee)>> \in let[i]
        BY <1>0, <1>4, <3>1 DEF Ready, ids
      <4>2. /\ rows'[i].category = c.arg[i].categoryId
            /\ rows'[i].payee = Given(c.arg[i].payeeId, rows[i].payee) /\ rows'[i].ref = rows[i].ref
        <5>1. PICK p : p = Given(c.arg[i].payeeId, rows[i].payee)
          OBVIOUS
        <5>2. rows'[i] = [acc |-> rows[i].acc, amount |-> rows[i].amount, category |-> c.arg[i].categoryId,
                          payee |-> p, ref |-> rows[i].ref, old |-> rows[i].old]
          BY <2>2, <3>1, <5>1
        <5> QED BY <5>1, <5>2
      <4> QED BY <4>1, <4>2
    <3>2. CASE i \notin ids(c.arg)
      BY <2>1, <3>2
    <3> QED BY <3>1, <3>2
  <2> HIDE DEF Sets
  <2> QED BY <1>1, <1>4, <2>1, <2>3, <2>5, <2>6
<1>5. ASSUME c.kind = "save", BulkUpdate(c) PROVE ReviewInv'
  <2> DEFINE k == c.arg.id
  <2>1. /\ k \in ids(rows) /\ Step(c, "ok", None)
        /\ UNCHANGED <<dismissed, flags, let, spare, missed>>
        /\ rows' = [rows EXCEPT ![k].category = Given(c.arg.category, @), ![k].payee = Given(c.arg.payee, @)]
    BY <1>5 DEF BulkUpdate, asked
  <2>2. /\ ids(rows)' = ids(rows) /\ rows' = [i \in ids(rows) |-> rows'[i]]
        /\ \A i \in ids(rows) : i # k => rows'[i] = rows[i]
    BY <1>0, <2>1 DEF AreRows, ids
  <2>3. rows'[k] = [acc |-> rows[k].acc, amount |-> rows[k].amount, category |-> Given(c.arg.category, rows[k].category),
                    payee |-> Given(c.arg.payee, rows[k].payee), ref |-> rows[k].ref, old |-> rows[k].old]
    <3>1. IsRow(rows[k])
      BY <1>0, <2>1 DEF AreRows, ids
    <3> QED BY <1>0, <2>1, <3>1 DEF AreRows, IsRow, ids
  <2>4. \A i \in ids(rows) : IsRow(rows'[i])
    BY <1>0, <2>1, <2>2, <2>3 DEF IsRow, AreRows, ids
  <2>5. AreRows(rows)'
    BY <2>2, <2>4 DEF AreRows, ids
  <2>6. ASSUME NEW i \in ids(rows) PROVE Sets(i)
    <3>1. CASE i = k
      <4>1. <<Given(c.arg.category, rows[k].category), Given(c.arg.payee, rows[k].payee)>> \in let[k]
        BY <1>0, <1>5, <2>1 DEF Ready
      <4>2. /\ rows'[k].category = Given(c.arg.category, rows[k].category)
            /\ rows'[k].payee = Given(c.arg.payee, rows[k].payee) /\ rows'[k].ref = rows[k].ref
        BY <2>3
      <4> QED BY <3>1, <4>1, <4>2
    <3>2. CASE i # k
      BY <2>2, <3>2
    <3> QED BY <3>1, <3>2
  <2> HIDE DEF Sets, k
  <2> QED BY <1>1, <1>5, <2>1, <2>2, <2>5, <2>6
<1>6. ASSUME NEW r, Step(c, "ok", r), flags' \subseteq flags, UNCHANGED <<rows, dismissed, asked>>
      PROVE  ReviewInv'
  <2>1. UNCHANGED <<rows, dismissed, let, spare, missed>>
    BY <1>6 DEF asked
  <2>2. AreRows(rows)' /\ ids(rows)' = ids(rows) /\ \A i \in ids(rows) : Sets(i)
    BY <1>0, <2>1 DEF AreRows, ids
  <2> HIDE DEF Sets
  <2> QED BY <1>1, <1>6, <2>1, <2>2
<1>7. ASSUME c.kind = "fine", Fine(c) PROVE ReviewInv'
  BY <1>6, <1>7 DEF Fine
<1>8. ASSUME Propose(c) PROVE ReviewInv'
  BY <1>6, <1>8 DEF Propose, server
<1> QED BY <1>2, <1>3, <1>4, <1>5, <1>7, <1>8

LEMMA Serves == ASSUME ReviewInv, NEW c \in calls, Serve(c) PROVE ReviewInv'
<1>1. Screen
  BY DEF Serve
<1>2. CASE c.kind = "merge"
  BY <1>1, <1>2, Merges DEF Serve
<1>3. CASE c.kind = "mergeMail"
  BY <1>1, <1>3, MailMerges DEF Serve
<1>4. CASE c.kind \notin {"merge", "mergeMail"}
  BY <1>1, <1>4, Changes DEF Serve
<1> QED BY <1>2, <1>3, <1>4

\* A refused call changes no row; pairs may be dismissed on the way.
LEMMA Refuses == ASSUME ReviewInv, NEW c \in calls, Refuse(c) PROVE ReviewInv'
<1>1. /\ c.step = "sent" /\ Step(c, "failed", None) /\ Screen
      /\ UNCHANGED <<rows, flags, let, spare, missed>> /\ dismissed \subseteq dismissed'
  BY DEF Refuse, asked
<1>2. /\ AreRows(rows)' /\ ids(rows)' \subseteq Ids
      /\ let' = [i \in DOMAIN let' |-> let'[i]] /\ ids(rows)' \subseteq DOMAIN let'
      /\ OnlyConfirmedIsSaved' /\ RefsKept' /\ DismissedWereSeen'
  BY <1>1 DEF ReviewInv, Tables, AreRows, OnlyConfirmedIsSaved, RefsKept, DismissedWereSeen
<1>3. Merging(c.kind, c.arg, "failed", None)'
  BY DEF ReviewInv, Calls, Merging
<1> QED BY <1>1, <1>2, <1>3, Served

-----------------------------------------------------------------------------
(****************************************************************************)
(* Answers, syncs, edits                                                    *)
(****************************************************************************)

LEMMA Answers == ASSUME ReviewInv, NEW c \in calls, Answer(c) PROVE ReviewInv'
<1>1. /\ c.step \in {"ok", "failed"} /\ calls' = {} /\ calls = {c} /\ Asked(c)
      /\ UNCHANGED <<rows, dismissed, flags, copy, form, let, spare, missed>>
      /\ stale' = (stale \/ (c.step = "ok" /\ c.kind # "propose"))
  BY DEF Answer, ReviewInv, Calls, server, asked
<1>2. Tables' /\ Calls' /\ OnlyConfirmedIsSaved' /\ RefsKept' /\ DismissedWereSeen'
  BY <1>1 DEF ReviewInv, Tables, AreRows, Calls, OnlyConfirmedIsSaved, RefsKept, DismissedWereSeen
<1>3. Fresh'
  BY <1>1 DEF ReviewInv, Fresh, Unserved
<1>4. drafts' # None => AreDrafts(drafts)'
  <2>1. CASE drafts' = drafts
    BY <2>1 DEF ReviewInv, Screens, AreDrafts
  <2>2. CASE drafts' = [i \in DOMAIN c.read |-> Draft(c.read[i])]
    <3>1. DOMAIN drafts' = DOMAIN c.read /\ \A i \in DOMAIN drafts' : drafts'[i] = Draft(c.read[i])
      BY <2>2
    <3> QED BY <2>2, <3>1 DEF AreDrafts, Draft
  <2>3. CASE c.kind = "confirm" /\ drafts' = Without(drafts, picked)
    <3>1. AreDrafts(drafts)
      BY <1>1, <2>3 DEF Asked
    <3>2. drafts' = [i \in DOMAIN drafts \ picked |-> drafts[i]]
      BY <2>3 DEF Without, Restrict, ids
    <3> QED BY <3>1, <3>2 DEF AreDrafts
  <2> QED BY <2>1, <2>2, <2>3 DEF Answer
<1>5. Screens'
  BY <1>1, <1>4 DEF ReviewInv, Screens
<1> QED BY <1>2, <1>3, <1>5 DEF ReviewInv

LEMMA Refreshes == ASSUME ReviewInv, refresh PROVE ReviewInv'
<1>1. /\ UNCHANGED <<rows, dismissed, flags, drafts, form, calls, let, spare, missed>>
      /\ copy' = [rows |-> rows, dismissed |-> dismissed, flags |-> flags]
  BY DEF refresh, server, asked, Current
<1>2. Tables' /\ Screens' /\ OnlyConfirmedIsSaved' /\ RefsKept' /\ DismissedWereSeen'
  BY <1>1 DEF ReviewInv, Tables, AreRows, Screens, AreDrafts, OnlyConfirmedIsSaved, RefsKept, DismissedWereSeen
<1>3. Fresh'
  BY <1>1 DEF Fresh
<1>4. Calls'
  BY <1>1 DEF ReviewInv, Calls, Asked, Ready, Merging, AreDrafts, duplicatePairs
<1> QED BY <1>2, <1>3, <1>4 DEF ReviewInv

LEMMA Syncs == ASSUME ReviewInv, ~Overlap, Sync PROVE ReviewInv'
<1>1. /\ ids(rows) \cap ids(Coming) = {} /\ ids(Coming) \cap DOMAIN let = {} /\ calls = {} /\ stale'
      /\ rows' = [i \in ids(rows) \cup ids(Coming) |-> IF i \in ids(rows) THEN rows[i] ELSE Coming[i]]
      /\ let' = [i \in DOMAIN let \cup ids(Coming) |-> IF i \in DOMAIN let THEN let[i] ELSE {<<Coming[i].category, Coming[i].payee>>}]
      /\ UNCHANGED <<dismissed, flags, copy, drafts, form, calls, spare, missed>>
  BY DEF Sync
<1>2. Tables'
  <2>1. AreRows(rows)'
    BY <1>1, ReviewConstants DEF ReviewInv, Tables, AreRows, IsRow, ids
  <2> QED BY <1>1, <2>1 DEF ReviewInv, Tables, ids, Ids
<1>3. Calls' /\ Fresh' /\ Screens' /\ DismissedWereSeen'
  BY <1>1 DEF ReviewInv, Calls, Fresh, Screens, AreDrafts, DismissedWereSeen
<1>4. OnlyConfirmedIsSaved'
  BY <1>1 DEF ReviewInv, Tables, OnlyConfirmedIsSaved, ids
<1>5. RefsKept'
  <2>1. ids(rows) \subseteq ids(rows)' /\ \A j \in ids(rows) : rows'[j] = rows[j]
    BY <1>1 DEF ids
  <2>2. spare' = spare
    BY <1>1
  <2> QED BY <2>1, <2>2 DEF ReviewInv, RefsKept
<1> QED BY <1>2, <1>3, <1>4, <1>5 DEF ReviewInv

\* What is typed on the page stays there.
LEMMA Editing ==
  ASSUME ReviewInv, UNCHANGED <<server, copy, stale, calls, let, spare, missed>>,
         AreDrafts(drafts) => AreDrafts(drafts)', drafts' # None => AreDrafts(drafts)',
         form' # None => form' = [id |-> form'.id, category |-> form'.category, payee |-> form'.payee]
  PROVE  ReviewInv'
<1>1. UNCHANGED <<rows, dismissed, flags>>
  BY DEF server
<1>2. Tables' /\ Fresh' /\ Screens' /\ OnlyConfirmedIsSaved' /\ RefsKept' /\ DismissedWereSeen'
  BY <1>1 DEF ReviewInv, Tables, AreRows, Fresh, Unserved, Screens, OnlyConfirmedIsSaved, RefsKept, DismissedWereSeen
<1>3. Calls'
  BY <1>1 DEF ReviewInv, Calls, Asked, Ready, Merging, duplicatePairs
<1> QED BY <1>2, <1>3 DEF ReviewInv

LEMMA Edits == ASSUME ReviewInv, allAccounts \/ edit \/ selectAll \/ openEdit PROVE ReviewInv'
<1>1. UNCHANGED <<server, copy, stale, calls, let, spare, missed>>
  BY DEF allAccounts, edit, selectAll, openEdit, Edit, asked
<1>2. ASSUME UNCHANGED drafts
      PROVE  (AreDrafts(drafts) => AreDrafts(drafts)') /\ (drafts' # None => AreDrafts(drafts)')
  BY <1>2 DEF ReviewInv, Screens, AreDrafts
<1>3. CASE allAccounts
  BY <1>1, <1>2, <1>3, Editing DEF allAccounts, ReviewInv, Screens
<1>4. CASE openEdit
  <2>1. UNCHANGED drafts /\ form' = [id |-> form'.id, category |-> form'.category, payee |-> form'.payee]
    BY <1>4 DEF openEdit
  <2> QED BY <1>1, <1>2, <2>1, Editing
\* A draft is changed in place.
<1>5. ASSUME AreDrafts(drafts), form' = form, drafts' = [i \in DOMAIN drafts |-> drafts'[i]],
             \A i \in DOMAIN drafts :
               /\ drafts'[i] = [categoryId |-> drafts'[i].categoryId, payeeId |-> drafts'[i].payeeId, picked |-> drafts'[i].picked]
               /\ drafts'[i].picked => drafts'[i].categoryId # None
      PROVE  ReviewInv'
  <2>1. AreDrafts(drafts)'
    BY <1>5 DEF AreDrafts
  <2> QED BY <1>1, <1>5, <2>1, Editing DEF ReviewInv, Screens
<1>6. CASE edit
  <2>1. PICK i \in shown :
          \/ \E v \in Payees : drafts' = [drafts EXCEPT ![i].payeeId = v]
          \/ \E v \in Categories : drafts' = [drafts EXCEPT ![i].categoryId = v, ![i].picked = TRUE]
          \/ drafts[i].categoryId # None /\ drafts' = [drafts EXCEPT ![i].picked = ~@]
    BY <1>6 DEF edit
  <2>2. i \in DOMAIN drafts /\ AreDrafts(drafts) /\ form' = form
    BY <1>6, <2>1 DEF shown, ReviewInv, Screens, edit
  <2>3. ASSUME NEW v \in Payees, drafts' = [drafts EXCEPT ![i].payeeId = v] PROVE ReviewInv'
    <3>1. \A j \in DOMAIN drafts :
            /\ drafts'[j] = [categoryId |-> drafts'[j].categoryId, payeeId |-> drafts'[j].payeeId, picked |-> drafts'[j].picked]
            /\ drafts'[j].picked => drafts'[j].categoryId # None
      BY <2>2, <2>3 DEF AreDrafts
    <3> QED BY <1>5, <2>2, <2>3, <3>1
  <2>4. ASSUME NEW v \in Categories, drafts' = [drafts EXCEPT ![i].categoryId = v, ![i].picked = TRUE] PROVE ReviewInv'
    <3>1. \A j \in DOMAIN drafts :
            /\ drafts'[j] = [categoryId |-> drafts'[j].categoryId, payeeId |-> drafts'[j].payeeId, picked |-> drafts'[j].picked]
            /\ drafts'[j].picked => drafts'[j].categoryId # None
      <4>1. /\ \A j \in DOMAIN drafts : j # i => drafts'[j] = drafts[j]
            /\ drafts'[i] = [categoryId |-> v, payeeId |-> drafts[i].payeeId, picked |-> TRUE]
        <5>1. /\ drafts = [j \in DOMAIN drafts |-> drafts[j]]
              /\ drafts[i] = [categoryId |-> drafts[i].categoryId, payeeId |-> drafts[i].payeeId, picked |-> drafts[i].picked]
          BY <2>2 DEF AreDrafts
        <5>2. \A j \in DOMAIN drafts : j # i => drafts'[j] = drafts[j]
          BY <2>2, <2>4, <5>1
        <5>3. drafts'[i] = [categoryId |-> v, payeeId |-> drafts[i].payeeId, picked |-> TRUE]
          BY <2>2, <2>4, <5>1
        <5> QED BY <5>2, <5>3
      <4>2. v # None
        BY ReviewConstants
      <4>3. drafts'[i].categoryId = v /\ drafts'[i].payeeId = drafts[i].payeeId /\ drafts'[i].picked
        BY <4>1
      <4> QED BY <2>2, <4>1, <4>2, <4>3 DEF AreDrafts
    <3> QED BY <1>5, <2>2, <2>4, <3>1
  <2>5. ASSUME drafts[i].categoryId # None, drafts' = [drafts EXCEPT ![i].picked = ~@] PROVE ReviewInv'
    <3>1. \A j \in DOMAIN drafts :
            /\ drafts'[j] = [categoryId |-> drafts'[j].categoryId, payeeId |-> drafts'[j].payeeId, picked |-> drafts'[j].picked]
            /\ drafts'[j].picked => drafts'[j].categoryId # None
      BY <2>2, <2>5 DEF AreDrafts
    <3> QED BY <1>5, <2>2, <2>5, <3>1
  <2> QED BY <2>1, <2>3, <2>4, <2>5
<1>7. CASE selectAll
  <2> DEFINE could == {i \in shown : drafts[i].categoryId # None}
  <2>1. PICK to : to = (picked # could)
    OBVIOUS
  <2>2. /\ could # {} /\ form' = form
        /\ drafts' = [i \in DOMAIN drafts |-> IF i \in could THEN [drafts[i] EXCEPT !.picked = to] ELSE drafts[i]]
    BY <1>7, <2>1 DEF selectAll
  <2>3. AreDrafts(drafts)
    BY <2>2 DEF shown, ReviewInv, Screens
  <2>4. \A i \in could : drafts[i].categoryId # None
    OBVIOUS
  <2> HIDE DEF could
  <2>5. \A j \in DOMAIN drafts :
          /\ drafts'[j] = [categoryId |-> drafts'[j].categoryId, payeeId |-> drafts'[j].payeeId, picked |-> drafts'[j].picked]
          /\ drafts'[j].picked => drafts'[j].categoryId # None
    BY <2>2, <2>3, <2>4 DEF AreDrafts
  <2> QED BY <1>5, <2>2, <2>3, <2>5
<1> QED BY <1>3, <1>4, <1>6, <1>7

-----------------------------------------------------------------------------
(****************************************************************************)
(* The theorems                                                             *)
(****************************************************************************)

LEMMA Starts == ASSUME Init PROVE ReviewInv
<1>1. /\ rows = Imported /\ flags = Flags /\ dismissed = {} /\ ~stale
      /\ copy = [rows |-> rows, dismissed |-> dismissed, flags |-> flags]
      /\ drafts = None /\ form = None /\ calls = {} /\ spare = {} /\ missed = {}
      /\ let = [i \in ids(Imported) |-> {<<Imported[i].category, Imported[i].payee>>}]
  BY DEF Init, Current
<1>2. Tables
  BY <1>1, ReviewConstants DEF Tables, Ids, ids
<1>3. Calls /\ Fresh /\ Screens /\ DismissedWereSeen
  BY <1>1 DEF Calls, Fresh, Screens, DismissedWereSeen
<1>4. OnlyConfirmedIsSaved /\ RefsKept
  BY <1>1 DEF OnlyConfirmedIsSaved, RefsKept, ids
<1> QED BY <1>2, <1>3, <1>4 DEF ReviewInv

LEMMA Steps == ASSUME ReviewInv, ~Overlap, [Next]_vars PROVE ReviewInv'
<1>1. CASE UNCHANGED vars
  <2>1. UNCHANGED <<server, copy, stale, calls, let, spare, missed, drafts, form>>
    BY <1>1 DEF vars, server
  <2>2. (AreDrafts(drafts) => AreDrafts(drafts)') /\ (drafts' # None => AreDrafts(drafts)')
    BY <2>1 DEF ReviewInv, Screens, AreDrafts
  <2> QED BY <2>1, <2>2, Editing DEF ReviewInv, Screens
<1>2. ASSUME NEW c \in calls, Serve(c) \/ Refuse(c) \/ Answer(c) PROVE ReviewInv'
  BY <1>2, Serves, Refuses, Answers
<1>3. CASE Next
  BY <1>2, <1>3, Filing, Completing, Comparing, Edits, Refreshes, Syncs DEF Next
<1> QED BY <1>1, <1>3

\* Where one page works on a wallet at a time, the tables are tables, a call does what was asked
\* for on rows that are still as it read them (review.go reads and writes without a transaction
\* around both), and the page shows the rows there are whenever it may send (ReviewPage.tsx).
THEOREM ReviewInvariant == ASSUME ~Overlap PROVE Spec => []ReviewInv
<1>1. Init => ReviewInv
  BY Starts
<1>2. ReviewInv /\ [Next]_vars => ReviewInv'
  BY Steps
<1> QED BY <1>1, <1>2, PTL DEF Spec

\* However rows are filed, proposed for, merged, dismissed, deleted and brought by a sync, a row's
\* category is its own or one the reader chose, the refs of the bank stay on a row, and no pair is
\* dismissed unseen (review.go, review_mail.go).
THEOREM InboxIsKept == ASSUME ~Overlap PROVE Spec => []InboxKeeps
<1>1. ReviewInv => InboxKeeps
  <2> SUFFICES ASSUME ReviewInv PROVE InboxKeeps
    OBVIOUS
  <2>1. dups \cap copy.dismissed = {}
    BY PairsOnScreen, PairIsOfTwo
  <2>2. TypeOK
    BY <2>1 DEF TypeOK, ReviewInv, Screens, AreDrafts
  <2> QED BY <2>2 DEF InboxKeeps, ReviewInv
<1> QED BY <1>1, ReviewInvariant, PTL

(****************************************************************************)
(* Sequences folded and things said of all numbers: induction, from the     *)
(* well-foundedness of the numbers.                                         *)
(****************************************************************************)
LEMMA Smallest ==
  ASSUME NEW S \in SUBSET Nat, S # {}
  PROVE  \E m \in S : \A k \in S : m <= k
<1>1. PICK m \in S : \A k \in S : ~(<<k, m>> \in OpToRel(<, Nat))
  BY NatLessThanWellFounded, WFMin
<1>2. \A k \in S : ~(k < m)
  BY <1>1 DEF OpToRel
<1> QED BY <1>2

LEMMA NatInd ==
  ASSUME NEW S \in SUBSET Nat, 0 \in S, \A n \in S : n + 1 \in S
  PROVE  S = Nat
<1>1. SUFFICES ASSUME Nat \ S # {} PROVE FALSE
  OBVIOUS
<1>2. PICK m \in Nat \ S : \A k \in Nat \ S : m <= k
  BY <1>1, Smallest
<1> QED BY <1>2

Largest(s) == CHOOSE x \in s : \A y \in s : x >= y

\* The largest of some numbers up to n.
LEMMA LargestOf ==
  ASSUME NEW n \in Nat, NEW s \in SUBSET (1 .. n), s # {}
  PROVE  Largest(s) \in s /\ \A y \in s : y <= Largest(s)
<1> DEFINE S == {n - x : x \in s}
<1>1. PICK m \in S : \A k \in S : m <= k
  <2>1. \A x \in s : n - x \in Nat
    OBVIOUS
  <2>2. S \in SUBSET Nat /\ S # {}
    BY <2>1
  <2> HIDE DEF S
  <2> QED BY <2>2, Smallest
<1>2. PICK x \in s : m = n - x
  BY <1>1
<1>3. ASSUME NEW y \in s PROVE x >= y
  <2>1. n - y \in S
    OBVIOUS
  <2>2. m <= n - y
    BY <1>1, <2>1
  <2> QED BY <1>2, <2>2
<1> QED BY <1>2, <1>3 DEF Largest

\* A function that folds the numbers up to n, the largest last: T[u, i] is u with i.
Folds(g, base, n, T) ==
  \A s \in SUBSET (1 .. n) : g[s] = IF s = {} THEN base ELSE T[<<g[s \ {Largest(s)}], Largest(s)>>]

LEMMA FoldOneMore ==
  ASSUME NEW U, NEW base \in U, NEW n \in Nat, NEW T \in [U \X (1 .. n) -> U],
         NEW k \in Nat, k + 1 <= n, NEW g \in [SUBSET (1 .. k) -> U], Folds(g, base, k, T)
  PROVE  \E h \in [SUBSET (1 .. (k + 1)) -> U] : Folds(h, base, k + 1, T)
<1> DEFINE h == [s \in SUBSET (1 .. (k + 1)) |->
                   IF k + 1 \in s THEN T[<<g[s \ {k + 1}], k + 1>>] ELSE g[s]]
<1>2. \A s \in SUBSET (1 .. (k + 1)) : s \ {k + 1} \in SUBSET (1 .. k) /\ (k + 1 \notin s => s \in SUBSET (1 .. k))
  OBVIOUS
<1>3. h \in [SUBSET (1 .. (k + 1)) -> U]
  <2>1. ASSUME NEW s \in SUBSET (1 .. (k + 1))
        PROVE  (IF k + 1 \in s THEN T[<<g[s \ {k + 1}], k + 1>>] ELSE g[s]) \in U
    <3>1. g[s \ {k + 1}] \in U
      BY <1>2
    <3>2. k + 1 \in 1 .. n
      OBVIOUS
    <3>3. T[<<g[s \ {k + 1}], k + 1>>] \in U
      BY <3>1, <3>2
    <3> QED BY <1>2, <3>3
  <2> QED BY <2>1
<1>4. ASSUME NEW s \in SUBSET (1 .. (k + 1))
      PROVE  h[s] = IF s = {} THEN base ELSE T[<<h[s \ {Largest(s)}], Largest(s)>>]
  <2>1. CASE k + 1 \in s
    <3>1. k + 1 \in Nat /\ s # {}
      BY <2>1
    <3>2. Largest(s) = k + 1
      <4>1. Largest(s) \in s /\ \A y \in s : y <= Largest(s)
        BY <3>1, LargestOf
      <4>2. k + 1 <= Largest(s) /\ Largest(s) \in 1 .. (k + 1)
        BY <2>1, <4>1
      <4> QED BY <4>2
    <3>3. s \ {k + 1} \in SUBSET (1 .. (k + 1)) /\ k + 1 \notin s \ {k + 1}
      OBVIOUS
    <3>4. h[s \ {k + 1}] = g[s \ {k + 1}]
      BY <3>3
    <3>5. h[s] = T[<<g[s \ {k + 1}], k + 1>>] /\ s # {}
      BY <2>1
    <3> HIDE DEF h
    <3> QED BY <3>2, <3>4, <3>5
  <2>2. CASE k + 1 \notin s
    <3>1. s \in SUBSET (1 .. k) /\ h[s] = g[s]
      BY <1>2, <2>2
    <3>2. CASE s = {}
      BY <3>1, <3>2 DEF Folds
    <3>3. CASE s # {}
      <4>1. s \ {Largest(s)} \in SUBSET (1 .. k) /\ s \ {Largest(s)} \in SUBSET (1 .. (k + 1)) /\ k + 1 \notin s \ {Largest(s)}
        BY <2>2, <3>1
      <4>2. h[s \ {Largest(s)}] = g[s \ {Largest(s)}]
        BY <4>1
      <4>3. g[s] = T[<<g[s \ {Largest(s)}], Largest(s)>>]
        BY <3>1, <3>3 DEF Folds
      <4> HIDE DEF h
      <4> QED BY <3>1, <3>3, <4>2, <4>3
    <3> QED BY <3>2, <3>3
  <2> QED BY <2>1, <2>2
<1> HIDE DEF h
<1>5. Folds(h, base, k + 1, T)
  BY <1>4 DEF Folds
<1> QED BY <1>3, <1>5

CanFold(U, base, n, T, k) ==
  k <= n => \E g \in [SUBSET (1 .. k) -> U] : Folds(g, base, k, T)

\* Every fold there is to be done can be done.
LEMMA FoldExists ==
  ASSUME NEW U, NEW base \in U, NEW n \in Nat, NEW T \in [U \X (1 .. n) -> U]
  PROVE  \E g \in [SUBSET (1 .. n) -> U] : Folds(g, base, n, T)
<1> DEFINE S == {k \in Nat : CanFold(U, base, n, T, k)}
<1>1. 0 \in S
  <2> DEFINE g == [s \in SUBSET (1 .. 0) |-> base]
  <2>1. \A s \in SUBSET (1 .. 0) : s = {}
    OBVIOUS
  <2>2. g \in [SUBSET (1 .. 0) -> U] /\ Folds(g, base, 0, T)
    BY <2>1 DEF Folds
  <2> HIDE DEF g
  <2> QED BY <2>2 DEF CanFold
<1>2. ASSUME NEW k \in S PROVE k + 1 \in S
  <2>1. k \in Nat /\ k + 1 \in Nat /\ CanFold(U, base, n, T, k)
    OBVIOUS
  <2>2. CanFold(U, base, n, T, k + 1)
    <3> SUFFICES ASSUME k + 1 <= n PROVE \E h \in [SUBSET (1 .. (k + 1)) -> U] : Folds(h, base, k + 1, T)
      BY DEF CanFold
    <3> k <= n
      BY <2>1
    <3>1. PICK g \in [SUBSET (1 .. k) -> U] : Folds(g, base, k, T)
      BY <2>1 DEF CanFold
    <3> HIDE DEF S
    <3> QED BY <2>1, <3>1, FoldOneMore
  <2> QED BY <2>1, <2>2
<1>3. S = Nat
  <2> HIDE DEF S
  <2>1. S \in SUBSET Nat
    BY DEF S
  <2> QED BY <1>1, <1>2, <2>1, NatInd
<1>4. CanFold(U, base, n, T, n)
  <2> n \in S
    BY <1>3
  <2> QED OBVIOUS
<1>5. n <= n
  OBVIOUS
<1> QED BY <1>4, <1>5 DEF CanFold

\* The first k numbers, the last of them taken away.
LEMMA Initial ==
  ASSUME NEW n \in Nat, NEW k \in 1 .. n
  PROVE  /\ 1 .. k \in SUBSET (1 .. n) /\ 1 .. k # {}
         /\ Largest(1 .. k) = k
         /\ (1 .. k) \ {k} = 1 .. (k - 1)
         /\ 1 .. (k - 1) \in SUBSET (1 .. n)
<1>1. 1 .. k \in SUBSET (1 .. n) /\ 1 .. k # {} /\ k \in 1 .. k
  OBVIOUS
<1>2. Largest(1 .. k) \in 1 .. k /\ k <= Largest(1 .. k)
  <2>1. Largest(1 .. k) \in 1 .. k /\ \A y \in 1 .. k : y <= Largest(1 .. k)
    BY <1>1, LargestOf
  <2> QED BY <1>1, <2>1
<1> QED BY <1>1, <1>2

\* What holds of the first step and is kept by every next one holds of all.
LEMMA Along ==
  ASSUME NEW n \in Nat, NEW W, NEW r, r[0] \in W[0],
         \A k \in 1 .. n : r[k - 1] \in W[k - 1] => r[k] \in W[k]
  PROVE  \A k \in 0 .. n : r[k] \in W[k]
<1> DEFINE S == {k \in Nat : k <= n => r[k] \in W[k]}
<1>1. 0 \in S
  OBVIOUS
<1>2. ASSUME NEW k \in S PROVE k + 1 \in S
  <2>1. CASE k + 1 <= n
    <3>1. k + 1 \in 1 .. n /\ (k + 1) - 1 = k /\ r[k] \in W[k]
      BY <2>1
    <3>2. r[k + 1] \in W[k + 1]
      BY <3>1
    <3> QED BY <3>1, <3>2
  <2>2. CASE ~(k + 1 <= n)
    BY <2>2
  <2> QED BY <2>1, <2>2
<1>3. S = Nat
  <2>1. S \in SUBSET Nat
    OBVIOUS
  <2> HIDE DEF S
  <2> QED BY <1>1, <1>2, <2>1, NatInd
<1> QED BY <1>3

(****************************************************************************)
(* NavLayout: the reader's own sidebar, for any pages, built-in groups and  *)
(* saved layouts.  migrateNavLayout folds the groups, their entries and the *)
(* pages there are: what a fold keeps is proved along it.                   *)
(****************************************************************************)
CONSTANTS NavItems, NavGroups, AddedIn2, Retired, Separators, SavedBefore
VARIABLES saved, editor, timer, drag

N == INSTANCE NavLayout

MenuEntries == [of : N!Destinations \cup Separators, hidden : BOOLEAN]
MenuGroups == [id : N!GroupIds \ {"settings"}, own : BOOLEAN, hidden : BOOLEAN, entries : Seq(MenuEntries)]

\* The pages in a group's entries, and that no page is there twice.
PagesOf(entries) == {x \in N!Destinations : \E j \in DOMAIN entries : entries[j].of = x}
NoneTwice(entries) ==
  \A j, k \in DOMAIN entries :
    entries[j].of \in N!Destinations /\ entries[j].of = entries[k].of => j = k

\* Groups of a menu: none shares its id or a page with another, or has a page twice.
Apart(groups) ==
  \A i, k \in DOMAIN groups :
    i # k => /\ groups[i].id # groups[k].id
             /\ PagesOf(groups[i].entries) \cap PagesOf(groups[k].entries) = {}
OnceEach(groups) ==
  /\ groups \in Seq(MenuGroups) /\ Apart(groups)
  /\ \A i \in DOMAIN groups : NoneTwice(groups[i].entries)
Whole(groups) == OnceEach(groups) /\ N!PagesIn(groups) = N!Destinations

-----------------------------------------------------------------------------
\* Where the first that fits is.
LEMMA FirstOf ==
  ASSUME NEW n \in Nat, NEW I \in SUBSET (1 .. n), I # {}
  PROVE  N!Min(I) \in I
<1>1. I \in SUBSET Nat
  OBVIOUS
<1>2. PICK m \in I : \A k \in I : m <= k
  BY <1>1, Smallest
<1> QED BY <1>2 DEF N!Min

\* One taken out of a sequence: the others stay in their order.
LEMMA OneTakenOut ==
  ASSUME NEW U, NEW s \in Seq(U), NEW j \in DOMAIN s
  PROVE  /\ N!RemoveAt(s, j) \in Seq(U) /\ Len(N!RemoveAt(s, j)) = Len(s) - 1
         /\ \A i \in 1 .. Len(s) - 1 : N!RemoveAt(s, j)[i] = s[IF i < j THEN i ELSE i + 1]
<1> DEFINE a == SubSeq(s, 1, j - 1)
           b == SubSeq(s, j + 1, Len(s))
<1>1. j \in 1 .. Len(s) /\ Len(s) \in Nat /\ \A i \in 1 .. Len(s) : s[i] \in U
  OBVIOUS
<1>2. a \in Seq(U) /\ Len(a) = j - 1 /\ \A i \in 1 .. j - 1 : a[i] = s[i]
  BY <1>1, SubSeqProperties
<1>3. b \in Seq(U) /\ Len(b) = Len(s) - j /\ \A i \in 1 .. Len(s) - j : b[i] = s[j + i]
  BY <1>1, SubSeqProperties
<1>4. N!RemoveAt(s, j) = a \o b
  BY DEF N!RemoveAt
<1> HIDE DEF a, b
<1>5. /\ a \o b \in Seq(U) /\ Len(a \o b) = Len(s) - 1
      /\ \A i \in 1 .. Len(s) - 1 : (a \o b)[i] = IF i <= j - 1 THEN a[i] ELSE b[i - (j - 1)]
  <2>1. /\ a \o b \in Seq(U) /\ Len(a \o b) = Len(a) + Len(b)
        /\ \A i \in 1 .. Len(a) + Len(b) : (a \o b)[i] = IF i <= Len(a) THEN a[i] ELSE b[i - Len(a)]
    BY <1>2, <1>3, ConcatProperties
  <2>2. Len(a) + Len(b) = Len(s) - 1
    BY <1>1, <1>2, <1>3
  <2> QED BY <1>2, <2>1, <2>2
<1>6. ASSUME NEW i \in 1 .. Len(s) - 1
      PROVE  (a \o b)[i] = s[IF i < j THEN i ELSE i + 1]
  <2>1. CASE i < j
    BY <1>1, <1>2, <1>5, <2>1
  <2>2. CASE ~(i < j)
    <3>1. i - (j - 1) \in 1 .. Len(s) - j /\ j + (i - (j - 1)) = i + 1
      BY <1>1, <2>2
    <3>2. (a \o b)[i] = b[i - (j - 1)]
      BY <1>1, <1>5, <2>2
    <3>3. b[i - (j - 1)] = s[j + (i - (j - 1))]
      BY <1>3, <3>1
    <3> QED BY <2>2, <3>1, <3>2, <3>3
  <2> QED BY <2>1, <2>2
<1> QED BY <1>4, <1>5, <1>6

\* One put into a sequence.
LEMMA OnePutIn ==
  ASSUME NEW U, NEW s \in Seq(U), NEW k \in 1 .. Len(s) + 1, NEW e \in U
  PROVE  /\ N!InsertAt(s, k, e) \in Seq(U) /\ Len(N!InsertAt(s, k, e)) = Len(s) + 1
         /\ N!InsertAt(s, k, e)[k] = e
         /\ \A i \in 1 .. k - 1 : N!InsertAt(s, k, e)[i] = s[i]
         /\ \A i \in k + 1 .. Len(s) + 1 : N!InsertAt(s, k, e)[i] = s[i - 1]
<1> DEFINE a == SubSeq(s, 1, k - 1)
           c == a \o <<e>>
           b == SubSeq(s, k, Len(s))
<1>1. Len(s) \in Nat /\ \A i \in 1 .. Len(s) : s[i] \in U
  OBVIOUS
<1>2. a \in Seq(U) /\ Len(a) = k - 1 /\ \A i \in 1 .. k - 1 : a[i] = s[i]
  BY <1>1, SubSeqProperties
<1>3. b \in Seq(U) /\ Len(b) = Len(s) + 1 - k /\ \A i \in 1 .. Len(s) + 1 - k : b[i] = s[k + i - 1]
  BY <1>1, SubSeqProperties
<1>4. N!InsertAt(s, k, e) = c \o b
  BY DEF N!InsertAt
<1> HIDE DEF a, b
<1>5. c \in Seq(U) /\ Len(c) = k /\ c[k] = e /\ \A i \in 1 .. k - 1 : c[i] = a[i]
  <2>1. <<e>> \in Seq(U) /\ Len(<<e>>) = 1 /\ <<e>>[1] = e
    OBVIOUS
  <2>2. /\ c \in Seq(U) /\ Len(c) = Len(a) + Len(<<e>>)
        /\ \A i \in 1 .. Len(a) + Len(<<e>>) : c[i] = IF i <= Len(a) THEN a[i] ELSE <<e>>[i - Len(a)]
    BY <1>2, <2>1, ConcatProperties
  <2> HIDE DEF c
  <2> QED BY <1>2, <2>1, <2>2
<1> HIDE DEF c
<1>6. /\ c \o b \in Seq(U) /\ Len(c \o b) = Len(c) + Len(b)
      /\ \A i \in 1 .. Len(c) + Len(b) : (c \o b)[i] = IF i <= Len(c) THEN c[i] ELSE b[i - Len(c)]
  BY <1>3, <1>5, ConcatProperties
<1> DEFINE q == c \o b
<1>7. q \in Seq(U) /\ Len(q) = Len(s) + 1 /\ \A i \in 1 .. Len(s) + 1 : q[i] = IF i <= k THEN c[i] ELSE b[i - k]
  BY <1>1, <1>3, <1>5, <1>6
<1> HIDE DEF q
<1>8. ASSUME NEW i \in k + 1 .. Len(s) + 1 PROVE q[i] = s[i - 1]
  <2>1. i - k \in 1 .. Len(s) + 1 - k /\ k + (i - k) - 1 = i - 1 /\ i \in 1 .. Len(s) + 1 /\ ~(i <= k)
    BY <1>1
  <2> QED BY <1>3, <1>7, <2>1
<1>9. q[k] = e /\ \A i \in 1 .. k - 1 : q[i] = s[i]
  BY <1>1, <1>2, <1>5, <1>7
<1> QED BY <1>4, <1>7, <1>8, <1>9 DEF q

\* The same ones in another order: f says where each was.
Reorders(f, s, q) ==
  /\ f \in [1 .. Len(s) -> 1 .. Len(s)]
  /\ \A k, l \in 1 .. Len(s) : f[k] = f[l] => k = l
  /\ \A l \in 1 .. Len(s) : \E k \in 1 .. Len(s) : f[k] = l
  /\ \A k \in 1 .. Len(s) : q[k] = s[f[k]]

\* One moved within a sequence: the same ones, in another order.
LEMMA OneMoved ==
  ASSUME NEW U, NEW s \in Seq(U), NEW i \in DOMAIN s, NEW j \in DOMAIN s
  PROVE  /\ N!arrayMove(s, i, j) \in Seq(U) /\ Len(N!arrayMove(s, i, j)) = Len(s)
         /\ \E f : Reorders(f, s, N!arrayMove(s, i, j))
<1> DEFINE r == N!RemoveAt(s, i)
           q == N!InsertAt(r, j, s[i])
<1>1. i \in 1 .. Len(s) /\ j \in 1 .. Len(s) /\ Len(s) \in Nat /\ s[i] \in U
  OBVIOUS
<1>2. r \in Seq(U) /\ Len(r) = Len(s) - 1 /\ \A k \in 1 .. Len(s) - 1 : r[k] = s[IF k < i THEN k ELSE k + 1]
  BY OneTakenOut
<1> HIDE DEF r
<1>3. /\ q \in Seq(U) /\ Len(q) = Len(s) /\ q[j] = s[i]
      /\ \A k \in 1 .. j - 1 : q[k] = r[k]
      /\ \A k \in j + 1 .. Len(s) : q[k] = r[k - 1]
  <2>1. j \in 1 .. Len(r) + 1 /\ Len(r) + 1 = Len(s)
    BY <1>1, <1>2
  <2>4. r \in Seq(U)
    BY <1>2
  <2>2. ASSUME NEW k \in 1 .. Len(r) + 1, NEW e \in U
        PROVE
          /\ N!InsertAt(r, k, e) \in Seq(U) /\ Len(N!InsertAt(r, k, e)) = Len(r) + 1
          /\ N!InsertAt(r, k, e)[k] = e
          /\ \A l \in 1 .. k - 1 : N!InsertAt(r, k, e)[l] = r[l]
          /\ \A l \in k + 1 .. Len(r) + 1 : N!InsertAt(r, k, e)[l] = r[l - 1]
    <3>1. N!InsertAt(r, k, e) \in Seq(U) BY <2>4, OnePutIn
    <3>2. Len(N!InsertAt(r, k, e)) = Len(r) + 1 BY <2>4, OnePutIn
    <3>3. N!InsertAt(r, k, e)[k] = e BY <2>4, OnePutIn
    <3>4. \A l \in 1 .. k - 1 : N!InsertAt(r, k, e)[l] = r[l] BY <2>4, OnePutIn
    <3>5. \A l \in k + 1 .. Len(r) + 1 : N!InsertAt(r, k, e)[l] = r[l - 1] BY <2>4, OnePutIn
    <3> QED BY <3>1, <3>2, <3>3, <3>4, <3>5
  <2>3. /\ q \in Seq(U) /\ Len(q) = Len(r) + 1 /\ q[j] = s[i]
        /\ \A k \in 1 .. j - 1 : q[k] = r[k]
        /\ \A k \in j + 1 .. Len(r) + 1 : q[k] = r[k - 1]
    BY <1>1, <2>1, <2>2
  <2> HIDE DEF q
  <2> QED BY <2>1, <2>3
<1>4. N!arrayMove(s, i, j) = q
  BY DEF N!arrayMove, r
<1> HIDE DEF q
<1> DEFINE f == [k \in 1 .. Len(s) |-> IF k = j THEN i
                                      ELSE IF k < j THEN (IF k < i THEN k ELSE k + 1)
                                      ELSE IF k - 1 < i THEN k - 1 ELSE k]
<1>5. f \in [1 .. Len(s) -> 1 .. Len(s)]
  BY <1>1
<1>6. \A k \in 1 .. Len(s) : f[k] = IF k = j THEN i ELSE IF k < j THEN (IF k < i THEN k ELSE k + 1)
                                      ELSE IF k - 1 < i THEN k - 1 ELSE k
  OBVIOUS
<1> HIDE DEF f
<1>7. \A k, l \in 1 .. Len(s) : f[k] = f[l] => k = l
  BY <1>1, <1>6
<1>8. ASSUME NEW l \in 1 .. Len(s) PROVE \E k \in 1 .. Len(s) : f[k] = l
  <2>1. CASE l = i
    BY <1>1, <1>6, <2>1
  <2>2. CASE l < i
    <3>1. CASE l < j
      BY <1>1, <1>6, <2>2, <3>1
    <3>2. CASE ~(l < j)
      <4>1. l + 1 \in 1 .. Len(s) /\ f[l + 1] = l
        BY <1>1, <1>6, <2>2, <3>2
      <4> QED BY <4>1
    <3> QED BY <3>1, <3>2
  <2>3. CASE l > i
    <3>1. CASE l - 1 < j
      <4>1. l - 1 \in 1 .. Len(s) /\ f[l - 1] = l
        BY <1>1, <1>6, <2>3, <3>1
      <4> QED BY <4>1
    <3>2. CASE ~(l - 1 < j)
      BY <1>1, <1>6, <2>3, <3>2
    <3> QED BY <3>1, <3>2
  <2> QED BY <1>1, <2>1, <2>2, <2>3
<1>9. ASSUME NEW k \in 1 .. Len(s) PROVE q[k] = s[f[k]]
  <2>1. CASE k = j
    BY <1>3, <1>6, <2>1
  <2>2. CASE k < j
    <3>1. k \in 1 .. j - 1 /\ k \in 1 .. Len(s) - 1
      BY <1>1, <2>2
    <3> QED BY <1>1, <1>2, <1>3, <1>6, <2>2, <3>1
  <2>3. CASE k > j
    <3>1. k \in j + 1 .. Len(s) /\ k - 1 \in 1 .. Len(s) - 1 /\ (k - 1) + 1 = k
      BY <1>1, <2>3
    <3> QED BY <1>1, <1>2, <1>3, <1>6, <2>3, <3>1
  <2> QED BY <1>1, <2>1, <2>2, <2>3
<1> QED BY <1>3, <1>4, <1>5, <1>7, <1>8, <1>9 DEF Reorders

-----------------------------------------------------------------------------
LEMMA PagesArePages ==
  ASSUME NEW entries
  PROVE  PagesOf(entries) \subseteq N!Destinations
BY DEF PagesOf

\* An entry put in: its page, if it is one, is there as well.
LEMMA EntryPutIn ==
  ASSUME NEW s \in Seq(MenuEntries), NoneTwice(s), NEW k \in 1 .. Len(s) + 1, NEW e \in MenuEntries,
         e.of \notin PagesOf(s)
  PROVE  /\ N!InsertAt(s, k, e) \in Seq(MenuEntries) /\ NoneTwice(N!InsertAt(s, k, e))
         /\ PagesOf(N!InsertAt(s, k, e)) = PagesOf(s) \cup ({e.of} \cap N!Destinations)
<1> DEFINE q == N!InsertAt(s, k, e)
<1>1. q \in Seq(MenuEntries)
  BY OnePutIn
<1>2. Len(q) = Len(s) + 1 /\ q[k] = e
  BY OnePutIn
<1>3. \A i \in 1 .. k - 1 : q[i] = s[i]
  BY OnePutIn
<1>4. \A i \in k + 1 .. Len(s) + 1 : q[i] = s[i - 1]
  BY OnePutIn
<1>5. DOMAIN q = 1 .. Len(s) + 1 /\ DOMAIN s = 1 .. Len(s) /\ Len(s) \in Nat
  BY <1>1, <1>2
<1> HIDE DEF q
<1>6. ASSUME NEW i \in DOMAIN q, i # k
      PROVE  \E l \in DOMAIN s : q[i] = s[l] /\ l = IF i < k THEN i ELSE i - 1
  <2>1. CASE i < k
    <3>1. i \in 1 .. k - 1 /\ i \in DOMAIN s
      BY <1>5, <2>1
    <3> QED BY <1>3, <2>1, <3>1
  <2>2. CASE ~(i < k)
    <3>1. i \in k + 1 .. Len(s) + 1 /\ i - 1 \in DOMAIN s
      BY <1>5, <1>6, <2>2
    <3> QED BY <1>4, <2>2, <3>1
  <2> QED BY <2>1, <2>2
<1>7. ASSUME NEW l \in DOMAIN s
      PROVE  \E i \in DOMAIN q : q[i] = s[l]
  <2>1. CASE l < k
    <3>1. l \in 1 .. k - 1 /\ l \in DOMAIN q
      BY <1>5, <2>1
    <3> QED BY <1>3, <3>1
  <2>2. CASE ~(l < k)
    <3>1. l + 1 \in k + 1 .. Len(s) + 1 /\ l + 1 \in DOMAIN q /\ (l + 1) - 1 = l
      BY <1>5, <2>2
    <3>2. q[l + 1] = s[l]
      BY <1>4, <3>1
    <3> QED BY <3>1, <3>2
  <2> QED BY <2>1, <2>2
<1>8. k \in DOMAIN q
  BY <1>5
<1>9. NoneTwice(q)
  <2> SUFFICES ASSUME NEW i \in DOMAIN q, NEW j \in DOMAIN q, q[i].of \in N!Destinations, q[i].of = q[j].of
               PROVE  i = j
    BY DEF NoneTwice
  <2>1. CASE i = k
    <3>1. CASE j # k
      <4>1. PICK l \in DOMAIN s : q[j] = s[l]
        BY <1>6, <3>1
      <4> QED BY <1>2, <2>1, <4>1 DEF PagesOf
    <3> QED BY <2>1, <3>1
  <2>2. CASE j = k /\ i # k
    <3>1. PICK l \in DOMAIN s : q[i] = s[l]
      BY <1>6, <2>2
    <3> QED BY <1>2, <2>2, <3>1 DEF PagesOf
  <2>3. CASE i # k /\ j # k
    <3>1. PICK a \in DOMAIN s : q[i] = s[a] /\ a = IF i < k THEN i ELSE i - 1
      BY <1>6, <2>3
    <3>2. PICK b \in DOMAIN s : q[j] = s[b] /\ b = IF j < k THEN j ELSE j - 1
      BY <1>6, <2>3
    <3>3. a = b
      BY <3>1, <3>2 DEF NoneTwice
    <3> QED BY <1>5, <2>3, <3>1, <3>2, <3>3
  <2> QED BY <2>1, <2>2, <2>3
<1>10. PagesOf(q) = PagesOf(s) \cup ({e.of} \cap N!Destinations)
  <2>1. ASSUME NEW x \in PagesOf(q) PROVE x \in PagesOf(s) \cup ({e.of} \cap N!Destinations)
    <3>1. PICK i \in DOMAIN q : q[i].of = x /\ x \in N!Destinations
      BY DEF PagesOf
    <3>2. CASE i = k
      BY <1>2, <3>1, <3>2
    <3>3. CASE i # k
      <4>1. PICK l \in DOMAIN s : q[i] = s[l]
        BY <1>6, <3>3
      <4> QED BY <3>1, <4>1 DEF PagesOf
    <3> QED BY <3>2, <3>3
  <2>2. ASSUME NEW x \in PagesOf(s) PROVE x \in PagesOf(q)
    <3>1. PICK l \in DOMAIN s : s[l].of = x /\ x \in N!Destinations
      BY DEF PagesOf
    <3>2. PICK i \in DOMAIN q : q[i] = s[l]
      BY <1>7
    <3> QED BY <3>1, <3>2 DEF PagesOf
  <2>3. {e.of} \cap N!Destinations \subseteq PagesOf(q)
    BY <1>2, <1>8 DEF PagesOf
  <2> QED BY <2>1, <2>2, <2>3
<1> QED BY <1>1, <1>9, <1>10 DEF q

\* An entry put at the end.
LEMMA EntryAdded ==
  ASSUME NEW s \in Seq(MenuEntries), NoneTwice(s), NEW e \in MenuEntries, e.of \notin PagesOf(s)
  PROVE  /\ Append(s, e) \in Seq(MenuEntries) /\ NoneTwice(Append(s, e))
         /\ PagesOf(Append(s, e)) = PagesOf(s) \cup ({e.of} \cap N!Destinations)
<1> DEFINE q == Append(s, e)
<1>1. q \in Seq(MenuEntries) /\ DOMAIN q = 1 .. Len(s) + 1 /\ q[Len(s) + 1] = e
      /\ DOMAIN s = 1 .. Len(s) /\ Len(s) \in Nat
      /\ \A i \in 1 .. Len(s) : q[i] = s[i]
  OBVIOUS
<1> HIDE DEF q
<1>2. \A i \in DOMAIN q : i = Len(s) + 1 \/ i \in DOMAIN s
  BY <1>1
<1>3. NoneTwice(q)
  BY <1>1, <1>2 DEF NoneTwice, PagesOf
<1>4. PagesOf(q) = PagesOf(s) \cup ({e.of} \cap N!Destinations)
  <2>1. PagesOf(q) \subseteq PagesOf(s) \cup ({e.of} \cap N!Destinations)
    BY <1>1, <1>2 DEF PagesOf
  <2>2. PagesOf(s) \subseteq PagesOf(q)
    BY <1>1 DEF PagesOf
  <2>3. {e.of} \cap N!Destinations \subseteq PagesOf(q)
    BY <1>1 DEF PagesOf
  <2> QED BY <2>1, <2>2, <2>3
<1> QED BY <1>1, <1>3, <1>4 DEF q

\* An entry taken out: its page, if it is one, is gone from these entries.
LEMMA EntryTakenOut ==
  ASSUME NEW s \in Seq(MenuEntries), NoneTwice(s), NEW j \in DOMAIN s
  PROVE  /\ N!RemoveAt(s, j) \in Seq(MenuEntries) /\ NoneTwice(N!RemoveAt(s, j))
         /\ PagesOf(N!RemoveAt(s, j)) = PagesOf(s) \ {s[j].of}
<1> DEFINE q == N!RemoveAt(s, j)
<1>1. q \in Seq(MenuEntries) /\ Len(q) = Len(s) - 1
  BY OneTakenOut
<1>2. \A i \in 1 .. Len(s) - 1 : q[i] = s[IF i < j THEN i ELSE i + 1]
  BY OneTakenOut
<1>3. DOMAIN q = 1 .. Len(s) - 1 /\ DOMAIN s = 1 .. Len(s) /\ Len(s) \in Nat
  BY <1>1
<1> HIDE DEF q
<1>4. NoneTwice(q)
  <2> SUFFICES ASSUME NEW i \in DOMAIN q, NEW k \in DOMAIN q, q[i].of \in N!Destinations, q[i].of = q[k].of
               PROVE  i = k
    BY DEF NoneTwice
  <2> DEFINE a == IF i < j THEN i ELSE i + 1
             b == IF k < j THEN k ELSE k + 1
  <2>1. a \in DOMAIN s /\ b \in DOMAIN s
    BY <1>3
  <2>2. s[a].of \in N!Destinations /\ s[a].of = s[b].of
    BY <1>2, <1>3
  <2>3. a = b
    <3> HIDE DEF a, b
    <3> QED BY <2>1, <2>2 DEF NoneTwice
  <2> QED BY <1>3, <2>3
<1>5. PagesOf(q) \subseteq PagesOf(s) \ {s[j].of}
  <2> SUFFICES ASSUME NEW i \in DOMAIN q, q[i].of \in N!Destinations
               PROVE  q[i].of \in PagesOf(s) /\ q[i].of # s[j].of
    BY DEF PagesOf
  <2> DEFINE a == IF i < j THEN i ELSE i + 1
  <2>1. a \in DOMAIN s /\ a # j
    BY <1>3
  <2>2. q[i] = s[a]
    BY <1>2, <1>3
  <2> HIDE DEF a
  <2> QED BY <2>1, <2>2 DEF PagesOf, NoneTwice
<1>6. ASSUME NEW x \in PagesOf(s), x # s[j].of PROVE x \in PagesOf(q)
  <2>1. PICK l \in DOMAIN s : s[l].of = x /\ x \in N!Destinations
    BY DEF PagesOf
  <2>2. \E i \in DOMAIN q : q[i] = s[l]
    <3>1. CASE l < j
      <4>1. l \in DOMAIN q
        BY <1>3, <3>1
      <4> QED BY <1>2, <1>3, <3>1, <4>1
    <3>2. CASE l > j
      <4>1. l - 1 \in DOMAIN q /\ (l - 1) + 1 = l /\ ~(l - 1 < j)
        BY <1>3, <3>2
      <4>2. q[l - 1] = s[l]
        BY <1>2, <1>3, <4>1
      <4> QED BY <4>1, <4>2
    <3> QED BY <1>3, <1>6, <2>1, <3>1, <3>2
  <2> QED BY <2>1, <2>2 DEF PagesOf
<1> QED BY <1>1, <1>4, <1>5, <1>6 DEF q

\* An entry moved among its own: the same pages.
LEMMA EntryMoved ==
  ASSUME NEW s \in Seq(MenuEntries), NoneTwice(s), NEW i \in DOMAIN s, NEW j \in DOMAIN s
  PROVE  /\ N!arrayMove(s, i, j) \in Seq(MenuEntries) /\ NoneTwice(N!arrayMove(s, i, j))
         /\ PagesOf(N!arrayMove(s, i, j)) = PagesOf(s)
<1> DEFINE q == N!arrayMove(s, i, j)
<1>1. q \in Seq(MenuEntries) /\ Len(q) = Len(s)
  BY OneMoved
<1>2. PICK f : Reorders(f, s, q)
  BY OneMoved
<1>3. DOMAIN q = 1 .. Len(s) /\ DOMAIN s = 1 .. Len(s)
  BY <1>1
<1> HIDE DEF q
<1>4. NoneTwice(q)
  <2> SUFFICES ASSUME NEW k \in DOMAIN q, NEW l \in DOMAIN q, q[k].of \in N!Destinations, q[k].of = q[l].of
               PROVE  k = l
    BY DEF NoneTwice
  <2>1. f[k] \in DOMAIN s /\ f[l] \in DOMAIN s /\ q[k] = s[f[k]] /\ q[l] = s[f[l]]
    BY <1>2, <1>3 DEF Reorders
  <2>2. f[k] = f[l]
    BY <2>1 DEF NoneTwice
  <2> QED BY <1>2, <1>3, <2>2 DEF Reorders
<1>5. PagesOf(q) \subseteq PagesOf(s)
  <2> SUFFICES ASSUME NEW k \in DOMAIN q, q[k].of \in N!Destinations
               PROVE  q[k].of \in PagesOf(s)
    BY DEF PagesOf
  <2>1. f[k] \in DOMAIN s /\ q[k] = s[f[k]]
    BY <1>2, <1>3 DEF Reorders
  <2> QED BY <2>1 DEF PagesOf
<1>6. PagesOf(s) \subseteq PagesOf(q)
  <2> SUFFICES ASSUME NEW l \in DOMAIN s, s[l].of \in N!Destinations
               PROVE  s[l].of \in PagesOf(q)
    BY DEF PagesOf
  <2>1. PICK k \in DOMAIN q : f[k] = l
    BY <1>2, <1>3 DEF Reorders
  <2>2. q[k] = s[l]
    BY <1>2, <1>3, <2>1 DEF Reorders
  <2> QED BY <2>2 DEF PagesOf
<1> QED BY <1>1, <1>4, <1>5, <1>6 DEF q

-----------------------------------------------------------------------------
LEMMA PagesInGroups ==
  ASSUME NEW groups, NEW x
  PROVE  x \in N!PagesIn(groups) <=> \E i \in DOMAIN groups : x \in PagesOf(groups[i].entries)
BY DEF N!PagesIn, PagesOf

LEMMA InMenu ==
  ASSUME NEW groups, OnceEach(groups)
  PROVE  /\ groups \in Seq(MenuGroups) /\ Len(groups) \in Nat /\ DOMAIN groups = 1 .. Len(groups)
         /\ \A i \in DOMAIN groups :
              /\ groups[i] \in MenuGroups /\ NoneTwice(groups[i].entries)
              /\ groups[i].entries \in Seq(MenuEntries)
<1>1. groups \in Seq(MenuGroups) /\ \A i \in DOMAIN groups : NoneTwice(groups[i].entries)
  BY DEF OnceEach
<1>2. DOMAIN groups = 1 .. Len(groups) /\ Len(groups) \in Nat /\ \A i \in DOMAIN groups : groups[i] \in MenuGroups
  BY <1>1
<1>3. \A g \in MenuGroups : g.entries \in Seq(MenuEntries)
  BY DEF MenuGroups
<1> QED BY <1>1, <1>2, <1>3

\* One group is another of the same id, with no page of the others.
LEMMA GroupChanged ==
  ASSUME NEW groups, OnceEach(groups), NEW k \in DOMAIN groups, NEW g \in MenuGroups,
         g.id = groups[k].id, NoneTwice(g.entries),
         \A i \in DOMAIN groups : i # k => PagesOf(g.entries) \cap PagesOf(groups[i].entries) = {}
  PROVE  /\ OnceEach([groups EXCEPT ![k] = g])
         /\ N!PagesIn([groups EXCEPT ![k] = g])
              = (N!PagesIn(groups) \ PagesOf(groups[k].entries)) \cup PagesOf(g.entries)
<1> DEFINE q == [groups EXCEPT ![k] = g]
<1>1. q \in Seq(MenuGroups) /\ DOMAIN q = DOMAIN groups /\ q[k] = g
      /\ \A i \in DOMAIN groups : i # k => q[i] = groups[i]
  BY InMenu
<1> HIDE DEF q
<1>2. Apart(q)
  BY <1>1 DEF OnceEach, Apart
<1>3. \A i \in DOMAIN q : NoneTwice(q[i].entries)
  BY <1>1 DEF OnceEach
<1>4. N!PagesIn(q) = (N!PagesIn(groups) \ PagesOf(groups[k].entries)) \cup PagesOf(g.entries)
  <2> SUFFICES ASSUME NEW x
               PROVE  x \in N!PagesIn(q) <=>
                        \/ x \in N!PagesIn(groups) /\ x \notin PagesOf(groups[k].entries)
                        \/ x \in PagesOf(g.entries)
    OBVIOUS
  <2>1. x \in N!PagesIn(q) <=> \E i \in DOMAIN groups : x \in PagesOf(q[i].entries)
    BY <1>1, PagesInGroups
  <2>2. x \in N!PagesIn(groups) <=> \E i \in DOMAIN groups : x \in PagesOf(groups[i].entries)
    BY PagesInGroups
  <2>3. \A i \in DOMAIN groups : i # k /\ x \in PagesOf(groups[i].entries) => x \notin PagesOf(groups[k].entries)
    BY DEF OnceEach, Apart
  <2> QED BY <1>1, <2>1, <2>2, <2>3
<1> QED BY <1>1, <1>2, <1>3, <1>4 DEF OnceEach, q

\* A group of a new id and new pages at the end.
LEMMA GroupAdded ==
  ASSUME NEW groups, OnceEach(groups), NEW g \in MenuGroups, NoneTwice(g.entries),
         \A i \in DOMAIN groups : groups[i].id # g.id,
         PagesOf(g.entries) \cap N!PagesIn(groups) = {}
  PROVE  OnceEach(Append(groups, g)) /\ N!PagesIn(Append(groups, g)) = N!PagesIn(groups) \cup PagesOf(g.entries)
<1> DEFINE q == Append(groups, g)
<1>1. q \in Seq(MenuGroups) /\ DOMAIN q = DOMAIN groups \cup {Len(groups) + 1} /\ q[Len(groups) + 1] = g
      /\ \A i \in DOMAIN groups : q[i] = groups[i] /\ i # Len(groups) + 1
  BY InMenu
<1> HIDE DEF q
<1>2. \A i \in DOMAIN groups : PagesOf(g.entries) \cap PagesOf(groups[i].entries) = {}
  BY PagesInGroups
<1>3. Apart(q)
  BY <1>1, <1>2 DEF OnceEach, Apart
<1>4. \A i \in DOMAIN q : NoneTwice(q[i].entries)
  BY <1>1 DEF OnceEach
<1>5. N!PagesIn(q) = N!PagesIn(groups) \cup PagesOf(g.entries)
  <2> SUFFICES ASSUME NEW x
               PROVE  x \in N!PagesIn(q) <=> x \in N!PagesIn(groups) \/ x \in PagesOf(g.entries)
    OBVIOUS
  <2>1. x \in N!PagesIn(q) <=> \E i \in DOMAIN q : x \in PagesOf(q[i].entries)
    BY PagesInGroups
  <2>2. x \in N!PagesIn(groups) <=> \E i \in DOMAIN groups : x \in PagesOf(groups[i].entries)
    BY PagesInGroups
  <2> QED BY <1>1, <2>1, <2>2
<1> QED BY <1>1, <1>3, <1>4, <1>5 DEF OnceEach, q

\* A group taken out.
LEMMA GroupTakenOut ==
  ASSUME NEW groups, OnceEach(groups), NEW k \in DOMAIN groups
  PROVE  /\ OnceEach(N!RemoveAt(groups, k))
         /\ N!PagesIn(N!RemoveAt(groups, k)) = N!PagesIn(groups) \ PagesOf(groups[k].entries)
<1> DEFINE q == N!RemoveAt(groups, k)
<1>1. groups \in Seq(MenuGroups) /\ DOMAIN groups = 1 .. Len(groups) /\ Len(groups) \in Nat
  BY InMenu
<1>2. q \in Seq(MenuGroups) /\ Len(q) = Len(groups) - 1
  BY <1>1, OneTakenOut
<1>3. \A i \in 1 .. Len(groups) - 1 : q[i] = groups[IF i < k THEN i ELSE i + 1]
  BY <1>1, OneTakenOut
<1>4. DOMAIN q = 1 .. Len(groups) - 1
  BY <1>1, <1>2
<1> HIDE DEF q
<1> DEFINE was(i) == IF i < k THEN i ELSE i + 1
<1>5. \A i \in DOMAIN q : was(i) \in DOMAIN groups /\ was(i) # k /\ q[i] = groups[was(i)]
  BY <1>1, <1>3, <1>4
<1>6. \A i, j \in DOMAIN q : was(i) = was(j) => i = j
  BY <1>1, <1>4
<1>7. \A l \in DOMAIN groups : l # k => \E i \in DOMAIN q : was(i) = l
  <2> SUFFICES ASSUME NEW l \in DOMAIN groups, l # k PROVE \E i \in DOMAIN q : was(i) = l
    OBVIOUS
  <2>1. CASE l < k
    <3>1. l \in DOMAIN q /\ was(l) = l
      BY <1>1, <1>4, <2>1
    <3> QED BY <3>1
  <2>2. CASE l > k
    <3>1. l - 1 \in DOMAIN q /\ was(l - 1) = l
      BY <1>1, <1>4, <2>2
    <3> HIDE DEF was
    <3> QED BY <3>1
  <2> QED BY <1>1, <2>1, <2>2
<1> HIDE DEF was
<1>8. Apart(q)
  <2> SUFFICES ASSUME NEW a \in DOMAIN q, NEW b \in DOMAIN q, a # b
               PROVE  /\ q[a].id # q[b].id
                      /\ PagesOf(q[a].entries) \cap PagesOf(q[b].entries) = {}
    BY DEF Apart
  <2>1. was(a) \in DOMAIN groups /\ was(b) \in DOMAIN groups /\ was(a) # was(b)
        /\ q[a] = groups[was(a)] /\ q[b] = groups[was(b)]
    BY <1>5, <1>6
  <2> QED BY <2>1 DEF OnceEach, Apart
<1>9. \A i \in DOMAIN q : NoneTwice(q[i].entries)
  BY <1>5 DEF OnceEach
<1>10. N!PagesIn(q) = N!PagesIn(groups) \ PagesOf(groups[k].entries)
  <2> SUFFICES ASSUME NEW x
               PROVE  x \in N!PagesIn(q) <=> x \in N!PagesIn(groups) /\ x \notin PagesOf(groups[k].entries)
    OBVIOUS
  <2>1. x \in N!PagesIn(q) <=> \E i \in DOMAIN q : x \in PagesOf(q[i].entries)
    BY PagesInGroups
  <2>2. x \in N!PagesIn(groups) <=> \E i \in DOMAIN groups : x \in PagesOf(groups[i].entries)
    BY PagesInGroups
  <2>3. \A i \in DOMAIN groups : i # k /\ x \in PagesOf(groups[i].entries) => x \notin PagesOf(groups[k].entries)
    BY DEF OnceEach, Apart
  <2> QED BY <1>5, <1>7, <2>1, <2>2, <2>3
<1> QED BY <1>2, <1>8, <1>9, <1>10 DEF OnceEach, q

\* A group moved among the others.
LEMMA GroupMoved ==
  ASSUME NEW groups, OnceEach(groups), NEW i \in DOMAIN groups, NEW j \in DOMAIN groups
  PROVE  /\ OnceEach(N!arrayMove(groups, i, j))
         /\ N!PagesIn(N!arrayMove(groups, i, j)) = N!PagesIn(groups)
<1> DEFINE q == N!arrayMove(groups, i, j)
<1>1. groups \in Seq(MenuGroups) /\ DOMAIN groups = 1 .. Len(groups)
  BY InMenu
<1>2. q \in Seq(MenuGroups) /\ Len(q) = Len(groups)
  BY <1>1, OneMoved
<1>3. PICK f : Reorders(f, groups, q)
  BY <1>1, OneMoved
<1>4. DOMAIN q = DOMAIN groups
  BY <1>1, <1>2
<1> HIDE DEF q
<1>5. \A k \in DOMAIN q : f[k] \in DOMAIN groups /\ q[k] = groups[f[k]]
  BY <1>1, <1>3, <1>4 DEF Reorders
<1>6. /\ \A k, l \in DOMAIN q : f[k] = f[l] => k = l
      /\ \A l \in DOMAIN groups : \E k \in DOMAIN q : f[k] = l
  BY <1>1, <1>3, <1>4 DEF Reorders
<1>7. Apart(q)
  <2> SUFFICES ASSUME NEW a \in DOMAIN q, NEW b \in DOMAIN q, a # b
               PROVE  /\ q[a].id # q[b].id
                      /\ PagesOf(q[a].entries) \cap PagesOf(q[b].entries) = {}
    BY DEF Apart
  <2>1. f[a] \in DOMAIN groups /\ f[b] \in DOMAIN groups /\ f[a] # f[b]
        /\ q[a] = groups[f[a]] /\ q[b] = groups[f[b]]
    BY <1>5, <1>6
  <2> QED BY <2>1 DEF OnceEach, Apart
<1>8. \A k \in DOMAIN q : NoneTwice(q[k].entries)
  BY <1>5 DEF OnceEach
<1>9. N!PagesIn(q) = N!PagesIn(groups)
  <2> SUFFICES ASSUME NEW x PROVE x \in N!PagesIn(q) <=> x \in N!PagesIn(groups)
    OBVIOUS
  <2>1. x \in N!PagesIn(q) <=> \E k \in DOMAIN q : x \in PagesOf(q[k].entries)
    BY PagesInGroups
  <2>2. x \in N!PagesIn(groups) <=> \E k \in DOMAIN groups : x \in PagesOf(groups[k].entries)
    BY PagesInGroups
  <2> QED BY <1>5, <1>6, <2>1, <2>2
<1> QED BY <1>2, <1>7, <1>8, <1>9 DEF OnceEach, q

\* The same ids and entries, shown or hidden otherwise.
LookAlike(groups, q) ==
  /\ q \in Seq(MenuGroups) /\ Len(q) = Len(groups)
  /\ \A i \in DOMAIN groups :
       /\ q[i].id = groups[i].id
       /\ DOMAIN q[i].entries = DOMAIN groups[i].entries
       /\ \A j \in DOMAIN groups[i].entries : q[i].entries[j].of = groups[i].entries[j].of

LEMMA SameLook ==
  ASSUME NEW groups, OnceEach(groups), NEW q, LookAlike(groups, q)
  PROVE  OnceEach(q) /\ N!PagesIn(q) = N!PagesIn(groups)
<1>1. q \in Seq(MenuGroups) /\ DOMAIN q = DOMAIN groups
  BY InMenu DEF LookAlike
<1>2. \A i \in DOMAIN groups : PagesOf(q[i].entries) = PagesOf(groups[i].entries)
  BY DEF LookAlike, PagesOf
<1>3. Apart(q)
  BY <1>1, <1>2 DEF OnceEach, Apart, LookAlike
<1>4. ASSUME NEW i \in DOMAIN q PROVE NoneTwice(q[i].entries)
  BY <1>1 DEF OnceEach, NoneTwice, LookAlike
<1>5. N!PagesIn(q) = N!PagesIn(groups)
  <2> SUFFICES ASSUME NEW x PROVE x \in N!PagesIn(q) <=> x \in N!PagesIn(groups)
    OBVIOUS
  <2>1. x \in N!PagesIn(q) <=> \E k \in DOMAIN q : x \in PagesOf(q[k].entries)
    BY PagesInGroups
  <2>2. x \in N!PagesIn(groups) <=> \E k \in DOMAIN groups : x \in PagesOf(groups[k].entries)
    BY PagesInGroups
  <2> QED BY <1>1, <1>2, <2>1, <2>2
<1> QED BY <1>1, <1>3, <1>4, <1>5 DEF OnceEach

-----------------------------------------------------------------------------
\* Reading a group's entries is Accept along them.
Accepts(r, n, base, seq, end) ==
  /\ r[0] = base /\ \A k \in 1 .. n : r[k] = N!Accept(r[k - 1], seq[k])
  /\ r[n] = end

LEMMA AcceptRuns ==
  ASSUME NEW U, NEW base \in U, NEW n \in Nat, NEW seq, DOMAIN seq = 1 .. n, NEW before,
         base = [seen |-> before, kept |-> << >>],
         \A a \in U : \A k \in 1 .. n : N!Accept(a, seq[k]) \in U
  PROVE  \E r : Accepts(r, n, base, seq, N!Reading(before, seq))
<1> DEFINE T == [p \in U \X (1 .. n) |-> N!Accept(p[1], seq[p[2]])]
<1>1. T \in [U \X (1 .. n) -> U]
  OBVIOUS
<1>2. PICK g \in [SUBSET (1 .. n) -> U] : Folds(g, base, n, T)
  <2> HIDE DEF T
  <2> QED BY <1>1, FoldExists
<1>3. g = [s \in SUBSET (1 .. n) |->
             IF s = {} THEN base ELSE N!Accept(g[s \ {Largest(s)}], seq[Largest(s)])]
  <2>1. ASSUME NEW s \in SUBSET (1 .. n), s # {}
        PROVE  g[s] = N!Accept(g[s \ {Largest(s)}], seq[Largest(s)])
    <3>1. s \ {Largest(s)} \in SUBSET (1 .. n) /\ Largest(s) \in 1 .. n
      BY <2>1, LargestOf
    <3>2. g[s \ {Largest(s)}] \in U
      BY <3>1
    <3> QED BY <1>2, <2>1, <3>1, <3>2 DEF Folds
  <2> QED BY <1>2, <2>1 DEF Folds
<1> DEFINE it == CHOOSE iter : iter = [s \in SUBSET (1 .. n) |->
                   IF s = {} THEN base ELSE N!Accept(iter[s \ {Largest(s)}], seq[Largest(s)])]
           r == [k \in 0 .. n |-> it[1 .. k]]
<1>4. it = [s \in SUBSET (1 .. n) |->
              IF s = {} THEN base ELSE N!Accept(it[s \ {Largest(s)}], seq[Largest(s)])]
  BY <1>3
<1>5. N!Reading(before, seq) = it[1 .. n]
  <2>1. DOMAIN seq = 1 .. n
    OBVIOUS
  <2> QED BY <2>1 DEF N!Reading, N!FoldLeft, N!MapThenFoldSet, N!Max, Largest
<1> HIDE DEF it
<1>6. it[1 .. 0] = base /\ \A k \in 1 .. n : it[1 .. k] = N!Accept(it[1 .. (k - 1)], seq[k])
  <2>1. 1 .. 0 = {} /\ 1 .. 0 \in SUBSET (1 .. n)
    OBVIOUS
  <2>2. ASSUME NEW k \in 1 .. n PROVE it[1 .. k] = N!Accept(it[1 .. (k - 1)], seq[k])
    <3>1. /\ 1 .. k \in SUBSET (1 .. n) /\ 1 .. k # {}
          /\ Largest(1 .. k) = k /\ (1 .. k) \ {k} = 1 .. (k - 1)
      BY Initial
    <3>2. it[1 .. k] = N!Accept(it[(1 .. k) \ {Largest(1 .. k)}], seq[Largest(1 .. k)])
      BY <1>4, <3>1
    <3> QED BY <3>1, <3>2
  <2> QED BY <1>4, <2>1, <2>2
<1>7. r[0] = base /\ r[n] = it[1 .. n] /\ \A k \in 1 .. n : r[k] = it[1 .. k] /\ r[k - 1] = it[1 .. (k - 1)]
  BY <1>6
<1> HIDE DEF r
<1>8. Accepts(r, n, base, seq, N!Reading(before, seq))
  BY <1>5, <1>6, <1>7 DEF Accepts
<1> QED BY <1>8

\* KeepGroup along the groups of a layout.
Keeps(r, n, base, seq, end) ==
  /\ r[0] = base /\ \A k \in 1 .. n : r[k] = N!KeepGroup(r[k - 1], seq[k])
  /\ r[n] = end

LEMMA KeepGroupRuns ==
  ASSUME NEW U, NEW base \in U, NEW n \in Nat, NEW seq, DOMAIN seq = 1 .. n,
         base = [seen |-> {}, groups |-> << >>],
         \A a \in U : \A k \in 1 .. n : N!KeepGroup(a, seq[k]) \in U
  PROVE  \E r : Keeps(r, n, base, seq, N!Keeping(seq))
<1> DEFINE T == [p \in U \X (1 .. n) |-> N!KeepGroup(p[1], seq[p[2]])]
<1>1. T \in [U \X (1 .. n) -> U]
  OBVIOUS
<1>2. PICK g \in [SUBSET (1 .. n) -> U] : Folds(g, base, n, T)
  <2> HIDE DEF T
  <2> QED BY <1>1, FoldExists
<1>3. g = [s \in SUBSET (1 .. n) |->
             IF s = {} THEN base ELSE N!KeepGroup(g[s \ {Largest(s)}], seq[Largest(s)])]
  <2>1. ASSUME NEW s \in SUBSET (1 .. n), s # {}
        PROVE  g[s] = N!KeepGroup(g[s \ {Largest(s)}], seq[Largest(s)])
    <3>1. s \ {Largest(s)} \in SUBSET (1 .. n) /\ Largest(s) \in 1 .. n
      BY <2>1, LargestOf
    <3>2. g[s \ {Largest(s)}] \in U
      BY <3>1
    <3> QED BY <1>2, <2>1, <3>1, <3>2 DEF Folds
  <2> QED BY <1>2, <2>1 DEF Folds
<1> DEFINE it == CHOOSE iter : iter = [s \in SUBSET (1 .. n) |->
                   IF s = {} THEN base ELSE N!KeepGroup(iter[s \ {Largest(s)}], seq[Largest(s)])]
           r == [k \in 0 .. n |-> it[1 .. k]]
<1>4. it = [s \in SUBSET (1 .. n) |->
              IF s = {} THEN base ELSE N!KeepGroup(it[s \ {Largest(s)}], seq[Largest(s)])]
  BY <1>3
<1>5. N!Keeping(seq) = it[1 .. n]
  <2>1. DOMAIN seq = 1 .. n
    OBVIOUS
  <2> QED BY <2>1 DEF N!Keeping, N!FoldLeft, N!MapThenFoldSet, N!Max, Largest
<1> HIDE DEF it
<1>6. it[1 .. 0] = base /\ \A k \in 1 .. n : it[1 .. k] = N!KeepGroup(it[1 .. (k - 1)], seq[k])
  <2>1. 1 .. 0 = {} /\ 1 .. 0 \in SUBSET (1 .. n)
    OBVIOUS
  <2>2. ASSUME NEW k \in 1 .. n PROVE it[1 .. k] = N!KeepGroup(it[1 .. (k - 1)], seq[k])
    <3>1. /\ 1 .. k \in SUBSET (1 .. n) /\ 1 .. k # {}
          /\ Largest(1 .. k) = k /\ (1 .. k) \ {k} = 1 .. (k - 1)
      BY Initial
    <3>2. it[1 .. k] = N!KeepGroup(it[(1 .. k) \ {Largest(1 .. k)}], seq[Largest(1 .. k)])
      BY <1>4, <3>1
    <3> QED BY <3>1, <3>2
  <2> QED BY <1>4, <2>1, <2>2
<1>7. r[0] = base /\ r[n] = it[1 .. n] /\ \A k \in 1 .. n : r[k] = it[1 .. k] /\ r[k - 1] = it[1 .. (k - 1)]
  BY <1>6
<1> HIDE DEF r
<1>8. Keeps(r, n, base, seq, N!Keeping(seq))
  BY <1>5, <1>6, <1>7 DEF Keeps
<1> QED BY <1>8

\* BackFill along the pages there are.
BackFills(r, n, base, layout, end) ==
  /\ r[0] = base /\ \A k \in 1 .. n : r[k] = N!BackFill(layout, r[k - 1], NavItems[k])
  /\ r[n] = end

LEMMA BackFillRuns ==
  ASSUME NEW U, NEW base \in U, NEW n \in Nat, DOMAIN NavItems = 1 .. n, NEW layout,
         \A a \in U : \A k \in 1 .. n : N!BackFill(layout, a, NavItems[k]) \in U
  PROVE  \E r : BackFills(r, n, base, layout, N!BackFilled(layout, base))
<1> DEFINE T == [p \in U \X (1 .. n) |-> N!BackFill(layout, p[1], NavItems[p[2]])]
<1>1. T \in [U \X (1 .. n) -> U]
  OBVIOUS
<1>2. PICK g \in [SUBSET (1 .. n) -> U] : Folds(g, base, n, T)
  <2> HIDE DEF T
  <2> QED BY <1>1, FoldExists
<1>3. g = [s \in SUBSET (1 .. n) |->
             IF s = {} THEN base ELSE N!BackFill(layout, g[s \ {Largest(s)}], NavItems[Largest(s)])]
  <2>1. ASSUME NEW s \in SUBSET (1 .. n), s # {}
        PROVE  g[s] = N!BackFill(layout, g[s \ {Largest(s)}], NavItems[Largest(s)])
    <3>1. s \ {Largest(s)} \in SUBSET (1 .. n) /\ Largest(s) \in 1 .. n
      BY <2>1, LargestOf
    <3>2. g[s \ {Largest(s)}] \in U
      BY <3>1
    <3> QED BY <1>2, <2>1, <3>1, <3>2 DEF Folds
  <2> QED BY <1>2, <2>1 DEF Folds
<1> DEFINE it == CHOOSE iter : iter = [s \in SUBSET (1 .. n) |->
                   IF s = {} THEN base ELSE N!BackFill(layout, iter[s \ {Largest(s)}], NavItems[Largest(s)])]
           r == [k \in 0 .. n |-> it[1 .. k]]
<1>4. it = [s \in SUBSET (1 .. n) |->
              IF s = {} THEN base ELSE N!BackFill(layout, it[s \ {Largest(s)}], NavItems[Largest(s)])]
  BY <1>3
<1>5. N!BackFilled(layout, base) = it[1 .. n]
  <2>1. DOMAIN NavItems = 1 .. n
    OBVIOUS
  <2> QED BY <2>1 DEF N!BackFilled, N!FoldLeft, N!MapThenFoldSet, N!Max, Largest
<1> HIDE DEF it
<1>6. it[1 .. 0] = base /\ \A k \in 1 .. n : it[1 .. k] = N!BackFill(layout, it[1 .. (k - 1)], NavItems[k])
  <2>1. 1 .. 0 = {} /\ 1 .. 0 \in SUBSET (1 .. n)
    OBVIOUS
  <2>2. ASSUME NEW k \in 1 .. n PROVE it[1 .. k] = N!BackFill(layout, it[1 .. (k - 1)], NavItems[k])
    <3>1. /\ 1 .. k \in SUBSET (1 .. n) /\ 1 .. k # {}
          /\ Largest(1 .. k) = k /\ (1 .. k) \ {k} = 1 .. (k - 1)
      BY Initial
    <3>2. it[1 .. k] = N!BackFill(layout, it[(1 .. k) \ {Largest(1 .. k)}], NavItems[Largest(1 .. k)])
      BY <1>4, <3>1
    <3> QED BY <3>1, <3>2
  <2> QED BY <1>4, <2>1, <2>2
<1>7. r[0] = base /\ r[n] = it[1 .. n] /\ \A k \in 1 .. n : r[k] = it[1 .. k] /\ r[k - 1] = it[1 .. (k - 1)]
  BY <1>6
<1> HIDE DEF r
<1>8. BackFills(r, n, base, layout, N!BackFilled(layout, base))
  BY <1>5, <1>6, <1>7 DEF BackFills
<1> QED BY <1>8

-----------------------------------------------------------------------------
\* A group found by its id, or not there.
LEMMA AtFinds ==
  ASSUME NEW groups, Len(groups) \in Nat, NEW id
  PROVE  \/ N!At(groups, id) \in 1 .. Len(groups) /\ groups[N!At(groups, id)].id = id
         \/ N!At(groups, id) = 0 /\ \A i \in 1 .. Len(groups) : groups[i].id # id
<1> DEFINE I == {i \in 1 .. Len(groups) : groups[i].id = id}
<1>1. N!At(groups, id) = IF I # {} THEN N!Min(I) ELSE 0
  BY DEF N!At, N!SelectInSeq
<1>2. I # {} => N!Min(I) \in I
  <2>1. I \in SUBSET (1 .. Len(groups))
    OBVIOUS
  <2> HIDE DEF I
  <2> QED BY <2>1, FirstOf
<1> QED BY <1>1, <1>2

\* An entry found by its name, or not there.
LEMMA FindFinds ==
  ASSUME NEW entries, Len(entries) \in Nat, NEW name
  PROVE  \/ N!Find(entries, name) \in 1 .. Len(entries) /\ entries[N!Find(entries, name)].of = name
         \/ N!Find(entries, name) = 0 /\ \A i \in 1 .. Len(entries) : entries[i].of # name
<1> DEFINE I == {i \in 1 .. Len(entries) : entries[i].of = name}
<1>1. N!Find(entries, name) = IF I # {} THEN N!Min(I) ELSE 0
  BY DEF N!Find, N!SelectInSeq
<1>2. I # {} => N!Min(I) \in I
  <2>1. I \in SUBSET (1 .. Len(entries))
    OBVIOUS
  <2> HIDE DEF I
  <2> QED BY <2>1, FirstOf
<1> QED BY <1>1, <1>2

\* The group a name is in, or is of, or none.
LEMMA ContainerFinds ==
  ASSUME NEW groups, Len(groups) \in Nat, NEW name
  PROVE  LET k == N!containerOf(groups, name)
         IN  \/ k \in 1 .. Len(groups) /\ (groups[k].id = name \/ N!Find(groups[k].entries, name) > 0)
             \/ /\ k = 0
                /\ \A i \in 1 .. Len(groups) :
                     groups[i].id # name /\ ~(N!Find(groups[i].entries, name) > 0)
<1> DEFINE I == {i \in 1 .. Len(groups) : groups[i].id = name \/ N!Find(groups[i].entries, name) > 0}
<1>1. N!containerOf(groups, name) = IF I # {} THEN N!Min(I) ELSE 0
  BY DEF N!containerOf, N!SelectInSeq
<1>2. I # {} => N!Min(I) \in I
  <2>1. I \in SUBSET (1 .. Len(groups))
    OBVIOUS
  <2> HIDE DEF I
  <2> QED BY <2>1, FirstOf
<1> QED BY <1>1, <1>2

\* Every page has a group of its own.
LEMMA HasAHome ==
  ASSUME N!NavConstants, NEW to \in N!Destinations
  PROVE  N!HomeOf(to) \in N!GroupIds \ {"settings"}
<1> DEFINE I == {i \in 1 .. Len(NavGroups) : N!Contains(NavGroups[i].items, to)}
<1>1. NavGroups \in Seq([id : N!GroupIds \ {"settings"}, items : Seq(N!Destinations)])
      /\ \E k \in DOMAIN NavGroups : N!Contains(NavGroups[k].items, to)
  BY DEF N!NavConstants
<1>2. DOMAIN NavGroups = 1 .. Len(NavGroups) /\ Len(NavGroups) \in Nat
      /\ \A k \in 1 .. Len(NavGroups) : NavGroups[k].id \in N!GroupIds \ {"settings"}
  <2> DEFINE G == [id : N!GroupIds \ {"settings"}, items : Seq(N!Destinations)]
  <2>1. DOMAIN NavGroups = 1 .. Len(NavGroups) /\ Len(NavGroups) \in Nat
        /\ \A k \in 1 .. Len(NavGroups) : NavGroups[k] \in G
    <3>1. NavGroups \in Seq(G)
      BY <1>1
    <3> HIDE DEF G
    <3> QED BY <3>1
  <2>2. \A g \in G : g.id \in N!GroupIds \ {"settings"}
    OBVIOUS
  <2> HIDE DEF G
  <2> QED BY <2>1, <2>2
<1>3. I \in SUBSET (1 .. Len(NavGroups)) /\ I # {}
  BY <1>1, <1>2
<1>4. N!HomeOf(to) = NavGroups[N!Min(I)].id
  BY <1>3 DEF N!HomeOf, N!SelectInSeq
<1>5. N!Min(I) \in I
  <2> HIDE DEF I
  <2> QED BY <1>2, <1>3, FirstOf
<1> QED BY <1>2, <1>4, <1>5

-----------------------------------------------------------------------------
\* What was read of a group, when the pages in before were met.
ReadFrom(before) ==
  {a \in [seen : SUBSET N!Destinations, kept : Seq(MenuEntries)] :
     /\ NoneTwice(a.kept) /\ before \cap PagesOf(a.kept) = {}
     /\ a.seen = before \cup PagesOf(a.kept)}

LEMMA AcceptReads ==
  ASSUME N!NavConstants, NEW before \in SUBSET N!Destinations, NEW a \in ReadFrom(before),
         NEW e \in N!SavedEntries
  PROVE  N!Accept(a, e) \in ReadFrom(before)
<1>1. /\ a \in [seen : SUBSET N!Destinations, kept : Seq(MenuEntries)]
      /\ NoneTwice(a.kept) /\ before \cap PagesOf(a.kept) = {}
      /\ a.seen = before \cup PagesOf(a.kept)
  BY DEF ReadFrom
<1>2. a.kept \in Seq(MenuEntries)
  BY <1>1
<1>3. ASSUME e.of \in N!Destinations \cup Separators PROVE e \in MenuEntries
  BY <1>3 DEF N!SavedEntries, MenuEntries
<1>4. CASE e.of \in Separators
  <2>1. e \in MenuEntries /\ e.of \notin N!Destinations
    BY <1>3, <1>4 DEF N!NavConstants
  <2>2. e.of \notin PagesOf(a.kept)
    BY <2>1 DEF PagesOf
  <2>3. /\ Append(a.kept, e) \in Seq(MenuEntries) /\ NoneTwice(Append(a.kept, e))
        /\ PagesOf(Append(a.kept, e)) = PagesOf(a.kept)
    BY <1>1, <1>2, <2>1, <2>2, EntryAdded
  <2>4. N!Accept(a, e) = [a EXCEPT !.kept = Append(a.kept, e)]
    BY <1>4 DEF N!Accept
  <2>5. /\ N!Accept(a, e) \in [seen : SUBSET N!Destinations, kept : Seq(MenuEntries)]
        /\ N!Accept(a, e).seen = a.seen /\ N!Accept(a, e).kept = Append(a.kept, e)
    BY <1>1, <2>3, <2>4
  <2> QED BY <1>1, <2>3, <2>5 DEF ReadFrom
<1>5. CASE e.of \notin Separators /\ e.of \in N!Destinations \ a.seen
  <2>1. e \in MenuEntries /\ e.of \in N!Destinations /\ e.of \notin before
    BY <1>1, <1>3, <1>5
  <2>2. e.of \notin PagesOf(a.kept)
    BY <1>1, <1>5
  <2>3. /\ Append(a.kept, e) \in Seq(MenuEntries) /\ NoneTwice(Append(a.kept, e))
        /\ PagesOf(Append(a.kept, e)) = PagesOf(a.kept) \cup {e.of}
    BY <1>1, <1>2, <2>1, <2>2, EntryAdded
  <2>4. N!Accept(a, e) = [seen |-> a.seen \cup {e.of}, kept |-> Append(a.kept, e)]
    BY <1>5 DEF N!Accept
  <2>5. /\ N!Accept(a, e) \in [seen : SUBSET N!Destinations, kept : Seq(MenuEntries)]
        /\ N!Accept(a, e).seen = a.seen \cup {e.of} /\ N!Accept(a, e).kept = Append(a.kept, e)
    BY <1>1, <2>1, <2>3, <2>4
  <2> DEFINE b == N!Accept(a, e)
  <2>6. NoneTwice(b.kept) /\ before \cap PagesOf(b.kept) = {} /\ b.seen = before \cup PagesOf(b.kept)
    BY <1>1, <2>1, <2>3, <2>5
  <2> HIDE DEF b
  <2>7. b \in ReadFrom(before)
    BY <2>5, <2>6 DEF ReadFrom, b
  <2> QED BY <2>7 DEF b
<1>6. CASE e.of \notin Separators /\ e.of \notin N!Destinations \ a.seen
  BY <1>6 DEF N!Accept
<1> QED BY <1>4, <1>5, <1>6

LEMMA GroupRead ==
  ASSUME N!NavConstants, NEW before \in SUBSET N!Destinations, NEW entries \in Seq(N!SavedEntries)
  PROVE  N!Reading(before, entries) \in ReadFrom(before)
<1> DEFINE base == [seen |-> before, kept |-> << >>]
           n == Len(entries)
           W == [k \in 0 .. n |-> ReadFrom(before)]
<1>1. base \in ReadFrom(before)
  <2>1. base \in [seen : SUBSET N!Destinations, kept : Seq(MenuEntries)]
    OBVIOUS
  <2>2. PagesOf(<< >>) = {} /\ NoneTwice(<< >>)
    BY DEF PagesOf, NoneTwice
  <2> QED BY <2>1, <2>2 DEF ReadFrom
<1>2. n \in Nat /\ DOMAIN entries = 1 .. n
  OBVIOUS
<1>3. \A a \in ReadFrom(before) : \A k \in 1 .. n : N!Accept(a, entries[k]) \in ReadFrom(before)
  <2>1. \A k \in 1 .. n : entries[k] \in N!SavedEntries
    OBVIOUS
  <2> QED BY <2>1, AcceptReads
<1>0. base = [seen |-> before, kept |-> << >>]
  OBVIOUS
<1> HIDE DEF base, n, W
<1>4. PICK r : Accepts(r, n, base, entries, N!Reading(before, entries))
  BY <1>0, <1>1, <1>2, <1>3, AcceptRuns
<1>5. r[0] \in W[0]
  BY <1>1, <1>2, <1>4 DEF W, Accepts
<1>6. ASSUME NEW k \in 1 .. n, r[k - 1] \in W[k - 1]
      PROVE  r[k] \in W[k]
  <2>1. k - 1 \in 0 .. n /\ k \in 0 .. n
    BY <1>2
  <2>2. r[k - 1] \in ReadFrom(before)
    BY <1>6, <2>1 DEF W
  <2> QED BY <1>3, <1>4, <2>1, <2>2 DEF W, Accepts
<1>7. r[n] \in W[n]
  <2>1. \A k \in 0 .. n : r[k] \in W[k]
    BY <1>2, <1>5, <1>6, Along
  <2> QED BY <1>2, <2>1
<1> QED BY <1>2, <1>4, <1>7 DEF base, W, Accepts

-----------------------------------------------------------------------------
\* What is kept of the groups so far.
SoFar == [seen : SUBSET N!Destinations, groups : Seq(MenuGroups)]

\* A built-in group that a later release took away, and that has no page.
Stale(g) == g.id \in Retired /\ ~g.own /\ PagesOf(g.entries) = {}

\* A group is left out, or kept with what was read of its entries.
LEMMA KeepGroupKeeps ==
  ASSUME N!NavConstants, NEW a \in SoFar, NEW g \in N!SavedGroups
  PROVE  \E read \in ReadFrom(a.seen) :
           /\ read = N!Reading(a.seen, g.entries)
           /\ \/ /\ N!KeepGroup(a, g) = a
                 /\ g.id = "settings" \/ (g.id \in Retired /\ ~g.own /\ PagesOf(read.kept) = {})
              \/ \E mine \in MenuGroups :
                   /\ mine = [g EXCEPT !.entries = read.kept]
                   /\ mine.id = g.id /\ mine.entries = read.kept /\ ~Stale(mine)
                   /\ N!KeepGroup(a, g) = [seen |-> read.seen, groups |-> Append(a.groups, mine)]
<1> DEFINE read == N!Reading(a.seen, g.entries)
           mine == [g EXCEPT !.entries = read.kept]
<1>1. a.seen \in SUBSET N!Destinations /\ g.entries \in Seq(N!SavedEntries)
  BY DEF SoFar, N!SavedGroups
<1>2. read \in ReadFrom(a.seen)
  BY <1>1, GroupRead
<1> HIDE DEF read
<1>3. read.kept \in Seq(MenuEntries)
  BY <1>2 DEF ReadFrom
<1>4. mine.id = g.id /\ mine.own = g.own /\ mine.entries = read.kept
  BY DEF N!SavedGroups
<1>5. g.id # "settings" => mine \in MenuGroups
  BY <1>3 DEF N!SavedGroups, MenuGroups
<1>6. N!HasItems(mine) <=> PagesOf(mine.entries) # {}
  BY DEF N!HasItems, PagesOf
<1>7. N!KeepGroup(a, g) = IF g.id = "settings" \/ (g.id \in Retired /\ ~g.own /\ ~N!HasItems(mine))
                          THEN a ELSE [seen |-> read.seen, groups |-> Append(a.groups, mine)]
  BY DEF N!KeepGroup, read
<1>8. mine = [g EXCEPT !.entries = read.kept] /\ read = N!Reading(a.seen, g.entries)
  BY DEF read
<1> HIDE DEF mine
<1>9. CASE g.id = "settings" \/ (g.id \in Retired /\ ~g.own /\ ~N!HasItems(mine))
  <2>1. N!KeepGroup(a, g) = a
    BY <1>7, <1>9
  <2>2. g.id = "settings" \/ (g.id \in Retired /\ ~g.own /\ PagesOf(read.kept) = {})
    BY <1>4, <1>6, <1>9
  <2> QED BY <1>2, <1>8, <2>1, <2>2
<1>10. CASE ~(g.id = "settings" \/ (g.id \in Retired /\ ~g.own /\ ~N!HasItems(mine)))
  <2>1. N!KeepGroup(a, g) = [seen |-> read.seen, groups |-> Append(a.groups, mine)]
    BY <1>7, <1>10
  <2>2. mine \in MenuGroups /\ ~Stale(mine)
    BY <1>4, <1>5, <1>6, <1>10 DEF Stale
  <2> QED BY <1>2, <1>4, <1>8, <2>1, <2>2
<1> QED BY <1>9, <1>10

\* After the first k groups: their pages were met, each kept once.
KeptOf(groups, k) ==
  {a \in SoFar : /\ OnceEach(a.groups) /\ a.seen = N!PagesIn(a.groups)
                 /\ \A i \in DOMAIN a.groups : \E j \in 1 .. k : a.groups[i].id = groups[j].id}

LEMMA KeepsOneMore ==
  ASSUME N!NavConstants, NEW groups \in Seq(N!SavedGroups), N!OwnIds(groups),
         NEW k \in 1 .. Len(groups), NEW a \in KeptOf(groups, k - 1)
  PROVE  N!KeepGroup(a, groups[k]) \in KeptOf(groups, k)
<1>1. /\ a \in SoFar /\ OnceEach(a.groups) /\ a.seen = N!PagesIn(a.groups)
      /\ \A i \in DOMAIN a.groups : \E j \in 1 .. k - 1 : a.groups[i].id = groups[j].id
  BY DEF KeptOf
<1>2. k \in DOMAIN groups /\ groups[k] \in N!SavedGroups /\ 1 .. k - 1 \subseteq 1 .. k /\ k \in 1 .. k
      /\ \A j \in 1 .. k - 1 : j \in DOMAIN groups /\ j # k
  OBVIOUS
<1>3. CASE N!KeepGroup(a, groups[k]) = a
  BY <1>1, <1>2, <1>3 DEF KeptOf
<1>4. ASSUME NEW read \in ReadFrom(a.seen), NEW mine \in MenuGroups,
             mine.id = groups[k].id, mine.entries = read.kept
      PROVE  [seen |-> read.seen, groups |-> Append(a.groups, mine)] \in KeptOf(groups, k)
  <2> DEFINE q == Append(a.groups, mine)
  <2>1. /\ read.seen \in SUBSET N!Destinations /\ NoneTwice(mine.entries)
        /\ PagesOf(mine.entries) \cap N!PagesIn(a.groups) = {}
        /\ read.seen = N!PagesIn(a.groups) \cup PagesOf(mine.entries)
    BY <1>1, <1>4 DEF ReadFrom
  <2>2. \A i \in DOMAIN a.groups : a.groups[i].id # mine.id
    BY <1>1, <1>2, <1>4 DEF N!OwnIds
  <2>3. OnceEach(q) /\ N!PagesIn(q) = read.seen
    BY <1>1, <2>1, <2>2, GroupAdded
  <2>4. /\ q \in Seq(MenuGroups)
        /\ \A i \in DOMAIN q : (i \in DOMAIN a.groups /\ q[i] = a.groups[i]) \/ q[i] = mine
    BY <1>1, InMenu
  <2> HIDE DEF q
  <2>5. \A i \in DOMAIN q : \E j \in 1 .. k : q[i].id = groups[j].id
    BY <1>1, <1>2, <1>4, <2>4
  <2>6. [seen |-> read.seen, groups |-> q] \in SoFar
    BY <2>1, <2>4 DEF SoFar
  <2> DEFINE b == [seen |-> read.seen, groups |-> q]
  <2>7. b.seen = read.seen /\ b.groups = q
    OBVIOUS
  <2> HIDE DEF b
  <2>8. b \in KeptOf(groups, k)
    BY <2>3, <2>5, <2>6, <2>7 DEF KeptOf, b
  <2> QED BY <2>8 DEF b, q
<1>5. PICK read \in ReadFrom(a.seen) :
        \/ N!KeepGroup(a, groups[k]) = a
        \/ \E mine \in MenuGroups :
             /\ mine.id = groups[k].id /\ mine.entries = read.kept
             /\ N!KeepGroup(a, groups[k]) = [seen |-> read.seen, groups |-> Append(a.groups, mine)]
  BY <1>1, <1>2, KeepGroupKeeps
<1> QED BY <1>3, <1>4, <1>5

LEMMA KeepGroupStays ==
  ASSUME N!NavConstants, NEW a \in SoFar, NEW g \in N!SavedGroups
  PROVE  N!KeepGroup(a, g) \in SoFar
<1>1. ASSUME NEW read \in ReadFrom(a.seen), NEW mine \in MenuGroups
      PROVE  [seen |-> read.seen, groups |-> Append(a.groups, mine)] \in SoFar
  <2>1. a.groups \in Seq(MenuGroups) /\ read.seen \in SUBSET N!Destinations
    BY DEF SoFar, ReadFrom
  <2>2. Append(a.groups, mine) \in Seq(MenuGroups)
    BY <2>1
  <2> QED BY <2>1, <2>2 DEF SoFar
<1>2. PICK read \in ReadFrom(a.seen) :
        \/ N!KeepGroup(a, g) = a
        \/ \E mine \in MenuGroups :
             N!KeepGroup(a, g) = [seen |-> read.seen, groups |-> Append(a.groups, mine)]
  BY KeepGroupKeeps
<1> QED BY <1>1, <1>2

LEMMA KeptWhole ==
  ASSUME N!NavConstants, NEW groups \in Seq(N!SavedGroups), N!OwnIds(groups)
  PROVE  OnceEach(N!Keeping(groups).groups)
<1> DEFINE base == [seen |-> {}, groups |-> << >>]
           n == Len(groups)
           W == [k \in 0 .. n |-> KeptOf(groups, k)]
<1>1. n \in Nat /\ DOMAIN groups = 1 .. n /\ \A k \in 1 .. n : groups[k] \in N!SavedGroups
  OBVIOUS
<1>2. base \in SoFar /\ base \in KeptOf(groups, 0)
  <2>1. base \in SoFar
    BY DEF SoFar
  <2>2. OnceEach(<< >>) /\ N!PagesIn(<< >>) = {}
    BY DEF OnceEach, Apart, N!PagesIn
  <2>3. base.seen = {} /\ base.groups = << >> /\ DOMAIN << >> = {}
    OBVIOUS
  <2> HIDE DEF base
  <2> QED BY <2>1, <2>2, <2>3 DEF KeptOf
<1>3. ASSUME NEW a \in SoFar, NEW k \in 1 .. n
      PROVE  N!KeepGroup(a, groups[k]) \in SoFar
  <2>1. groups[k] \in N!SavedGroups
    BY <1>1
  <2> HIDE DEF n, W, base
  <2> QED BY <2>1, KeepGroupStays
<1>4. base = [seen |-> {}, groups |-> << >>]
  OBVIOUS
<1> HIDE DEF base, n, W
<1>5. PICK r : Keeps(r, n, base, groups, N!Keeping(groups))
  BY <1>1, <1>2, <1>3, <1>4, KeepGroupRuns
<1>6. r[0] \in W[0]
  BY <1>1, <1>2, <1>5 DEF W, Keeps
<1>7. ASSUME NEW k \in 1 .. n, r[k - 1] \in W[k - 1]
      PROVE  r[k] \in W[k]
  <2>1. k - 1 \in 0 .. n /\ k \in 0 .. n /\ k \in 1 .. Len(groups)
    BY <1>1 DEF n
  <2>2. r[k - 1] \in KeptOf(groups, k - 1)
    BY <1>7, <2>1 DEF W
  <2>3. N!KeepGroup(r[k - 1], groups[k]) \in KeptOf(groups, k)
    BY <2>1, <2>2, KeepsOneMore
  <2> QED BY <1>5, <2>1, <2>3 DEF W, Keeps
<1>8. r[n] \in W[n]
  <2>1. \A k \in 0 .. n : r[k] \in W[k]
    BY <1>1, <1>6, <1>7, Along
  <2> QED BY <1>1, <2>1
<1> QED BY <1>1, <1>5, <1>8 DEF W, Keeps, KeptOf

-----------------------------------------------------------------------------
\* An entry pushed to a group.
LEMMA Pushed ==
  ASSUME NEW groups, OnceEach(groups), NEW k \in DOMAIN groups, NEW e \in MenuEntries,
         e.of \notin N!PagesIn(groups)
  PROVE  /\ OnceEach(N!Push(groups, k, e))
         /\ N!PagesIn(N!Push(groups, k, e)) = N!PagesIn(groups) \cup ({e.of} \cap N!Destinations)
<1> DEFINE g == [groups[k] EXCEPT !.entries = Append(groups[k].entries, e)]
<1>1. groups[k] \in MenuGroups /\ NoneTwice(groups[k].entries) /\ groups[k].entries \in Seq(MenuEntries)
  BY InMenu
<1>2. e.of \notin PagesOf(groups[k].entries)
  BY PagesInGroups
<1>3. /\ Append(groups[k].entries, e) \in Seq(MenuEntries) /\ NoneTwice(Append(groups[k].entries, e))
      /\ PagesOf(Append(groups[k].entries, e)) = PagesOf(groups[k].entries) \cup ({e.of} \cap N!Destinations)
  BY <1>1, <1>2, EntryAdded
<1>4. g \in MenuGroups /\ g.id = groups[k].id /\ g.entries = Append(groups[k].entries, e)
  BY <1>1, <1>3 DEF MenuGroups
<1>5. N!Push(groups, k, e) = [groups EXCEPT ![k] = g]
  BY DEF N!Push
<1> HIDE DEF g
<1>6. PagesOf(groups[k].entries) \subseteq N!PagesIn(groups)
  BY PagesInGroups
<1>7. ASSUME NEW i \in DOMAIN groups, i # k
      PROVE  PagesOf(g.entries) \cap PagesOf(groups[i].entries) = {}
  <2>1. PagesOf(groups[k].entries) \cap PagesOf(groups[i].entries) = {}
    BY <1>7 DEF OnceEach, Apart
  <2>2. e.of \notin PagesOf(groups[i].entries)
    BY PagesInGroups
  <2> QED BY <1>3, <1>4, <2>1, <2>2
<1>8. /\ OnceEach([groups EXCEPT ![k] = g])
      /\ N!PagesIn([groups EXCEPT ![k] = g])
           = (N!PagesIn(groups) \ PagesOf(groups[k].entries)) \cup PagesOf(g.entries)
  <2>1. g \in MenuGroups /\ g.id = groups[k].id /\ NoneTwice(g.entries)
    BY <1>3, <1>4
  <2>2. \A i \in DOMAIN groups : i # k => PagesOf(g.entries) \cap PagesOf(groups[i].entries) = {}
    BY <1>7
  <2> DEFINE q == [groups EXCEPT ![k] = g]
  <2>3. OnceEach(q)
    BY <2>1, <2>2, GroupChanged
  <2>4. N!PagesIn(q) = (N!PagesIn(groups) \ PagesOf(groups[k].entries)) \cup PagesOf(g.entries)
    BY <2>1, <2>2, GroupChanged
  <2> QED BY <2>3, <2>4
<1> QED BY <1>3, <1>4, <1>5, <1>6, <1>8

LEMMA BackFillKeeps ==
  ASSUME N!NavConstants, NEW layout, NEW groups, OnceEach(groups), NEW to \in N!Destinations
  PROVE  /\ OnceEach(N!BackFill(layout, groups, to))
         /\ N!PagesIn(N!BackFill(layout, groups, to)) = N!PagesIn(groups) \cup {to}
<1> DEFINE k == N!At(groups, N!HomeOf(to))
           new == N!isUnseen(to, layout)
           e == N!Item(to, new)
           alone == N!Group(N!HomeOf(to), <<e>>)
<1>1. groups \in Seq(MenuGroups) /\ Len(groups) \in Nat /\ DOMAIN groups = 1 .. Len(groups)
  BY InMenu
<1>2. N!Item(to, FALSE) \in MenuEntries /\ N!Item(to, FALSE).of = to
  BY DEF N!Item, MenuEntries
<1>3. e \in MenuEntries /\ e.of = to
  <2>1. new \in BOOLEAN
    BY DEF N!isUnseen
  <2> HIDE DEF new
  <2> QED BY <2>1 DEF N!Item, MenuEntries
<1>4. CASE to \in N!PagesIn(groups)
  BY <1>4 DEF N!BackFill
<1>5. CASE to \notin N!PagesIn(groups) /\ k > 0
  <2>1. k \in DOMAIN groups
    BY <1>1, <1>5, AtFinds
  <2>2. N!BackFill(layout, groups, to) = N!Push(groups, k, e)
    BY <1>5 DEF N!BackFill
  <2> HIDE DEF k, e
  <2> QED BY <1>3, <1>5, <2>1, <2>2, Pushed
<1>6. CASE to \notin N!PagesIn(groups) /\ ~(k > 0) /\ (new \/ groups = << >>)
  <2>1. \A i \in DOMAIN groups : groups[i].id # N!HomeOf(to)
    BY <1>1, <1>6, AtFinds
  <2>2. N!BackFill(layout, groups, to) = Append(groups, alone)
    BY <1>6 DEF N!BackFill
  <2>3. alone \in MenuGroups /\ alone.id = N!HomeOf(to) /\ alone.entries = <<e>>
    <3> HIDE DEF e
    <3>1. <<e>> \in Seq(MenuEntries)
      BY <1>3
    <3> QED BY <3>1, HasAHome DEF N!Group, MenuGroups
  <2> HIDE DEF e, alone
  <2>4. NoneTwice(<<e>>) /\ PagesOf(<<e>>) = {to}
    BY <1>3 DEF NoneTwice, PagesOf
  <2>5. OnceEach(Append(groups, alone)) /\ N!PagesIn(Append(groups, alone)) = N!PagesIn(groups) \cup {to}
    <3>1. PagesOf(alone.entries) \cap N!PagesIn(groups) = {} /\ NoneTwice(alone.entries)
      BY <1>6, <2>3, <2>4
    <3> QED BY <2>1, <2>3, <2>4, <3>1, GroupAdded
  <2> QED BY <2>2, <2>5
<1>7. CASE to \notin N!PagesIn(groups) /\ ~(k > 0) /\ ~new /\ groups # << >>
  <2>1. 1 \in DOMAIN groups
    BY <1>1, <1>7
  <2>2. N!BackFill(layout, groups, to) = N!Push(groups, 1, N!Item(to, FALSE))
    BY <1>7 DEF N!BackFill
  <2> HIDE DEF k, e, alone
  <2>3. N!Item(to, FALSE).of \notin N!PagesIn(groups) /\ {to} \cap N!Destinations = {to}
    BY <1>2, <1>7
  <2> DEFINE f == N!Item(to, FALSE)
  <2>4. f \in MenuEntries /\ f.of = to /\ f.of \notin N!PagesIn(groups)
    BY <1>2, <2>3
  <2> HIDE DEF f
  <2>5. /\ OnceEach(N!Push(groups, 1, f))
        /\ N!PagesIn(N!Push(groups, 1, f)) = N!PagesIn(groups) \cup ({f.of} \cap N!Destinations)
    BY <2>1, <2>4, Pushed
  <2> QED BY <2>2, <2>4, <2>5 DEF f
<1> QED BY <1>4, <1>5, <1>6, <1>7

-----------------------------------------------------------------------------
\* Pages as entries, shown or hidden: those among entries, those among the first k of
\* them, and those in groups.
PageItems == [of : N!Destinations, hidden : BOOLEAN]
ItemsOf(entries) == {e \in PageItems : \E j \in DOMAIN entries : entries[j] = e}
ItemsTo(entries, k) == {e \in PageItems : \E j \in 1 .. k : entries[j] = e}
ItemsIn(groups) == {e \in PageItems : \E i \in DOMAIN groups : e \in ItemsOf(groups[i].entries)}

\* The first k, and no more.
StartOf(q, s, k) == Len(q) = k /\ \A j \in 1 .. k : q[j] = s[j]

LEMMA StartIsAll ==
  ASSUME NEW U, NEW q \in Seq(U), NEW s \in Seq(U), StartOf(q, s, Len(s))
  PROVE  q = s
<1>1. Len(q) = Len(s) /\ \A j \in 1 .. Len(s) : q[j] = s[j]
  BY DEF StartOf
<1> QED BY <1>1, SeqEqual

LEMMA StartGrows ==
  ASSUME NEW U, NEW q \in Seq(U), NEW s \in Seq(U), NEW k \in 1 .. Len(s), StartOf(q, s, k - 1)
  PROVE  StartOf(Append(q, s[k]), s, k)
<1>1. Len(q) = k - 1 /\ (\A j \in 1 .. k - 1 : q[j] = s[j]) /\ Len(s) \in Nat /\ s[k] \in U
  BY DEF StartOf
<1> DEFINE r == Append(q, s[k])
<1>2. Len(r) = k /\ r[k] = s[k] /\ \A j \in 1 .. k - 1 : r[j] = q[j]
  BY <1>1
<1> HIDE DEF r
<1>3. \A j \in 1 .. k : j = k \/ j \in 1 .. k - 1
  OBVIOUS
<1> QED BY <1>1, <1>2, <1>3 DEF StartOf, r

LEMMA ItemAdded ==
  ASSUME NEW U, NEW s \in Seq(U), NEW e \in U
  PROVE  ItemsOf(Append(s, e)) = ItemsOf(s) \cup ({e} \cap PageItems)
<1> DEFINE q == Append(s, e)
<1>1. DOMAIN q = DOMAIN s \cup {Len(s) + 1} /\ q[Len(s) + 1] = e /\ \A j \in DOMAIN s : q[j] = s[j]
  OBVIOUS
<1> HIDE DEF q
<1> QED BY <1>1 DEF ItemsOf, q

LEMMA PagesHaveItems ==
  ASSUME NEW entries \in Seq(N!SavedEntries), NEW x \in PagesOf(entries)
  PROVE  \E e \in ItemsOf(entries) : e.of = x
<1>1. PICK j \in DOMAIN entries : entries[j].of = x
  BY DEF PagesOf
<1>2. entries[j] \in N!SavedEntries /\ x \in N!Destinations
  BY DEF PagesOf
<1>3. entries[j] \in PageItems
  BY <1>1, <1>2 DEF N!SavedEntries, PageItems
<1> QED BY <1>1, <1>3 DEF ItemsOf

LEMMA ItemsHavePages ==
  ASSUME NEW entries, NEW e \in ItemsOf(entries)
  PROVE  e.of \in PagesOf(entries)
BY DEF ItemsOf, PageItems, PagesOf

\* An entry not met yet is taken as it is, or names no page there is.
LEMMA AcceptFollows ==
  ASSUME N!NavConstants, NEW before \in SUBSET N!Destinations, NEW entries \in Seq(N!SavedEntries),
         NoneTwice(entries), before \cap PagesOf(entries) = {}, NEW k \in 1 .. Len(entries),
         NEW a \in ReadFrom(before), ItemsOf(a.kept) = ItemsTo(entries, k - 1)
  PROVE  LET b == N!Accept(a, entries[k])
         IN  /\ ItemsOf(b.kept) = ItemsTo(entries, k)
             /\ entries[k].of \in N!Destinations \cup Separators => b.kept = Append(a.kept, entries[k])
<1> DEFINE e == entries[k]
           b == N!Accept(a, e)
<1>1. e \in N!SavedEntries /\ k \in DOMAIN entries /\ 1 .. k - 1 \subseteq DOMAIN entries /\ k \notin 1 .. k - 1
      /\ 1 .. k = (1 .. k - 1) \cup {k}
  OBVIOUS
<1>2. a.kept \in Seq(MenuEntries) /\ a.seen = before \cup PagesOf(a.kept)
      /\ a = [seen |-> a.seen, kept |-> a.kept]
  BY DEF ReadFrom
<1>3. ItemsTo(entries, k) = ItemsTo(entries, k - 1) \cup ({e} \cap PageItems)
  BY <1>1 DEF ItemsTo
<1> HIDE DEF e
<1>4. ASSUME e.of \in N!Destinations PROVE e.of \notin a.seen
  <2>1. e.of \notin before
    BY <1>1, <1>4 DEF PagesOf, e
  <2>2. ASSUME e.of \in PagesOf(a.kept) PROVE FALSE
    <3>1. PICK i \in DOMAIN a.kept : a.kept[i].of = e.of
      BY <2>2 DEF PagesOf
    <3>2. a.kept[i] \in PageItems
      <4>1. a.kept[i] \in MenuEntries
        BY <1>2
      <4> QED BY <1>4, <3>1, <4>1 DEF MenuEntries, PageItems
    <3>3. a.kept[i] \in ItemsTo(entries, k - 1)
      BY <3>2 DEF ItemsOf
    <3>4. PICK j \in 1 .. k - 1 : entries[j] = a.kept[i]
      BY <3>3 DEF ItemsTo
    <3>5. j = k
      BY <1>1, <1>4, <3>1, <3>4 DEF NoneTwice, e
    <3> QED BY <1>1, <3>5
  <2> QED BY <1>2, <2>1, <2>2
<1>5. CASE e.of \in N!Destinations \cup Separators
  <2>1. e \in MenuEntries
    BY <1>1, <1>5 DEF N!SavedEntries, MenuEntries
  <2>2. b.kept = Append(a.kept, e)
    BY <1>2, <1>4, <1>5 DEF N!Accept
  <2>3. ItemsOf(Append(a.kept, e)) = ItemsOf(a.kept) \cup ({e} \cap PageItems)
    BY <1>2, <2>1, ItemAdded
  <2> HIDE DEF b
  <2> QED BY <1>3, <2>2, <2>3 DEF b, e
<1>6. CASE e.of \notin N!Destinations \cup Separators
  <2>1. b = a
    BY <1>6 DEF N!Accept
  <2>2. e \notin PageItems
    BY <1>6 DEF PageItems
  <2> QED BY <1>3, <1>6, <2>1, <2>2 DEF e
<1> QED BY <1>5, <1>6

\* Entries that repeat no page, of those met before either, are read with every page as
\* it was; and all as they were, when none names what is no more.
LEMMA ReadInOrder ==
  ASSUME N!NavConstants, NEW before \in SUBSET N!Destinations, NEW entries \in Seq(N!SavedEntries),
         NoneTwice(entries), before \cap PagesOf(entries) = {}
  PROVE  /\ ItemsOf(N!Reading(before, entries).kept) = ItemsOf(entries)
         /\ entries \in Seq(MenuEntries) => N!Reading(before, entries).kept = entries
<1> DEFINE base == [seen |-> before, kept |-> << >>]
           n == Len(entries)
           H(k) == {a \in ReadFrom(before) :
                      /\ ItemsOf(a.kept) = ItemsTo(entries, k)
                      /\ entries \in Seq(MenuEntries) => StartOf(a.kept, entries, k)}
           W == [k \in 0 .. n |-> H(k)]
<1>1. base \in ReadFrom(before)
  <2>1. base \in [seen : SUBSET N!Destinations, kept : Seq(MenuEntries)]
    OBVIOUS
  <2>2. PagesOf(<< >>) = {} /\ NoneTwice(<< >>)
    BY DEF PagesOf, NoneTwice
  <2> QED BY <2>1, <2>2 DEF ReadFrom
<1>2. n \in Nat /\ DOMAIN entries = 1 .. n /\ \A k \in 1 .. n : entries[k] \in N!SavedEntries
  OBVIOUS
<1>3. \A a \in ReadFrom(before) : \A k \in 1 .. n : N!Accept(a, entries[k]) \in ReadFrom(before)
  BY <1>2, AcceptReads
<1>4. base = [seen |-> before, kept |-> << >>] /\ base.kept = << >>
  OBVIOUS
<1> HIDE DEF base
<1>5. base \in H(0)
  BY <1>1, <1>4 DEF ItemsOf, ItemsTo, StartOf
<1>6. ASSUME NEW k \in 1 .. n, NEW a \in H(k - 1) PROVE N!Accept(a, entries[k]) \in H(k)
  <2> DEFINE b == N!Accept(a, entries[k])
  <2>1. a \in ReadFrom(before) /\ ItemsOf(a.kept) = ItemsTo(entries, k - 1)
    OBVIOUS
  <2>2. b \in ReadFrom(before)
    BY <1>3, <2>1
  <2>3. /\ ItemsOf(b.kept) = ItemsTo(entries, k)
        /\ entries[k].of \in N!Destinations \cup Separators => b.kept = Append(a.kept, entries[k])
    BY <2>1, AcceptFollows
  <2> HIDE DEF b
  <2>4. ASSUME entries \in Seq(MenuEntries) PROVE StartOf(b.kept, entries, k)
    <3>1. entries[k] \in MenuEntries /\ k \in 1 .. Len(entries)
      BY <1>2, <2>4
    <3>2. b.kept = Append(a.kept, entries[k])
      BY <2>3, <3>1 DEF MenuEntries
    <3>3. a.kept \in Seq(MenuEntries) /\ StartOf(a.kept, entries, k - 1)
      BY <2>4 DEF ReadFrom
    <3> HIDE DEF n, H
    <3> QED BY <2>4, <3>1, <3>2, <3>3, StartGrows
  <2> QED BY <2>2, <2>3, <2>4 DEF b
<1> HIDE DEF n, H
<1>7. PICK r : Accepts(r, n, base, entries, N!Reading(before, entries))
  BY <1>1, <1>2, <1>3, <1>4, AcceptRuns
<1>8. r[0] \in W[0]
  BY <1>2, <1>5, <1>7 DEF Accepts
<1>9. ASSUME NEW k \in 1 .. n, r[k - 1] \in W[k - 1]
      PROVE  r[k] \in W[k]
  <2>1. k - 1 \in 0 .. n /\ k \in 0 .. n
    BY <1>2
  <2>2. r[k - 1] \in H(k - 1) /\ r[k] = N!Accept(r[k - 1], entries[k])
    BY <1>7, <1>9, <2>1 DEF Accepts
  <2> QED BY <1>6, <2>1, <2>2
<1> HIDE DEF W
<1>10. \A k \in 0 .. n : r[k] \in W[k]
  BY <1>2, <1>8, <1>9, Along
<1> DEFINE b == N!Reading(before, entries)
<1>11. b \in H(n)
  BY <1>2, <1>7, <1>10 DEF W, Accepts
<1> HIDE DEF b
<1>12. ItemsOf(b.kept) = ItemsTo(entries, n) /\ b.kept \in Seq(MenuEntries)
       /\ (entries \in Seq(MenuEntries) => StartOf(b.kept, entries, n))
  BY <1>11 DEF H, ReadFrom
<1>13. ItemsTo(entries, n) = ItemsOf(entries)
  BY <1>2 DEF ItemsTo, ItemsOf
<1>14. entries \in Seq(MenuEntries) => b.kept = entries
  BY <1>12, StartIsAll DEF n
<1> QED BY <1>12, <1>13, <1>14 DEF b

-----------------------------------------------------------------------------
ItemsUpTo(groups, k) == {e \in PageItems : \E i \in 1 .. k : e \in ItemsOf(groups[i].entries)}

\* Groups that migration leaves as they are.
Settled(groups) == groups \in Seq(MenuGroups) /\ \A i \in DOMAIN groups : ~Stale(groups[i])

LEMMA ItemsInAdded ==
  ASSUME NEW U, NEW groups \in Seq(U), NEW g \in U
  PROVE  ItemsIn(Append(groups, g)) = ItemsIn(groups) \cup ItemsOf(g.entries)
<1> DEFINE q == Append(groups, g)
<1>1. DOMAIN q = DOMAIN groups \cup {Len(groups) + 1} /\ q[Len(groups) + 1] = g
      /\ \A i \in DOMAIN groups : q[i] = groups[i]
  OBVIOUS
<1> HIDE DEF q
<1>2. ItemsOf(g.entries) \subseteq PageItems
  BY DEF ItemsOf
<1> QED BY <1>1, <1>2 DEF ItemsIn, q

\* The pages in groups are those of the entries in them.
LEMMA PagesOfItemsIn ==
  ASSUME NEW groups, \A i \in DOMAIN groups : groups[i].entries \in Seq(N!SavedEntries)
  PROVE  /\ \A x \in N!PagesIn(groups) : \E e \in ItemsIn(groups) : e.of = x
         /\ \A e \in ItemsIn(groups) : e.of \in N!PagesIn(groups)
<1>1. ASSUME NEW x \in N!PagesIn(groups) PROVE \E e \in ItemsIn(groups) : e.of = x
  <2>1. PICK i \in DOMAIN groups : x \in PagesOf(groups[i].entries)
    BY PagesInGroups
  <2>2. PICK e \in ItemsOf(groups[i].entries) : e.of = x
    BY <2>1, PagesHaveItems
  <2> QED BY <2>2 DEF ItemsIn, ItemsOf
<1>2. ASSUME NEW e \in ItemsIn(groups) PROVE e.of \in N!PagesIn(groups)
  <2>1. PICK i \in DOMAIN groups : e \in ItemsOf(groups[i].entries)
    BY DEF ItemsIn
  <2>2. e.of \in PagesOf(groups[i].entries)
    BY <2>1, ItemsHavePages
  <2> QED BY <2>2, PagesInGroups
<1> QED BY <1>1, <1>2

LEMMA MenuIsSaved ==
  Seq(MenuEntries) \subseteq Seq(N!SavedEntries) /\ MenuGroups \subseteq N!SavedGroups
<1>1. MenuEntries \subseteq N!SavedEntries
  BY DEF MenuEntries, N!SavedEntries, N!SavedNames
<1>2. Seq(MenuEntries) \subseteq Seq(N!SavedEntries)
  BY <1>1
<1> QED BY <1>2 DEF MenuGroups, N!SavedGroups

LEMMA OrderMeans ==
  ASSUME NEW l, N!InOrder(l)
  PROVE  \A i \in DOMAIN l.groups :
           /\ NoneTwice(l.groups[i].entries)
           /\ l.groups[i].id = "settings" => PagesOf(l.groups[i].entries) = {}
           /\ \A k \in DOMAIN l.groups :
                i # k => PagesOf(l.groups[i].entries) \cap PagesOf(l.groups[k].entries) = {}
<1> SUFFICES ASSUME NEW i \in DOMAIN l.groups
             PROVE  /\ NoneTwice(l.groups[i].entries)
                    /\ l.groups[i].id = "settings" => PagesOf(l.groups[i].entries) = {}
                    /\ \A k \in DOMAIN l.groups :
                         i # k => PagesOf(l.groups[i].entries) \cap PagesOf(l.groups[k].entries) = {}
  OBVIOUS
<1>1. NoneTwice(l.groups[i].entries)
  BY DEF N!InOrder, NoneTwice
<1>2. l.groups[i].id = "settings" => PagesOf(l.groups[i].entries) = {}
  BY DEF N!InOrder, PagesOf
<1>3. ASSUME NEW k \in DOMAIN l.groups, i # k,
             NEW x, x \in PagesOf(l.groups[i].entries), x \in PagesOf(l.groups[k].entries)
      PROVE  FALSE
  <2>1. PICK j \in DOMAIN l.groups[i].entries : l.groups[i].entries[j].of = x
    BY <1>3 DEF PagesOf
  <2>2. PICK m \in DOMAIN l.groups[k].entries : l.groups[k].entries[m].of = x
    BY <1>3 DEF PagesOf
  <2>3. x \in N!Destinations
    BY <1>3 DEF PagesOf
  <2> QED BY <1>3, <2>1, <2>2, <2>3 DEF N!InOrder
<1> QED BY <1>1, <1>2, <1>3

\* After the first k groups of an orderly layout: the pages in them as they were, and all
\* as it was when there is nothing to leave out.
AllKept(groups, k) ==
  {a \in KeptOf(groups, k) :
     /\ ItemsIn(a.groups) = ItemsUpTo(groups, k)
     /\ \A i \in DOMAIN a.groups : ~Stale(a.groups[i])
     /\ Settled(groups) => StartOf(a.groups, groups, k)}

LEMMA KeepsAllOfOneMore ==
  ASSUME N!NavConstants, NEW l, l.groups \in Seq(N!SavedGroups), N!OwnIds(l.groups), N!InOrder(l),
         NEW k \in 1 .. Len(l.groups), NEW a \in AllKept(l.groups, k - 1)
  PROVE  N!KeepGroup(a, l.groups[k]) \in AllKept(l.groups, k)
<1> DEFINE groups == l.groups
           g == groups[k]
           b == N!KeepGroup(a, g)
<1>1. /\ a \in KeptOf(groups, k - 1) /\ a \in SoFar /\ OnceEach(a.groups) /\ a.seen = N!PagesIn(a.groups)
      /\ ItemsIn(a.groups) = ItemsUpTo(groups, k - 1)
      /\ \A i \in DOMAIN a.groups : ~Stale(a.groups[i])
      /\ Settled(groups) => StartOf(a.groups, groups, k - 1)
  BY DEF AllKept, KeptOf
<1>2. /\ k \in DOMAIN groups /\ g \in N!SavedGroups /\ 1 .. k = (1 .. k - 1) \cup {k}
      /\ \A j \in 1 .. k - 1 : j \in DOMAIN groups /\ j # k /\ groups[j] \in N!SavedGroups
  OBVIOUS
<1>3. g.entries \in Seq(N!SavedEntries) /\ \A j \in 1 .. k - 1 : groups[j].entries \in Seq(N!SavedEntries)
  BY <1>2 DEF N!SavedGroups
<1>4. /\ NoneTwice(g.entries) /\ (g.id = "settings" => PagesOf(g.entries) = {})
      /\ \A j \in 1 .. k - 1 : PagesOf(groups[j].entries) \cap PagesOf(g.entries) = {}
  BY <1>2, OrderMeans
<1>5. b \in KeptOf(groups, k)
  BY <1>1, KeepsOneMore
<1>6. ItemsUpTo(groups, k) = ItemsUpTo(groups, k - 1) \cup ItemsOf(g.entries)
  <2>1. ItemsOf(g.entries) \subseteq PageItems
    BY DEF ItemsOf
  <2> QED BY <1>2, <2>1 DEF ItemsUpTo
<1> HIDE DEF g
<1>7. a.seen \cap PagesOf(g.entries) = {}
  <2> SUFFICES ASSUME NEW x \in a.seen, x \in PagesOf(g.entries) PROVE FALSE
    OBVIOUS
  <2>1. \A i \in DOMAIN a.groups : a.groups[i].entries \in Seq(N!SavedEntries)
    BY <1>1, InMenu, MenuIsSaved
  <2>2. PICK e \in ItemsIn(a.groups) : e.of = x
    BY <1>1, <2>1, PagesOfItemsIn
  <2>3. PICK j \in 1 .. k - 1 : e \in ItemsOf(groups[j].entries)
    BY <1>1 DEF ItemsUpTo
  <2>4. x \in PagesOf(groups[j].entries)
    BY <2>2, <2>3, ItemsHavePages
  <2> QED BY <1>4, <2>4
<1>8. PICK read \in ReadFrom(a.seen) :
        /\ read = N!Reading(a.seen, g.entries)
        /\ \/ /\ b = a
              /\ g.id = "settings" \/ (g.id \in Retired /\ ~g.own /\ PagesOf(read.kept) = {})
           \/ \E mine \in MenuGroups :
                /\ mine = [g EXCEPT !.entries = read.kept]
                /\ mine.id = g.id /\ mine.entries = read.kept /\ ~Stale(mine)
                /\ b = [seen |-> read.seen, groups |-> Append(a.groups, mine)]
  <2> HIDE DEF groups
  <2>1. g \in N!SavedGroups
    BY <1>2
  <2> QED BY <1>1, <2>1, KeepGroupKeeps
<1>9. /\ ItemsOf(read.kept) = ItemsOf(g.entries)
      /\ g.entries \in Seq(MenuEntries) => read.kept = g.entries
  <2>1. a.seen \in SUBSET N!Destinations
    BY <1>1 DEF SoFar
  <2> QED BY <1>3, <1>4, <1>7, <1>8, <2>1, ReadInOrder
<1>10. Settled(groups) => g \in MenuGroups /\ g.entries \in Seq(MenuEntries) /\ g.id # "settings" /\ ~Stale(g)
  <2>1. ASSUME Settled(groups) PROVE g \in MenuGroups /\ ~Stale(g)
    BY <1>2, <2>1 DEF Settled, g
  <2> QED BY <2>1 DEF MenuGroups
<1> HIDE DEF b, groups
<1>11. ASSUME b = a, g.id = "settings" \/ (g.id \in Retired /\ ~g.own /\ PagesOf(read.kept) = {})
       PROVE  b \in AllKept(groups, k)
  <2>1. ItemsOf(g.entries) = {}
    <3>1. CASE g.id = "settings"
      BY <1>4, <3>1, ItemsHavePages
    <3>2. CASE PagesOf(read.kept) = {}
      <4>1. ItemsOf(read.kept) = {}
        BY <3>2, ItemsHavePages
      <4> QED BY <1>9, <4>1
    <3> QED BY <1>11, <3>1, <3>2
  <2>2. ~Settled(groups)
    BY <1>9, <1>10, <1>11 DEF Stale
  <2>3. a \in KeptOf(groups, k) /\ ItemsIn(a.groups) = ItemsUpTo(groups, k)
    BY <1>1, <1>5, <1>6, <1>11, <2>1
  <2>4. a \in AllKept(groups, k)
    BY <1>1, <2>2, <2>3 DEF AllKept
  <2> QED BY <1>11, <2>4
<1>12. ASSUME NEW mine \in MenuGroups, mine = [g EXCEPT !.entries = read.kept],
              mine.entries = read.kept, ~Stale(mine),
              b = [seen |-> read.seen, groups |-> Append(a.groups, mine)]
       PROVE  b \in AllKept(groups, k)
  <2> DEFINE q == Append(a.groups, mine)
  <2>1. a.groups \in Seq(MenuGroups)
    BY <1>1 DEF OnceEach
  <2>2. ItemsIn(q) = ItemsIn(a.groups) \cup ItemsOf(mine.entries)
    BY <2>1, ItemsInAdded
  <2>3. \A i \in DOMAIN q : (i \in DOMAIN a.groups /\ q[i] = a.groups[i]) \/ q[i] = mine
    BY <2>1
  <2>4. ASSUME Settled(groups) PROVE StartOf(q, groups, k)
    <3>1. mine = g
      <4>1. g \in MenuGroups /\ read.kept = g.entries
        BY <1>9, <1>10, <2>4
      <4> QED BY <1>12, <4>1 DEF MenuGroups
    <3>2. groups \in Seq(MenuGroups) /\ StartOf(a.groups, groups, k - 1) /\ k \in 1 .. Len(groups)
      BY <1>1, <2>4 DEF Settled, groups
    <3>3. StartOf(Append(a.groups, groups[k]), groups, k)
      BY <2>1, <3>2, StartGrows
    <3> QED BY <3>1, <3>3 DEF g
  <2> HIDE DEF q
  <2>5. b.groups = q
    BY <1>12 DEF q
  <2> QED BY <1>1, <1>5, <1>6, <1>9, <1>12, <2>2, <2>3, <2>4, <2>5 DEF AllKept
<1>13. b \in AllKept(groups, k)
  <2>1. CASE ~(b = a /\ (g.id = "settings" \/ (g.id \in Retired /\ ~g.own /\ PagesOf(read.kept) = {})))
    <3>1. PICK mine \in MenuGroups :
            /\ mine = [g EXCEPT !.entries = read.kept] /\ mine.entries = read.kept /\ ~Stale(mine)
            /\ b = [seen |-> read.seen, groups |-> Append(a.groups, mine)]
      BY <1>8, <2>1
    <3> QED BY <1>12, <3>1
  <2> QED BY <1>11, <2>1
<1> QED BY <1>13 DEF b, g, groups

LEMMA KeptInOrder ==
  ASSUME N!NavConstants, NEW l, l.groups \in Seq(N!SavedGroups), N!OwnIds(l.groups), N!InOrder(l)
  PROVE  LET q == N!Keeping(l.groups).groups
         IN  /\ OnceEach(q) /\ ItemsIn(q) = ItemsIn(l.groups)
             /\ \A i \in DOMAIN q : ~Stale(q[i])
             /\ Settled(l.groups) => q = l.groups
<1> DEFINE groups == l.groups
           base == [seen |-> {}, groups |-> << >>]
           n == Len(groups)
           W == [k \in 0 .. n |-> AllKept(groups, k)]
<1>1. n \in Nat /\ DOMAIN groups = 1 .. n /\ \A k \in 1 .. n : groups[k] \in N!SavedGroups
  OBVIOUS
<1>2. base \in SoFar /\ base \in AllKept(groups, 0)
  <2>1. base \in SoFar
    BY DEF SoFar
  <2>2. OnceEach(<< >>) /\ N!PagesIn(<< >>) = {} /\ ItemsIn(<< >>) = {} /\ ItemsUpTo(groups, 0) = {}
    BY DEF OnceEach, Apart, N!PagesIn, ItemsIn, ItemsUpTo
  <2>3. base.seen = {} /\ base.groups = << >> /\ DOMAIN << >> = {} /\ StartOf(<< >>, groups, 0)
    BY DEF StartOf
  <2> HIDE DEF base
  <2> QED BY <2>1, <2>2, <2>3 DEF KeptOf, AllKept
<1>3. base = [seen |-> {}, groups |-> << >>]
  OBVIOUS
<1>4. ASSUME NEW a \in SoFar, NEW k \in 1 .. n
      PROVE  N!KeepGroup(a, groups[k]) \in SoFar
  <2>1. groups[k] \in N!SavedGroups
    BY <1>1
  <2> HIDE DEF groups, n, W, base
  <2> QED BY <2>1, KeepGroupStays
<1> HIDE DEF base, n, W
<1>5. PICK r : Keeps(r, n, base, groups, N!Keeping(groups))
  BY <1>1, <1>2, <1>3, <1>4, KeepGroupRuns
<1>6. r[0] \in W[0]
  BY <1>1, <1>2, <1>5 DEF W, Keeps
<1>7. ASSUME NEW k \in 1 .. n, r[k - 1] \in W[k - 1]
      PROVE  r[k] \in W[k]
  <2>1. k - 1 \in 0 .. n /\ k \in 0 .. n /\ k \in 1 .. Len(groups)
    BY <1>1 DEF n
  <2>2. r[k - 1] \in AllKept(groups, k - 1)
    BY <1>7, <2>1 DEF W
  <2>3. N!KeepGroup(r[k - 1], groups[k]) \in AllKept(groups, k)
    BY <2>1, <2>2, KeepsAllOfOneMore
  <2> QED BY <1>5, <2>1, <2>3 DEF W, Keeps
<1>8. r[n] \in W[n]
  <2>1. \A k \in 0 .. n : r[k] \in W[k]
    BY <1>1, <1>6, <1>7, Along
  <2> QED BY <1>1, <2>1
<1> DEFINE q == N!Keeping(groups).groups
<1>9. /\ OnceEach(q) /\ ItemsIn(q) = ItemsUpTo(groups, n) /\ (\A i \in DOMAIN q : ~Stale(q[i]))
      /\ Settled(groups) => StartOf(q, groups, n)
  BY <1>1, <1>5, <1>8 DEF W, Keeps, AllKept, KeptOf
<1>10. ItemsUpTo(groups, n) = ItemsIn(groups)
  BY <1>1 DEF ItemsUpTo, ItemsIn
<1> HIDE DEF q
<1>11. ASSUME Settled(groups) PROVE q = groups
  <2>1. q \in Seq(MenuGroups) /\ groups \in Seq(MenuGroups) /\ StartOf(q, groups, Len(groups))
    BY <1>9, <1>11 DEF OnceEach, Settled, n
  <2> QED BY <2>1, StartIsAll
<1> QED BY <1>9, <1>10, <1>11 DEF q

-----------------------------------------------------------------------------
LEMMA BackFilledWhole ==
  ASSUME N!NavConstants, NEW layout, NEW kept, OnceEach(kept)
  PROVE  Whole(N!BackFilled(layout, kept))
<1> DEFINE n == Len(NavItems)
           U == {gs \in Seq(MenuGroups) : OnceEach(gs)}
           H(k) == {gs \in U : \A i \in 1 .. k : NavItems[i] \in N!PagesIn(gs)}
           W == [k \in 0 .. n |-> H(k)]
<1>1. n \in Nat /\ DOMAIN NavItems = 1 .. n /\ \A k \in 1 .. n : NavItems[k] \in N!Destinations
  BY DEF N!NavConstants
<1>2. kept \in U
  BY DEF OnceEach
<1>3. ASSUME NEW a \in U, NEW to \in N!Destinations
      PROVE  N!BackFill(layout, a, to) \in U /\ N!PagesIn(N!BackFill(layout, a, to)) = N!PagesIn(a) \cup {to}
  <2>1. /\ OnceEach(N!BackFill(layout, a, to))
        /\ N!PagesIn(N!BackFill(layout, a, to)) = N!PagesIn(a) \cup {to}
    BY BackFillKeeps
  <2> QED BY <2>1 DEF OnceEach
<1> HIDE DEF n, U
<1>4. \A a \in U : \A k \in 1 .. n : N!BackFill(layout, a, NavItems[k]) \in U
  BY <1>1, <1>3
<1>5. PICK r : BackFills(r, n, kept, layout, N!BackFilled(layout, kept))
  BY <1>1, <1>2, <1>4, BackFillRuns
<1>6. r[0] \in W[0]
  BY <1>1, <1>2, <1>5 DEF BackFills
<1>7. ASSUME NEW k \in 1 .. n, r[k - 1] \in W[k - 1]
      PROVE  r[k] \in W[k]
  <2>1. k - 1 \in 0 .. n /\ k \in 0 .. n /\ \A i \in 1 .. k : i = k \/ i \in 1 .. k - 1
    BY <1>1
  <2>2. r[k - 1] \in H(k - 1)
    BY <1>7, <2>1
  <2>3. r[k] = N!BackFill(layout, r[k - 1], NavItems[k])
    BY <1>5 DEF BackFills
  <2>4. r[k] \in U /\ N!PagesIn(r[k]) = N!PagesIn(r[k - 1]) \cup {NavItems[k]}
    BY <1>1, <1>3, <2>2, <2>3
  <2>5. r[k] \in H(k)
    BY <2>1, <2>2, <2>4
  <2> QED BY <2>1, <2>5
<1> HIDE DEF W
<1>8. r[n] \in W[n]
  <2>1. \A k \in 0 .. n : r[k] \in W[k]
    BY <1>1, <1>6, <1>7, Along
  <2> QED BY <1>1, <2>1
<1>9. r[n] \in H(n) /\ r[n] = N!BackFilled(layout, kept)
  BY <1>1, <1>5, <1>8 DEF W, BackFills
<1>10. \A x \in N!Destinations : \E i \in 1 .. n : x = NavItems[i]
  BY <1>1 DEF N!Destinations, N!ToSet
<1>11. N!PagesIn(r[n]) \subseteq N!Destinations
  BY DEF N!PagesIn
<1>12. OnceEach(r[n]) /\ N!PagesIn(r[n]) = N!Destinations
  BY <1>9, <1>10, <1>11 DEF U
<1> QED BY <1>9, <1>12 DEF Whole

LEMMA DefaultWhole ==
  ASSUME N!NavConstants
  PROVE  Whole(N!defaultNavLayout)
<1> DEFINE q == N!defaultNavLayout
           es(k) == [j \in DOMAIN NavGroups[k].items |-> N!Item(NavGroups[k].items[j], FALSE)]
           G == [id : N!GroupIds \ {"settings"}, items : Seq(N!Destinations)]
<1>1. NavGroups \in Seq(G) /\ N!OwnIds(NavGroups)
      /\ (\A x \in N!Destinations : \E k \in DOMAIN NavGroups : N!Contains(NavGroups[k].items, x))
      /\ \A k, l \in DOMAIN NavGroups :
           \A i \in DOMAIN NavGroups[k].items : \A j \in DOMAIN NavGroups[l].items :
             NavGroups[k].items[i] = NavGroups[l].items[j] => k = l /\ i = j
  BY DEF N!NavConstants
<1>2. \A k \in DOMAIN NavGroups : NavGroups[k] \in G
  <2> HIDE DEF G
  <2> QED BY <1>1
<1>3. ASSUME NEW k \in DOMAIN NavGroups
      PROVE  /\ NavGroups[k].id \in N!GroupIds \ {"settings"} /\ NavGroups[k].items \in Seq(N!Destinations)
             /\ es(k) \in Seq(MenuEntries) /\ DOMAIN es(k) = DOMAIN NavGroups[k].items
             /\ \A j \in DOMAIN es(k) : es(k)[j].of = NavGroups[k].items[j]
  <2>1. NavGroups[k].id \in N!GroupIds \ {"settings"} /\ NavGroups[k].items \in Seq(N!Destinations)
    BY <1>2
  <2>2. \A j \in DOMAIN NavGroups[k].items : N!Item(NavGroups[k].items[j], FALSE) \in MenuEntries
                                            /\ N!Item(NavGroups[k].items[j], FALSE).of = NavGroups[k].items[j]
    BY <2>1 DEF N!Item, MenuEntries
  <2>3. PICK s : s = NavGroups[k].items
    OBVIOUS
  <2>4. s \in Seq(N!Destinations) /\ es(k) = [j \in DOMAIN s |-> N!Item(s[j], FALSE)]
        /\ \A j \in DOMAIN s : N!Item(s[j], FALSE) \in MenuEntries /\ N!Item(s[j], FALSE).of = s[j]
    BY <2>1, <2>2, <2>3
  <2>5. DOMAIN s = 1 .. Len(s) /\ Len(s) \in Nat
    BY <2>4
  <2> HIDE DEF es
  <2>6. es(k) \in [1 .. Len(s) -> MenuEntries]
    BY <2>4, <2>5
  <2>7. es(k) \in Seq(MenuEntries) /\ DOMAIN es(k) = DOMAIN s
    BY <2>5, <2>6
  <2> QED BY <2>1, <2>3, <2>4, <2>7
<1> HIDE DEF es, G
<1>4. DOMAIN q = DOMAIN NavGroups /\ \A k \in DOMAIN NavGroups : q[k] = N!Group(NavGroups[k].id, es(k))
  BY DEF N!defaultNavLayout, es
<1>5. \A k \in DOMAIN q : q[k] \in MenuGroups /\ q[k].id = NavGroups[k].id /\ q[k].entries = es(k)
  <2> SUFFICES ASSUME NEW k \in DOMAIN NavGroups
               PROVE  q[k] \in MenuGroups /\ q[k].id = NavGroups[k].id /\ q[k].entries = es(k)
    BY <1>4
  <2>1. q[k] = [id |-> NavGroups[k].id, own |-> FALSE, hidden |-> FALSE, entries |-> es(k)]
    BY <1>4 DEF N!Group
  <2> HIDE DEF q
  <2> QED BY <1>3, <2>1 DEF MenuGroups
<1>6. q \in Seq(MenuGroups)
  <2>1. DOMAIN NavGroups = 1 .. Len(NavGroups) /\ Len(NavGroups) \in Nat
    BY <1>1
  <2>2. q = [k \in 1 .. Len(NavGroups) |-> q[k]]
    BY <1>4, <2>1 DEF N!defaultNavLayout
  <2>3. \A k \in 1 .. Len(NavGroups) : q[k] \in MenuGroups
    BY <1>4, <1>5, <2>1
  <2> HIDE DEF q
  <2> QED BY <2>1, <2>2, <2>3
<1> HIDE DEF q
<1>7. Apart(q)
  <2> SUFFICES ASSUME NEW i \in DOMAIN q, NEW k \in DOMAIN q, i # k
               PROVE  /\ q[i].id # q[k].id
                      /\ PagesOf(q[i].entries) \cap PagesOf(q[k].entries) = {}
    BY DEF Apart
  <2>1. q[i].id # q[k].id
    BY <1>1, <1>4, <1>5 DEF N!OwnIds
  <2>2. ASSUME NEW x \in PagesOf(es(i)), x \in PagesOf(es(k)) PROVE FALSE
    <3>1. PICK j \in DOMAIN es(i) : es(i)[j].of = x
      BY DEF PagesOf
    <3>2. PICK l \in DOMAIN es(k) : es(k)[l].of = x
      BY <2>2 DEF PagesOf
    <3>3. i \in DOMAIN NavGroups /\ k \in DOMAIN NavGroups
      BY <1>4
    <3>4. j \in DOMAIN NavGroups[i].items /\ NavGroups[i].items[j] = x
      BY <1>3, <3>1, <3>3
    <3>5. l \in DOMAIN NavGroups[k].items /\ NavGroups[k].items[l] = x
      BY <1>3, <3>2, <3>3
    <3> QED BY <1>1, <3>3, <3>4, <3>5
  <2> QED BY <1>5, <2>1, <2>2
<1>8. \A k \in DOMAIN q : NoneTwice(q[k].entries)
  <2> SUFFICES ASSUME NEW k \in DOMAIN NavGroups, NEW i \in DOMAIN es(k), NEW j \in DOMAIN es(k),
                      es(k)[i].of = es(k)[j].of
               PROVE  i = j
    BY <1>4, <1>5 DEF NoneTwice
  <2>1. i \in DOMAIN NavGroups[k].items /\ j \in DOMAIN NavGroups[k].items
        /\ NavGroups[k].items[i] = NavGroups[k].items[j]
    BY <1>3
  <2> QED BY <1>1, <2>1
<1>9. N!PagesIn(q) = N!Destinations
  <2>1. N!PagesIn(q) \subseteq N!Destinations
    BY DEF N!PagesIn
  <2>2. ASSUME NEW x \in N!Destinations PROVE x \in N!PagesIn(q)
    <3>1. PICK k \in DOMAIN NavGroups : N!Contains(NavGroups[k].items, x)
      BY <1>1
    <3>2. PICK j \in DOMAIN NavGroups[k].items : NavGroups[k].items[j] = x
      BY <1>3, <3>1 DEF N!Contains
    <3>3. x \in PagesOf(q[k].entries)
      BY <1>3, <1>4, <1>5, <3>2 DEF PagesOf
    <3> QED BY <1>4, <3>3, PagesInGroups
  <2> QED BY <2>1, <2>2
<1> QED BY <1>6, <1>7, <1>8, <1>9 DEF Whole, OnceEach, q

\* Whatever was saved, what is shown of it is whole.
LEMMA MigratedWhole ==
  ASSUME N!NavConstants, NEW l, l = None \/ l \in N!SavedLayouts
  PROVE  Whole(N!migrateNavLayout(l))
<1>1. CASE l = None
  BY <1>1, DefaultWhole DEF N!migrateNavLayout
<1>2. CASE l # None
  <2>1. l.groups \in Seq(N!SavedGroups) /\ N!OwnIds(l.groups)
    BY <1>2 DEF N!SavedLayouts
  <2>2. OnceEach(N!Keeping(l.groups).groups)
    BY <2>1, KeptWhole
  <2> QED BY <1>2, <2>2, BackFilledWhole DEF N!migrateNavLayout
<1> QED BY <1>1, <1>2

LEMMA WholeIsSaved ==
  ASSUME N!NavConstants, NEW groups, Whole(groups)
  PROVE  groups # None /\ N!Layout(groups) \in N!SavedLayouts
<1>1. MenuGroups \subseteq N!SavedGroups
  <2>1. MenuEntries \subseteq N!SavedEntries
    BY DEF MenuEntries, N!SavedEntries, N!SavedNames
  <2>2. Seq(MenuEntries) \subseteq Seq(N!SavedEntries)
    BY <2>1
  <2> QED BY <2>2 DEF MenuGroups, N!SavedGroups
<1>2. groups \in Seq(N!SavedGroups)
  BY <1>1 DEF Whole, OnceEach
<1>3. N!OwnIds(groups)
  BY DEF Whole, OnceEach, Apart, N!OwnIds
<1>4. groups # None
  BY <1>2 DEF N!NavConstants
<1> QED BY <1>2, <1>3, <1>4 DEF N!Layout, N!SavedLayouts, N!NAV_LAYOUT_VERSION

-----------------------------------------------------------------------------
\* The entries of a group rewritten, its pages the same.
LEMMA EntriesChanged ==
  ASSUME NEW groups, Whole(groups), NEW k \in DOMAIN groups, NEW es \in Seq(MenuEntries),
         NoneTwice(es), PagesOf(es) = PagesOf(groups[k].entries)
  PROVE  Whole([groups EXCEPT ![k].entries = es])
<1> DEFINE g == [groups[k] EXCEPT !.entries = es]
<1>1. OnceEach(groups) /\ N!PagesIn(groups) = N!Destinations
  BY DEF Whole
<1>2. groups[k] \in MenuGroups
  BY <1>1, InMenu
<1>3. g \in MenuGroups /\ g.id = groups[k].id /\ g.entries = es
  BY <1>2 DEF MenuGroups
<1>4. [groups EXCEPT ![k].entries = es] = [groups EXCEPT ![k] = g]
  OBVIOUS
<1> HIDE DEF g
<1>5. \A i \in DOMAIN groups : i # k => PagesOf(g.entries) \cap PagesOf(groups[i].entries) = {}
  BY <1>1, <1>3 DEF OnceEach, Apart
<1> DEFINE q == [groups EXCEPT ![k] = g]
<1>6. OnceEach(q)
  BY <1>1, <1>3, <1>5, GroupChanged
<1>7. N!PagesIn(q) = (N!PagesIn(groups) \ PagesOf(groups[k].entries)) \cup PagesOf(g.entries)
  BY <1>1, <1>3, <1>5, GroupChanged
<1>8. PagesOf(groups[k].entries) \subseteq N!PagesIn(groups)
  BY PagesInGroups
<1> HIDE DEF q
<1>9. Whole(q)
  BY <1>1, <1>3, <1>6, <1>7, <1>8 DEF Whole
<1> QED BY <1>4, <1>9 DEF q

\* The group an entry's name is found in, and where in it.
LEMMA EntryIsIn ==
  ASSUME N!NavConstants, NEW groups, OnceEach(groups), NEW name \in N!EntryNames(groups)
  PROVE  LET k == N!containerOf(groups, name)
             j == N!Find(groups[k].entries, name)
         IN  k \in DOMAIN groups /\ j \in DOMAIN groups[k].entries /\ groups[k].entries[j].of = name
<1> DEFINE k == N!containerOf(groups, name)
<1>1. /\ groups \in Seq(MenuGroups) /\ Len(groups) \in Nat /\ DOMAIN groups = 1 .. Len(groups)
      /\ \A i \in DOMAIN groups : groups[i] \in MenuGroups /\ groups[i].entries \in Seq(MenuEntries)
  BY InMenu
<1>2. \A i \in DOMAIN groups : /\ Len(groups[i].entries) \in Nat
                               /\ DOMAIN groups[i].entries = 1 .. Len(groups[i].entries)
  BY <1>1
<1>3. PICK i \in DOMAIN groups : \E j \in DOMAIN groups[i].entries : groups[i].entries[j].of = name
  BY DEF N!EntryNames
<1>4. N!Find(groups[i].entries, name) > 0
  <2>1. N!Find(groups[i].entries, name) \in 1 .. Len(groups[i].entries)
    BY <1>2, <1>3, FindFinds
  <2> QED BY <2>1
<1>5. k \in DOMAIN groups /\ (groups[k].id = name \/ N!Find(groups[k].entries, name) > 0)
  <2>1. \/ k \in 1 .. Len(groups) /\ (groups[k].id = name \/ N!Find(groups[k].entries, name) > 0)
        \/ k = 0 /\ \A l \in 1 .. Len(groups) : ~(N!Find(groups[l].entries, name) > 0)
    BY <1>1, ContainerFinds
  <2> HIDE DEF k
  <2> QED BY <1>1, <1>4, <2>1
<1> HIDE DEF k
<1>6. groups[k].id \in N!GroupIds
  BY <1>1, <1>5 DEF MenuGroups
<1>7. name \in N!Destinations \cup Separators
  BY DEF N!EntryNames
<1>8. N!Find(groups[k].entries, name) > 0
  BY <1>5, <1>6, <1>7 DEF N!NavConstants
<1>9. /\ N!Find(groups[k].entries, name) \in 1 .. Len(groups[k].entries)
      /\ groups[k].entries[N!Find(groups[k].entries, name)].of = name
  BY <1>2, <1>5, <1>8, FindFinds
<1> QED BY <1>2, <1>5, <1>9 DEF k

\* What something is let go over is in a group, or is one.
LEMMA DroppableIsIn ==
  ASSUME N!NavConstants, NEW groups, OnceEach(groups), NEW name \in N!Droppables(groups)
  PROVE  N!containerOf(groups, name) \in DOMAIN groups
<1>1. Len(groups) \in Nat /\ DOMAIN groups = 1 .. Len(groups)
  BY InMenu
<1>2. CASE name \in N!EntryNames(groups)
  BY <1>2, EntryIsIn
<1>3. CASE \E i \in DOMAIN groups : groups[i].id = name
  <2>1. \/ N!containerOf(groups, name) \in 1 .. Len(groups)
        \/ \A i \in 1 .. Len(groups) : groups[i].id # name
    BY <1>1, ContainerFinds
  <2> QED BY <1>1, <1>3, <2>1
<1> QED BY <1>2, <1>3 DEF N!Droppables

\* An entry dragged over another group is in that one, and in no other.
LEMMA MovedOverWhole ==
  ASSUME N!NavConstants, NEW groups, Whole(groups), NEW what \in N!EntryNames(groups),
         NEW over \in N!Droppables(groups), N!containerOf(groups, what) # N!containerOf(groups, over)
  PROVE  /\ Whole(N!MovedOver(groups, what, over))
         /\ what \in N!EntryNames(N!MovedOver(groups, what, over))
<1> DEFINE from == N!containerOf(groups, what)
           to == N!containerOf(groups, over)
           j == N!Find(groups[from].entries, what)
           e == groups[from].entries[j]
           oi == N!Find(groups[to].entries, over)
           at == IF oi = 0 THEN Len(groups[to].entries) + 1 ELSE oi
           less == N!RemoveAt(groups[from].entries, j)
           more == N!InsertAt(groups[to].entries, at, e)
           gf == [groups[from] EXCEPT !.entries = less]
           gt == [groups[to] EXCEPT !.entries = more]
           g1 == [groups EXCEPT ![from] = gf]
           g2 == [g1 EXCEPT ![to] = gt]
<1>1. OnceEach(groups) /\ N!PagesIn(groups) = N!Destinations
  BY DEF Whole
<1>2. from \in DOMAIN groups /\ j \in DOMAIN groups[from].entries /\ e.of = what
  BY <1>1, EntryIsIn
<1>3. to \in DOMAIN groups /\ from # to
  BY <1>1, DroppableIsIn
<1>4. at \in 1 .. Len(groups[to].entries) + 1
  <2>1. groups[to].entries \in Seq(MenuEntries)
    BY <1>1, <1>3, InMenu
  <2>2. oi \in 1 .. Len(groups[to].entries) \/ oi = 0
    BY <2>1, FindFinds
  <2> HIDE DEF oi
  <2> QED BY <2>1, <2>2
<1>5. N!MovedOver(groups, what, over) = g2
  <2>1. N!MovedOver(groups, what, over) =
          [groups EXCEPT ![from].entries = N!RemoveAt(@, N!Find(@, what)),
                         ![to].entries   = N!InsertAt(@, at, e)]
    BY DEF N!MovedOver
  <2> HIDE DEF from, to, at, e
  <2> QED BY <1>2, <1>3, <2>1
<1> HIDE DEF from, to, j, e, oi, at
<1>6. /\ groups[from] \in MenuGroups /\ groups[from].entries \in Seq(MenuEntries)
      /\ NoneTwice(groups[from].entries)
      /\ groups[to] \in MenuGroups /\ groups[to].entries \in Seq(MenuEntries)
      /\ NoneTwice(groups[to].entries)
  BY <1>1, <1>2, <1>3, InMenu
<1>7. e \in MenuEntries
  <2>1. groups[from].entries[j] \in MenuEntries
    BY <1>2, <1>6
  <2> QED BY <2>1 DEF e
<1>8. /\ less \in Seq(MenuEntries) /\ NoneTwice(less)
      /\ PagesOf(less) = PagesOf(groups[from].entries) \ {what}
  <2>1. less \in Seq(MenuEntries) /\ NoneTwice(less)
    BY <1>2, <1>6, EntryTakenOut
  <2>2. PagesOf(less) = PagesOf(groups[from].entries) \ {groups[from].entries[j].of}
    BY <1>2, <1>6, EntryTakenOut
  <2> QED BY <1>2, <2>1, <2>2 DEF e
<1>9. PagesOf(groups[from].entries) \cap PagesOf(groups[to].entries) = {}
  BY <1>1, <1>2, <1>3 DEF OnceEach, Apart
<1>10. what \in N!Destinations => what \in PagesOf(groups[from].entries)
  BY <1>2 DEF PagesOf, e
<1>11. /\ more \in Seq(MenuEntries) /\ NoneTwice(more)
       /\ PagesOf(more) = PagesOf(groups[to].entries) \cup ({what} \cap N!Destinations)
  <2>1. e.of \notin PagesOf(groups[to].entries)
    BY <1>2, <1>9, <1>10, PagesArePages
  <2>2. more \in Seq(MenuEntries) /\ NoneTwice(more)
    BY <1>4, <1>6, <1>7, <2>1, EntryPutIn
  <2>3. PagesOf(more) = PagesOf(groups[to].entries) \cup ({e.of} \cap N!Destinations)
    BY <1>4, <1>6, <1>7, <2>1, EntryPutIn
  <2> QED BY <1>2, <2>2, <2>3
<1>12. \E i \in DOMAIN more : more[i].of = what
  <2>1. more[at] = e /\ Len(more) = Len(groups[to].entries) + 1
    BY <1>4, <1>6, <1>7, OnePutIn
  <2>2. at \in DOMAIN more
    BY <1>4, <1>11, <2>1
  <2> QED BY <1>2, <2>1, <2>2
<1> HIDE DEF less, more
<1>13. gf \in MenuGroups /\ gf.id = groups[from].id /\ gf.entries = less
  BY <1>6, <1>8 DEF MenuGroups
<1>14. gt \in MenuGroups /\ gt.id = groups[to].id /\ gt.entries = more
  BY <1>6, <1>11 DEF MenuGroups
<1> HIDE DEF gf, gt
<1>15. OnceEach(g1) /\ N!PagesIn(g1) = N!PagesIn(groups) \ {what}
  <2>1. \A i \in DOMAIN groups : i # from => PagesOf(gf.entries) \cap PagesOf(groups[i].entries) = {}
    BY <1>1, <1>2, <1>8, <1>13 DEF OnceEach, Apart
  <2>2. gf.id = groups[from].id /\ NoneTwice(gf.entries)
    BY <1>8, <1>13
  <2>3. OnceEach(g1)
    BY <1>1, <1>2, <1>13, <2>1, <2>2, GroupChanged
  <2>4. N!PagesIn(g1) = (N!PagesIn(groups) \ PagesOf(groups[from].entries)) \cup PagesOf(gf.entries)
    BY <1>1, <1>2, <1>13, <2>1, <2>2, GroupChanged
  <2>5. PagesOf(groups[from].entries) \subseteq N!PagesIn(groups)
    BY <1>2, PagesInGroups
  <2>6. what \notin N!Destinations => what \notin N!PagesIn(groups)
    BY DEF N!PagesIn
  <2> HIDE DEF g1
  <2> QED BY <1>8, <1>10, <1>13, <2>3, <2>4, <2>5, <2>6
<1>16. /\ DOMAIN g1 = DOMAIN groups /\ g1[to] = groups[to]
       /\ \A i \in DOMAIN groups : PagesOf(g1[i].entries) \subseteq PagesOf(groups[i].entries) \ {what}
  <2>1. DOMAIN g1 = DOMAIN groups /\ g1[from] = gf /\ \A i \in DOMAIN groups : i # from => g1[i] = groups[i]
    BY <1>2
  <2>2. \A i \in DOMAIN groups : i # from => what \notin PagesOf(groups[i].entries)
    BY <1>1, <1>2, <1>10, PagesArePages DEF OnceEach, Apart
  <2> HIDE DEF g1
  <2> QED BY <1>3, <1>8, <1>13, <2>1, <2>2
<1> HIDE DEF g1
<1>17. \A i \in DOMAIN g1 : i # to => PagesOf(gt.entries) \cap PagesOf(g1[i].entries) = {}
  BY <1>1, <1>3, <1>11, <1>14, <1>16 DEF OnceEach, Apart
<1>18. gt.id = g1[to].id /\ NoneTwice(gt.entries) /\ to \in DOMAIN g1
  BY <1>3, <1>11, <1>14, <1>16
<1>19. OnceEach(g2)
  BY <1>14, <1>15, <1>17, <1>18, GroupChanged
<1>20. N!PagesIn(g2) = (N!PagesIn(g1) \ PagesOf(g1[to].entries)) \cup PagesOf(gt.entries)
  BY <1>14, <1>15, <1>17, <1>18, GroupChanged
<1>21. N!PagesIn(g2) = N!Destinations
  <2>1. PagesOf(groups[to].entries) \subseteq N!Destinations
    BY PagesArePages
  <2> HIDE DEF g2
  <2> QED BY <1>1, <1>11, <1>14, <1>15, <1>16, <1>20, <2>1
<1>22. what \in N!EntryNames(g2)
  <2>1. to \in DOMAIN g2 /\ g2[to] = gt
    BY <1>18
  <2>2. what \in N!Destinations \cup Separators
    BY DEF N!EntryNames
  <2> HIDE DEF g2
  <2> QED BY <1>12, <1>14, <2>1, <2>2 DEF N!EntryNames
<1> HIDE DEF g2
<1> QED BY <1>5, <1>19, <1>21, <1>22 DEF Whole

-----------------------------------------------------------------------------
\* What is saved is a layout of some release; what is shown, about to be saved or put
\* back is whole; and what is dragged is still there.
NavInv ==
  /\ saved = None \/ saved \in N!SavedLayouts
  /\ editor = None \/ Whole(editor)
  /\ timer = None \/ Whole(timer)
  /\ editor = None => timer = None /\ drag = None
  /\ drag # None => Whole(drag.before) /\ drag.what \in N!Droppables(editor)
  /\ edits \in 0 .. MaxEdits

\* NavInv of the next state, said of its variables.
LEMMA NavInvNext ==
  /\ saved' = None \/ saved' \in N!SavedLayouts
  /\ editor' = None \/ Whole(editor')
  /\ timer' = None \/ Whole(timer')
  /\ editor' = None => timer' = None /\ drag' = None
  /\ drag' # None => Whole(drag'.before) /\ drag'.what \in N!Droppables(editor')
  /\ edits' \in 0 .. MaxEdits
  => NavInv'
BY DEF NavInv, N!Droppables, N!EntryNames, Whole, OnceEach, Apart, N!PagesIn

\* A change made while nothing is dragged.
LEMMA ChangeKeeps ==
  ASSUME N!NavConstants, NavInv, drag = None, NEW groups, Whole(groups), N!Change(groups)
  PROVE  NavInv'
<1>1. groups # None
  BY WholeIsSaved
<1>2. /\ editor' = groups /\ timer' = groups /\ saved' = saved /\ drag' = None
      /\ edits < MaxEdits /\ edits' = edits + 1
  BY DEF N!Change, N!apply
<1>3. edits' \in 0 .. MaxEdits
  BY <1>2 DEF NavInv, N!NavConstants
<1>4. saved' = None \/ saved' \in N!SavedLayouts
  BY <1>2 DEF NavInv
<1>5. Whole(editor') /\ Whole(timer')
  BY <1>2
<1> QED BY <1>1, <1>2, <1>3, <1>4, <1>5, NavInvNext

LEMMA ApplyKeeps ==
  ASSUME N!NavConstants, NavInv, editor # None, NEW groups, Whole(groups), NEW stick \in BOOLEAN,
         N!apply(groups, stick), saved' = saved, edits' = edits,
         drag' # None => drag' = drag /\ drag.what \in N!Droppables(groups)
  PROVE  NavInv'
<1>1. groups # None
  BY WholeIsSaved
<1>2. editor' = groups /\ (timer' = groups \/ timer' = timer)
  BY DEF N!apply
<1>3. drag' # None => Whole(drag'.before) /\ drag'.what \in N!Droppables(editor')
  <2>1. drag = None \/ Whole(drag.before)
    BY DEF NavInv
  <2>2. editor' = groups
    BY <1>2
  <2> QED BY <2>1, <2>2
<1>4. timer' = None \/ Whole(timer')
  BY <1>2 DEF NavInv
<1>5. /\ saved' = None \/ saved' \in N!SavedLayouts
      /\ edits' \in 0 .. MaxEdits
  BY DEF NavInv
<1>6. Whole(editor') /\ editor' # None
  BY <1>1, <1>2
<1> QED BY <1>3, <1>4, <1>5, <1>6, NavInvNext

LEMMA WriteKeeps ==
  ASSUME N!NavConstants, NavInv, NEW groups, Whole(groups), N!Write(groups)
  PROVE  saved' = None \/ saved' \in N!SavedLayouts
BY WholeIsSaved DEF N!Write, NavInv

\* The buttons of the editor.
LEMMA ButtonsKeep ==
  ASSUME N!NavConstants, NavInv, editor # None, drag = None, N!Buttons
  PROVE  NavInv'
<1>1. Whole(editor) /\ OnceEach(editor) /\ N!PagesIn(editor) = N!Destinations
  BY DEF NavInv, Whole
<1>2. /\ editor \in Seq(MenuGroups) /\ Len(editor) \in Nat /\ DOMAIN editor = 1 .. Len(editor)
      /\ \A k \in DOMAIN editor : /\ editor[k] \in MenuGroups /\ NoneTwice(editor[k].entries)
                                  /\ editor[k].entries \in Seq(MenuEntries)
  BY <1>1, InMenu
<1>3. ASSUME NEW q, LookAlike(editor, q) PROVE Whole(q)
  BY <1>1, <1>3, SameLook DEF Whole
<1>4. CASE N!addGroup
  <2> DEFINE id == N!newGroupId(editor)
             g == [N!Group(id, << >>) EXCEPT !.own = TRUE]
  <2>1. id \in {"custom-1", "custom-2"} /\ N!At(editor, id) = 0
    BY <1>4 DEF N!addGroup, N!newGroupId
  <2> HIDE DEF id
  <2>2. g \in MenuGroups /\ g.id = id /\ g.entries = << >>
    <3>1. id \in N!GroupIds \ {"settings"}
      BY <2>1 DEF N!GroupIds
    <3> DEFINE h == N!Group(id, << >>)
    <3>2. h \in MenuGroups /\ h.id = id /\ h.entries = << >>
      BY <3>1 DEF N!Group, MenuGroups
    <3> HIDE DEF h
    <3>3. [h EXCEPT !.own = TRUE] \in MenuGroups /\ [h EXCEPT !.own = TRUE].id = id
          /\ [h EXCEPT !.own = TRUE].entries = << >>
      BY <3>2 DEF MenuGroups
    <3> QED BY <3>3 DEF h
  <2>3. \A i \in DOMAIN editor : editor[i].id # id
    BY <1>2, <2>1, AtFinds
  <2>4. NoneTwice(<< >>) /\ PagesOf(<< >>) = {}
    BY DEF NoneTwice, PagesOf
  <2>5. N!Change(Append(editor, g))
    BY <1>4 DEF N!addGroup, id
  <2> HIDE DEF g
  <2>6. Whole(Append(editor, g))
    BY <1>1, <2>2, <2>3, <2>4, GroupAdded DEF Whole
  <2> QED BY <2>5, <2>6, ChangeKeeps
<1>5. CASE N!reset
  BY <1>5, DefaultWhole, ChangeKeeps DEF N!reset
<1>6. ASSUME NEW k \in DOMAIN editor, N!deleteGroup(k)
      PROVE  NavInv'
  <2>1. PagesOf(editor[k].entries) = {} /\ N!Change(N!RemoveAt(editor, k))
    BY <1>6 DEF N!deleteGroup, N!HasItems, PagesOf
  <2>2. Whole(N!RemoveAt(editor, k))
    BY <1>1, <2>1, GroupTakenOut DEF Whole
  <2> QED BY <2>1, <2>2, ChangeKeeps
<1>7. ASSUME NEW k \in DOMAIN editor, N!renameGroup(k)
      PROVE  NavInv'
  <2> DEFINE q == [editor EXCEPT ![k].own = TRUE]
  <2>1. [editor[k] EXCEPT !.own = TRUE] \in MenuGroups
    BY <1>2 DEF MenuGroups
  <2>2. LookAlike(editor, q)
    BY <1>2, <2>1 DEF LookAlike, MenuGroups
  <2>3. N!Change(q)
    BY <1>7 DEF N!renameGroup
  <2> HIDE DEF q
  <2> QED BY <1>3, <2>2, <2>3, ChangeKeeps
<1>8. ASSUME NEW k \in DOMAIN editor, N!toggleGroupHidden(k)
      PROVE  NavInv'
  <2> DEFINE q == [editor EXCEPT ![k].hidden = ~@]
  <2>1. [editor[k] EXCEPT !.hidden = ~@] \in MenuGroups
    BY <1>2 DEF MenuGroups
  <2>2. LookAlike(editor, q)
    BY <1>2, <2>1 DEF LookAlike, MenuGroups
  <2>3. N!Change(q)
    BY <1>8 DEF N!toggleGroupHidden
  <2> HIDE DEF q
  <2> QED BY <1>3, <2>2, <2>3, ChangeKeeps
<1>9. ASSUME NEW k \in DOMAIN editor, N!addSeparator(k)
      PROVE  NavInv'
  <2>1. PICK s \in Separators : N!Change(N!Push(editor, k, N!Item(s, FALSE)))
    BY <1>9 DEF N!addSeparator
  <2> DEFINE e == N!Item(s, FALSE)
  <2>2. e \in MenuEntries /\ e.of = s
    BY DEF N!Item, MenuEntries
  <2>3. s \notin N!Destinations
    BY DEF N!NavConstants
  <2> HIDE DEF e
  <2>4. /\ OnceEach(N!Push(editor, k, e))
        /\ N!PagesIn(N!Push(editor, k, e)) = N!PagesIn(editor) \cup ({e.of} \cap N!Destinations)
    BY <1>1, <2>2, <2>3, Pushed
  <2>5. Whole(N!Push(editor, k, e))
    BY <1>1, <2>2, <2>3, <2>4 DEF Whole
  <2> QED BY <2>1, <2>5, ChangeKeeps DEF e
<1>10. ASSUME NEW k \in DOMAIN editor, NEW i \in DOMAIN editor[k].entries, N!removeEntry(k, i)
       PROVE  NavInv'
  <2> DEFINE es == N!RemoveAt(editor[k].entries, i)
  <2>1. editor[k].entries[i].of \in Separators /\ N!Change([editor EXCEPT ![k].entries = es])
    BY <1>10 DEF N!removeEntry
  <2>2. editor[k].entries \in Seq(MenuEntries) /\ NoneTwice(editor[k].entries)
    BY <1>2
  <2>3. es \in Seq(MenuEntries) /\ NoneTwice(es)
    BY <2>2, EntryTakenOut
  <2>4. PagesOf(es) = PagesOf(editor[k].entries) \ {editor[k].entries[i].of}
    BY <2>2, EntryTakenOut
  <2>5. editor[k].entries[i].of \notin PagesOf(editor[k].entries)
    BY <2>1 DEF N!NavConstants, PagesOf
  <2> HIDE DEF es
  <2>6. Whole([editor EXCEPT ![k].entries = es])
    BY <1>1, <2>3, <2>4, <2>5, EntriesChanged
  <2> QED BY <2>1, <2>6, ChangeKeeps
<1>11. ASSUME NEW k \in DOMAIN editor, NEW i \in DOMAIN editor[k].entries, N!toggleEntryHidden(k, i)
       PROVE  NavInv'
  <2> DEFINE q == [editor EXCEPT ![k].entries[i].hidden = ~@]
             es == [editor[k].entries EXCEPT ![i].hidden = ~@]
             g == [editor[k] EXCEPT !.entries = es]
  <2>1. editor[k].entries \in Seq(MenuEntries) /\ editor[k] \in MenuGroups
    BY <1>2
  <2>2. editor[k].entries[i] \in MenuEntries
    BY <2>1
  <2>3. [editor[k].entries[i] EXCEPT !.hidden = ~@] \in MenuEntries
    BY <2>2 DEF MenuEntries
  <2>4. /\ es \in Seq(MenuEntries) /\ DOMAIN es = DOMAIN editor[k].entries
        /\ \A j \in DOMAIN es : es[j].of = editor[k].entries[j].of
    BY <2>1, <2>2, <2>3 DEF MenuEntries
  <2>5. q = [editor EXCEPT ![k] = g]
    OBVIOUS
  <2>6. N!Change(q)
    BY <1>11 DEF N!toggleEntryHidden
  <2> HIDE DEF q, es
  <2>7. g \in MenuGroups /\ g.id = editor[k].id /\ g.entries = es
    BY <2>1, <2>4 DEF MenuGroups
  <2> HIDE DEF g
  <2>8. LookAlike(editor, q)
    BY <1>2, <2>4, <2>5, <2>7 DEF LookAlike
  <2> QED BY <1>3, <2>6, <2>8, ChangeKeeps
<1> QED BY <1>4, <1>5, <1>6, <1>7, <1>8, <1>9, <1>10, <1>11 DEF N!Buttons, N!GroupCard, N!EntryRow

\* Dragging.
LEMMA DraggingKeeps ==
  ASSUME N!NavConstants, NavInv, drag # None, N!Dragging
  PROVE  NavInv'
<1>1. /\ editor # None /\ Whole(editor) /\ OnceEach(editor) /\ N!PagesIn(editor) = N!Destinations
      /\ Whole(drag.before) /\ drag.what \in N!Droppables(editor)
  BY DEF NavInv, Whole
<1>2. Len(editor) \in Nat /\ DOMAIN editor = 1 .. Len(editor)
  BY <1>1, InMenu
<1>3. ASSUME NEW over \in N!Droppables(editor), N!onDragOver(over)
      PROVE  NavInv'
  <2> DEFINE q == N!MovedOver(editor, drag.what, over)
  <2>1. /\ drag.what \in N!EntryNames(editor)
        /\ N!containerOf(editor, drag.what) # N!containerOf(editor, over)
        /\ N!apply(q, FALSE) /\ UNCHANGED <<saved, drag, edits>>
    BY <1>3 DEF N!onDragOver
  <2>2. Whole(q) /\ drag.what \in N!EntryNames(q)
    BY <1>1, <2>1, MovedOverWhole
  <2> HIDE DEF q
  <2>3. drag.what \in N!Droppables(q)
    BY <2>2 DEF N!Droppables
  <2> QED BY <1>1, <2>1, <2>2, <2>3, ApplyKeeps
<1>4. ASSUME NEW over \in N!Droppables(editor), N!onDragEnd(over)
      PROVE  NavInv'
  <2>1. drag' = None /\ saved' = saved /\ edits' = edits
    BY <1>4 DEF N!onDragEnd
  <2>2. CASE drag.what \in N!EntryNames(editor)
    <3> DEFINE k == N!containerOf(editor, drag.what)
               from == N!Find(editor[k].entries, drag.what)
               oi == N!Find(editor[k].entries, over)
               to == IF oi = 0 THEN Len(editor[k].entries) ELSE oi
               es == N!arrayMove(editor[k].entries, from, to)
    <3>1. N!apply([editor EXCEPT ![k].entries = es], TRUE)
      <4>1. N!EndEntry(over)
        BY <1>4, <2>2 DEF N!onDragEnd
      <4>2. N!EndEntry(over) = N!apply([editor EXCEPT ![k].entries = N!arrayMove(@, from, to)], TRUE)
        BY DEF N!EndEntry
      <4>3. k \in DOMAIN editor
        BY <1>1, <2>2, EntryIsIn
      <4>4. [editor EXCEPT ![k].entries = N!arrayMove(@, from, to)] = [editor EXCEPT ![k].entries = es]
        <5> HIDE DEF k, from, to
        <5> QED BY <4>3
      <4> QED BY <4>1, <4>2, <4>4
    <3>2. k \in DOMAIN editor /\ from \in DOMAIN editor[k].entries
      BY <1>1, <2>2, EntryIsIn
    <3> HIDE DEF k, from
    <3>3. editor[k].entries \in Seq(MenuEntries) /\ NoneTwice(editor[k].entries)
      BY <1>1, <3>2, InMenu
    <3>4. to \in DOMAIN editor[k].entries
      <4>1. oi \in 1 .. Len(editor[k].entries) \/ oi = 0
        BY <3>3, FindFinds
      <4>2. DOMAIN editor[k].entries = 1 .. Len(editor[k].entries) /\ Len(editor[k].entries) \in Nat
        BY <3>3
      <4> HIDE DEF oi
      <4> QED BY <3>2, <4>1, <4>2
    <3> HIDE DEF to
    <3>5. es \in Seq(MenuEntries) /\ NoneTwice(es)
      BY <3>2, <3>3, <3>4, EntryMoved
    <3>6. PagesOf(es) = PagesOf(editor[k].entries)
      BY <3>2, <3>3, <3>4, EntryMoved
    <3> HIDE DEF es
    <3>7. Whole([editor EXCEPT ![k].entries = es])
      BY <1>1, <3>2, <3>5, <3>6, EntriesChanged
    <3> DEFINE q == [editor EXCEPT ![k].entries = es]
    <3>8. Whole(q) /\ N!apply(q, TRUE) /\ TRUE \in BOOLEAN
      BY <3>1, <3>7
    <3> HIDE DEF q
    <3> QED BY <1>1, <2>1, <3>8, ApplyKeeps
  <2>3. CASE drag.what \notin N!EntryNames(editor)
    <3> DEFINE from == N!At(editor, drag.what)
               to == N!containerOf(editor, over)
               q == IF from # to THEN N!arrayMove(editor, from, to) ELSE drag.before
    <3>1. N!apply(q, TRUE)
      BY <1>4, <2>3 DEF N!onDragEnd, N!EndGroup
    <3>2. to \in DOMAIN editor
      BY <1>1, DroppableIsIn
    <3>3. from \in DOMAIN editor
      <4>1. \E i \in DOMAIN editor : editor[i].id = drag.what
        BY <1>1, <2>3 DEF N!Droppables
      <4> QED BY <1>2, <4>1, AtFinds
    <3> HIDE DEF from, to
    <3>4. Whole(N!arrayMove(editor, from, to))
      BY <1>1, <3>2, <3>3, GroupMoved DEF Whole
    <3>5. Whole(q)
      BY <1>1, <3>4
    <3> HIDE DEF q
    <3>6. TRUE \in BOOLEAN
      OBVIOUS
    <3> QED BY <1>1, <2>1, <3>1, <3>5, <3>6, ApplyKeeps
  <2> QED BY <2>2, <2>3
<1>5. CASE N!onDragCancel
  <2>1. N!apply(drag.before, FALSE) /\ drag' = None /\ saved' = saved /\ edits' = edits
    BY <1>5 DEF N!onDragCancel
  <2>2. FALSE \in BOOLEAN
    OBVIOUS
  <2> QED BY <1>1, <2>1, <2>2, ApplyKeeps
<1> QED BY <1>3, <1>4, <1>5 DEF N!Dragging

-----------------------------------------------------------------------------
NoneStale(groups) == \A i \in DOMAIN groups : ~Stale(groups[i])

LEMMA PushedItems ==
  ASSUME NEW groups, OnceEach(groups), NEW k \in DOMAIN groups, NEW e \in MenuEntries, e.of \in N!Destinations
  PROVE  /\ ItemsIn(N!Push(groups, k, e)) = ItemsIn(groups) \cup {e}
         /\ NoneStale(groups) => NoneStale(N!Push(groups, k, e))
<1> DEFINE es == Append(groups[k].entries, e)
           q == N!Push(groups, k, e)
<1>1. groups[k] \in MenuGroups /\ groups[k].entries \in Seq(MenuEntries)
  BY InMenu
<1>2. e \in PageItems
  BY DEF MenuEntries, PageItems
<1>3. ItemsOf(es) = ItemsOf(groups[k].entries) \cup ({e} \cap PageItems)
  BY <1>1, ItemAdded
<1>4. e.of \in PagesOf(es)
  <2>1. Len(es) \in DOMAIN es /\ es[Len(es)] = e
    BY <1>1
  <2> HIDE DEF es
  <2> QED BY <2>1 DEF PagesOf
<1>5. DOMAIN q = DOMAIN groups /\ q[k].entries = es /\ \A i \in DOMAIN groups : i # k => q[i] = groups[i]
  BY <1>1 DEF N!Push, MenuGroups
<1> HIDE DEF q, es
<1>6. ItemsIn(q) = ItemsIn(groups) \cup {e}
  <2>1. \A i \in DOMAIN groups : i # k => ItemsOf(q[i].entries) = ItemsOf(groups[i].entries)
    BY <1>5
  <2>2. ItemsOf(q[k].entries) = ItemsOf(groups[k].entries) \cup {e}
    BY <1>2, <1>3, <1>5
  <2> QED BY <1>2, <1>5, <2>1, <2>2 DEF ItemsIn
<1>7. NoneStale(groups) => NoneStale(q)
  BY <1>4, <1>5 DEF NoneStale, Stale
<1> QED BY <1>6, <1>7 DEF q

\* A page that is in no group is put in one, as it should be; the others stay.
LEMMA BackFillItems ==
  ASSUME N!NavConstants, NEW layout, NEW groups, OnceEach(groups), NEW to \in N!Destinations
  PROVE  LET q == N!BackFill(layout, groups, to)
         IN  /\ to \in N!PagesIn(groups) => q = groups
             /\ to \notin N!PagesIn(groups) =>
                  ItemsIn(q) = ItemsIn(groups) \cup {N!Item(to, N!isUnseen(to, layout))}
             /\ NoneStale(groups) => NoneStale(q)
<1> DEFINE k == N!At(groups, N!HomeOf(to))
           new == N!isUnseen(to, layout)
           e == N!Item(to, new)
           alone == N!Group(N!HomeOf(to), <<e>>)
           q == N!BackFill(layout, groups, to)
<1>1. groups \in Seq(MenuGroups) /\ Len(groups) \in Nat /\ DOMAIN groups = 1 .. Len(groups)
  BY InMenu
<1>2. new \in BOOLEAN
  BY DEF N!isUnseen
<1>3. e \in MenuEntries /\ e.of = to /\ e \in PageItems
  <2> HIDE DEF new
  <2> QED BY <1>2 DEF N!Item, MenuEntries, PageItems
<1>4. CASE to \in N!PagesIn(groups)
  <2>1. q = groups
    BY <1>4 DEF N!BackFill
  <2> HIDE DEF q
  <2> QED BY <1>4, <2>1 DEF q
<1>5. CASE to \notin N!PagesIn(groups) /\ k > 0
  <2>1. k \in DOMAIN groups
    BY <1>1, <1>5, AtFinds
  <2>2. q = N!Push(groups, k, e)
    BY <1>5 DEF N!BackFill
  <2> HIDE DEF k, e, q
  <2>3. /\ ItemsIn(N!Push(groups, k, e)) = ItemsIn(groups) \cup {e}
        /\ NoneStale(groups) => NoneStale(N!Push(groups, k, e))
    BY <1>3, <2>1, PushedItems
  <2> QED BY <1>5, <2>2, <2>3 DEF q, e
<1>6. CASE to \notin N!PagesIn(groups) /\ ~(k > 0) /\ (new \/ groups = << >>)
  <2>1. q = Append(groups, alone)
    BY <1>6 DEF N!BackFill
  <2>2. alone \in MenuGroups /\ alone.entries = <<e>>
    <3> HIDE DEF e
    <3>1. <<e>> \in Seq(MenuEntries)
      BY <1>3
    <3> QED BY <3>1, HasAHome DEF N!Group, MenuGroups
  <2> HIDE DEF e, alone, q
  <2>3. ItemsOf(<<e>>) = {e} /\ PagesOf(<<e>>) # {}
    BY <1>3 DEF ItemsOf, PagesOf
  <2>4. ItemsIn(Append(groups, alone)) = ItemsIn(groups) \cup ItemsOf(alone.entries)
    BY <1>1, <2>2, ItemsInAdded
  <2>5. \A i \in DOMAIN Append(groups, alone) :
          \/ i \in DOMAIN groups /\ Append(groups, alone)[i] = groups[i]
          \/ Append(groups, alone)[i] = alone
    BY <1>1
  <2>6. NoneStale(groups) => NoneStale(Append(groups, alone))
    BY <2>2, <2>3, <2>5 DEF NoneStale, Stale
  <2> QED BY <1>6, <2>1, <2>2, <2>3, <2>4, <2>6 DEF q, e
<1>7. CASE to \notin N!PagesIn(groups) /\ ~(k > 0) /\ ~new /\ groups # << >>
  <2>1. 1 \in DOMAIN groups
    BY <1>1, <1>7
  <2>2. q = N!Push(groups, 1, N!Item(to, FALSE))
    BY <1>7 DEF N!BackFill
  <2>3. e = N!Item(to, FALSE)
    BY <1>2, <1>7
  <2> HIDE DEF k, e, q
  <2>4. /\ ItemsIn(N!Push(groups, 1, e)) = ItemsIn(groups) \cup {e}
        /\ NoneStale(groups) => NoneStale(N!Push(groups, 1, e))
    BY <1>3, <2>1, PushedItems
  <2> QED BY <1>7, <2>2, <2>3, <2>4 DEF q, e
<1> QED BY <1>4, <1>5, <1>6, <1>7

\* What the first k pages add to what was kept.
Added(layout, left, k) ==
  {e \in PageItems : \E i \in 1 .. k : /\ NavItems[i] \notin N!PagesIn(left)
                                        /\ e = N!Item(NavItems[i], N!isUnseen(NavItems[i], layout))}
PagesTo(left, k) == N!PagesIn(left) \cup {NavItems[i] : i \in 1 .. k}

\* So far, the pages missed are in, each once, and a menu that missed none is as it was.
FilledTo(layout, left, k) ==
  {gs \in Seq(MenuGroups) :
     /\ OnceEach(gs) /\ N!PagesIn(gs) = PagesTo(left, k)
     /\ ItemsIn(gs) = ItemsIn(left) \cup Added(layout, left, k)
     /\ NoneStale(gs) /\ (N!PagesIn(left) = N!Destinations => gs = left)}

LEMMA FillsOneMore ==
  ASSUME N!NavConstants, NEW layout, NEW left, OnceEach(left), NEW k \in 1 .. Len(NavItems),
         NEW gs \in FilledTo(layout, left, k - 1)
  PROVE  N!BackFill(layout, gs, NavItems[k]) \in FilledTo(layout, left, k)
<1> DEFINE to == NavItems[k]
           q == N!BackFill(layout, gs, to)
           e == N!Item(to, N!isUnseen(to, layout))
<1>1. /\ OnceEach(gs) /\ N!PagesIn(gs) = PagesTo(left, k - 1)
      /\ ItemsIn(gs) = ItemsIn(left) \cup Added(layout, left, k - 1)
      /\ NoneStale(gs) /\ (N!PagesIn(left) = N!Destinations => gs = left)
  BY DEF FilledTo
<1>2. to \in N!Destinations /\ 1 .. k = (1 .. k - 1) \cup {k}
  BY DEF N!NavConstants
<1>3. e \in PageItems
  BY <1>2 DEF N!Item, N!isUnseen, PageItems
<1> HIDE DEF to, e
<1>4. /\ to \in N!PagesIn(gs) => q = gs
      /\ to \notin N!PagesIn(gs) => ItemsIn(q) = ItemsIn(gs) \cup {e}
      /\ NoneStale(gs) => NoneStale(q)
  BY <1>1, <1>2, BackFillItems DEF e
<1>5. OnceEach(q) /\ N!PagesIn(q) = N!PagesIn(gs) \cup {to}
  <2>1. OnceEach(q)
    BY <1>1, <1>2, BackFillKeeps
  <2>2. N!PagesIn(q) = N!PagesIn(gs) \cup {to}
    BY <1>1, <1>2, BackFillKeeps
  <2> QED BY <2>1, <2>2
<1> HIDE DEF q
<1>6. PagesTo(left, k) = PagesTo(left, k - 1) \cup {to}
  BY <1>2 DEF PagesTo, to
<1>7. Added(layout, left, k) = Added(layout, left, k - 1) \cup (IF to \in N!PagesIn(left) THEN {} ELSE {e})
  BY <1>2, <1>3 DEF Added, to, e
<1>8. ItemsIn(q) = ItemsIn(left) \cup Added(layout, left, k)
  <2>1. CASE to \notin N!PagesIn(gs)
    <3>1. to \notin N!PagesIn(left)
      BY <1>1, <2>1 DEF PagesTo
    <3> QED BY <1>1, <1>4, <1>7, <2>1, <3>1
  <2>2. CASE to \in N!PagesIn(gs)
    <3>1. to \notin N!PagesIn(left) => e \in Added(layout, left, k - 1)
      BY <1>1, <1>3, <2>2 DEF PagesTo, Added, e
    <3>2. Added(layout, left, k) = Added(layout, left, k - 1)
      BY <1>7, <3>1
    <3> QED BY <1>1, <1>4, <2>2, <3>2
  <2> QED BY <2>1, <2>2
<1>9. N!PagesIn(left) = N!Destinations => q = left
  BY <1>1, <1>2, <1>4
<1>10. q \in FilledTo(layout, left, k)
  BY <1>1, <1>4, <1>5, <1>6, <1>8, <1>9 DEF FilledTo, OnceEach
<1> QED BY <1>10 DEF q, to

LEMMA FilledItems ==
  ASSUME N!NavConstants, NEW layout, NEW left, OnceEach(left), NoneStale(left)
  PROVE  N!BackFilled(layout, left) \in FilledTo(layout, left, Len(NavItems))
<1> DEFINE n == Len(NavItems)
           U == {gs \in Seq(MenuGroups) : OnceEach(gs)}
           W == [k \in 0 .. n |-> FilledTo(layout, left, k)]
<1>1. n \in Nat /\ DOMAIN NavItems = 1 .. n /\ \A k \in 1 .. n : NavItems[k] \in N!Destinations
  BY DEF N!NavConstants
<1>2. left \in U
  BY DEF OnceEach
<1>3. ASSUME NEW a \in U, NEW to \in N!Destinations
      PROVE  N!BackFill(layout, a, to) \in U
  <2>1. OnceEach(N!BackFill(layout, a, to))
    BY BackFillKeeps
  <2> QED BY <2>1 DEF OnceEach
<1>4. left \in FilledTo(layout, left, 0)
  <2>1. PagesTo(left, 0) = N!PagesIn(left) /\ Added(layout, left, 0) = {}
    BY DEF PagesTo, Added
  <2> QED BY <1>2, <2>1 DEF FilledTo
<1> HIDE DEF n, U
<1>5. \A a \in U : \A k \in 1 .. n : N!BackFill(layout, a, NavItems[k]) \in U
  BY <1>1, <1>3
<1>6. PICK r : BackFills(r, n, left, layout, N!BackFilled(layout, left))
  BY <1>1, <1>2, <1>5, BackFillRuns
<1>7. r[0] \in W[0]
  BY <1>1, <1>4, <1>6 DEF BackFills
<1>8. ASSUME NEW k \in 1 .. n, r[k - 1] \in W[k - 1]
      PROVE  r[k] \in W[k]
  <2>1. k - 1 \in 0 .. n /\ k \in 0 .. n /\ k \in 1 .. Len(NavItems)
    BY <1>1 DEF n
  <2>2. r[k - 1] \in FilledTo(layout, left, k - 1)
    BY <1>8, <2>1
  <2>3. N!BackFill(layout, r[k - 1], NavItems[k]) \in FilledTo(layout, left, k)
    BY <2>1, <2>2, FillsOneMore
  <2> QED BY <1>6, <2>1, <2>3 DEF BackFills
<1> HIDE DEF W
<1>9. \A k \in 0 .. n : r[k] \in W[k]
  BY <1>1, <1>7, <1>8, Along
<1> QED BY <1>1, <1>6, <1>9 DEF W, BackFills, n

-----------------------------------------------------------------------------
LEMMA SavedOnes ==
  ASSUME NEW groups \in Seq(N!SavedGroups)
  PROVE  \A i \in DOMAIN groups : groups[i].entries \in Seq(N!SavedEntries)
<1> SUFFICES ASSUME NEW i \in DOMAIN groups PROVE groups[i].entries \in Seq(N!SavedEntries)
  OBVIOUS
<1>1. groups[i] \in N!SavedGroups
  OBVIOUS
<1> QED BY <1>1 DEF N!SavedGroups

LEMMA HiddenItems ==
  ASSUME NEW groups, NEW U, \A i \in DOMAIN groups : groups[i].entries \in Seq(U),
         NEW x \in N!Destinations
  PROVE  N!HiddenIn(groups, x) <=> N!Item(x, TRUE) \in ItemsIn(groups)
<1>1. N!Item(x, TRUE) \in PageItems
  BY DEF N!Item, PageItems
<1>2. ASSUME NEW i \in DOMAIN groups
      PROVE  N!Contains(groups[i].entries, N!Item(x, TRUE)) <=> N!Item(x, TRUE) \in ItemsOf(groups[i].entries)
  <2>1. DOMAIN groups[i].entries = 1 .. Len(groups[i].entries)
    <3> DEFINE es == groups[i].entries
    <3>1. es \in Seq(U)
      OBVIOUS
    <3> HIDE DEF es
    <3> QED BY <3>1 DEF es
  <2> QED BY <1>1, <2>1 DEF N!Contains, ItemsOf
<1> QED BY <1>1, <1>2 DEF N!HiddenIn, ItemsIn

\* Migration keeps what an orderly layout chose.
LEMMA MigrationKeepsChoices ==
  ASSUME N!NavConstants, NEW l \in N!SavedLayouts, N!InOrder(l), l # None
  PROVE  LET q == N!migrateNavLayout(l)
         IN  /\ NoneStale(q)
             /\ \A x \in N!Destinations :
                  N!HiddenIn(q, x) <=> IF x \in N!PagesIn(l.groups) THEN N!HiddenIn(l.groups, x)
                                                                    ELSE N!isUnseen(x, l)
             /\ Settled(l.groups) /\ N!PagesIn(l.groups) = N!Destinations => q = l.groups
<1> DEFINE left == N!Keeping(l.groups).groups
           q == N!migrateNavLayout(l)
           n == Len(NavItems)
<1>1. l.groups \in Seq(N!SavedGroups) /\ N!OwnIds(l.groups)
  BY DEF N!SavedLayouts
<1>2. /\ OnceEach(left) /\ ItemsIn(left) = ItemsIn(l.groups)
      /\ NoneStale(left)
      /\ Settled(l.groups) => left = l.groups
  BY <1>1, KeptInOrder DEF NoneStale
<1>3. q = N!BackFilled(l, left)
  BY DEF N!migrateNavLayout
<1> HIDE DEF left, q, n
<1>4. q \in FilledTo(l, left, n)
  BY <1>2, <1>3, FilledItems DEF n
<1>5. /\ OnceEach(q) /\ ItemsIn(q) = ItemsIn(left) \cup Added(l, left, n)
      /\ NoneStale(q) /\ (N!PagesIn(left) = N!Destinations => q = left)
  BY <1>4 DEF FilledTo
<1>6. N!PagesIn(left) = N!PagesIn(l.groups)
  <2>1. \A i \in DOMAIN left : left[i].entries \in Seq(N!SavedEntries)
    BY <1>2, InMenu, MenuIsSaved
  <2>2. \A i \in DOMAIN l.groups : l.groups[i].entries \in Seq(N!SavedEntries)
    BY <1>1, SavedOnes
  <2>3. ASSUME NEW x \in N!PagesIn(left) PROVE x \in N!PagesIn(l.groups)
    <3>1. PICK e \in ItemsIn(left) : e.of = x
      BY <2>1, PagesOfItemsIn
    <3>2. e \in ItemsIn(l.groups)
      BY <1>2
    <3> QED BY <2>2, <3>1, <3>2, PagesOfItemsIn
  <2>4. ASSUME NEW x \in N!PagesIn(l.groups) PROVE x \in N!PagesIn(left)
    <3>1. PICK e \in ItemsIn(l.groups) : e.of = x
      BY <2>2, PagesOfItemsIn
    <3>2. e \in ItemsIn(left)
      BY <1>2
    <3> QED BY <2>1, <3>1, <3>2, PagesOfItemsIn
  <2> QED BY <2>3, <2>4
<1>7. ASSUME NEW x \in N!Destinations
      PROVE  N!HiddenIn(q, x) <=> IF x \in N!PagesIn(l.groups) THEN N!HiddenIn(l.groups, x)
                                                               ELSE N!isUnseen(x, l)
  <2> DEFINE e == N!Item(x, TRUE)
  <2>1. N!HiddenIn(q, x) <=> e \in ItemsIn(q)
    <3>1. \A i \in DOMAIN q : q[i].entries \in Seq(MenuEntries)
      BY <1>5, InMenu
    <3> QED BY <3>1, HiddenItems
  <2>2. N!HiddenIn(l.groups, x) <=> e \in ItemsIn(l.groups)
    <3>1. \A i \in DOMAIN l.groups : l.groups[i].entries \in Seq(N!SavedEntries)
      BY <1>1, SavedOnes
    <3> QED BY <3>1, HiddenItems
  <2>3. e \in ItemsIn(l.groups) => x \in N!PagesIn(l.groups)
    <3>1. \A i \in DOMAIN l.groups : l.groups[i].entries \in Seq(N!SavedEntries)
      BY <1>1, SavedOnes
    <3>2. e.of = x
      BY DEF N!Item
    <3> HIDE DEF e
    <3> QED BY <3>1, <3>2, PagesOfItemsIn
  <2>4. e \in Added(l, left, n) <=> x \notin N!PagesIn(left) /\ N!isUnseen(x, l)
    <3>1. PICK i \in 1 .. n : NavItems[i] = x
      BY DEF N!NavConstants, N!Destinations, N!ToSet, n
    <3>2. e \in PageItems
      BY DEF N!Item, PageItems
    <3>3. \A y : N!isUnseen(y, l) \in BOOLEAN
      BY DEF N!isUnseen
    <3>4. ASSUME NEW y PROVE e = N!Item(y, N!isUnseen(y, l)) <=> y = x /\ N!isUnseen(y, l)
      <4>1. N!isUnseen(y, l) \in BOOLEAN
        BY <3>3
      <4>2. e.of = x /\ e.hidden = TRUE
        BY DEF N!Item
      <4>3. e = [of |-> x, hidden |-> TRUE]
        BY DEF N!Item
      <4> DEFINE b == N!isUnseen(y, l)
      <4>4. N!Item(y, b) = [of |-> y, hidden |-> b]
        BY DEF N!Item
      <4> DEFINE f == N!Item(y, b)
      <4>5. f.of = y /\ f.hidden = b
        BY <4>4
      <4> HIDE DEF e, b, f
      <4>6. e = f => y = x /\ b
        BY <4>2, <4>5
      <4>7. y = x /\ b => e = f
        BY <4>1, <4>3, <4>4 DEF f
      <4> QED BY <4>6, <4>7 DEF b, f
    <3> HIDE DEF e
    <3> QED BY <3>1, <3>2, <3>4 DEF Added
  <2> HIDE DEF e
  <2> QED BY <1>2, <1>5, <1>6, <2>1, <2>2, <2>3, <2>4
<1>8. Settled(l.groups) /\ N!PagesIn(l.groups) = N!Destinations => q = l.groups
  BY <1>2, <1>5, <1>6
<1> QED BY <1>5, <1>7, <1>8 DEF q

-----------------------------------------------------------------------------
LEMMA NavInitially ==
  ASSUME N!NavConstants, N!Init
  PROVE  NavInv
BY DEF N!Init, NavInv, N!NavConstants

\* The notice writes a whole menu, whatever the answer.
LEMMA DecideWrites ==
  ASSUME N!NavConstants, NavInv, NEW show \in BOOLEAN, N!decide(show)
  PROVE  \E groups : Whole(groups) /\ N!Write(groups)
<1> DEFINE new == N!unseenNavPages(saved)
           groups == N!migrateNavLayout(saved)
           shownEntries(es) == [j \in DOMAIN es |->
                                  IF es[j].of \in new THEN [es[j] EXCEPT !.hidden = FALSE] ELSE es[j]]
           asShown(g) == [g EXCEPT !.entries = shownEntries(@)]
           q == [k \in DOMAIN groups |-> asShown(groups[k])]
<1>1. Whole(groups)
  BY MigratedWhole DEF NavInv
<1>2. N!Write(IF show THEN q ELSE groups)
  BY DEF N!decide
<1> HIDE DEF new, groups
<1>3. Whole(q)
  <2>1. /\ groups \in Seq(MenuGroups) /\ Len(groups) \in Nat /\ DOMAIN groups = 1 .. Len(groups)
        /\ \A k \in DOMAIN groups : groups[k] \in MenuGroups /\ groups[k].entries \in Seq(MenuEntries)
    BY <1>1, InMenu DEF Whole
  <2>2. ASSUME NEW es \in Seq(MenuEntries)
        PROVE  /\ shownEntries(es) \in Seq(MenuEntries) /\ DOMAIN shownEntries(es) = DOMAIN es
               /\ \A j \in DOMAIN es : shownEntries(es)[j].of = es[j].of
    <3>1. DOMAIN es = 1 .. Len(es) /\ Len(es) \in Nat /\ \A j \in DOMAIN es : es[j] \in MenuEntries
      OBVIOUS
    <3>2. \A e \in MenuEntries : /\ [e EXCEPT !.hidden = FALSE] \in MenuEntries
                                 /\ [e EXCEPT !.hidden = FALSE].of = e.of
      BY DEF MenuEntries
    <3>3. \A j \in DOMAIN es : shownEntries(es)[j] \in MenuEntries /\ shownEntries(es)[j].of = es[j].of
      BY <3>1, <3>2
    <3>4. shownEntries(es) = [j \in 1 .. Len(es) |-> shownEntries(es)[j]]
      BY <3>1
    <3> HIDE DEF shownEntries
    <3>5. shownEntries(es) \in [1 .. Len(es) -> MenuEntries]
      BY <3>1, <3>3, <3>4
    <3> QED BY <3>1, <3>3, <3>5
  <2> HIDE DEF shownEntries
  <2>3. \A k \in DOMAIN groups :
          /\ asShown(groups[k]) \in MenuGroups /\ asShown(groups[k]).id = groups[k].id
          /\ asShown(groups[k]).entries = shownEntries(groups[k].entries)
    BY <2>1, <2>2 DEF MenuGroups
  <2> HIDE DEF asShown
  <2>4. q \in Seq(MenuGroups) /\ Len(q) = Len(groups) /\ \A k \in DOMAIN groups : q[k] = asShown(groups[k])
    BY <2>1, <2>3
  <2> HIDE DEF q
  <2>5. LookAlike(groups, q)
    BY <2>1, <2>2, <2>3, <2>4 DEF LookAlike
  <2> QED BY <1>1, <2>5, SameLook DEF Whole
<1> DEFINE written == IF show THEN q ELSE groups
<1>4. Whole(written)
  BY <1>1, <1>3
<1> HIDE DEF written, q
<1> QED BY <1>2, <1>4 DEF written

LEMMA NavSteps ==
  ASSUME N!NavConstants, NavInv, [N!Next]_(N!vars)
  PROVE  NavInv'
<1> USE DEF NavInv
<1>1. CASE N!OpenEditor
  <2> DEFINE q == N!migrateNavLayout(saved)
  <2>1. Whole(q) /\ q # None
    BY MigratedWhole, WholeIsSaved
  <2>2. editor' = q /\ UNCHANGED <<saved, timer, drag, edits>> /\ drag = None /\ timer = None
    BY <1>1 DEF N!OpenEditor
  <2> HIDE DEF q
  <2> QED BY <2>1, <2>2, NavInvNext
<1>2. CASE N!CloseEditor
  BY <1>2, NavInvNext DEF N!CloseEditor
<1>3. CASE N!TimerFires
  <2>1. timer # None /\ Whole(timer) /\ N!Write(timer) /\ timer' = None /\ UNCHANGED <<editor, drag, edits>>
    BY <1>3 DEF N!TimerFires
  <2>2. saved' = None \/ saved' \in N!SavedLayouts
    BY <2>1, WriteKeeps
  <2> QED BY <2>1, <2>2, NavInvNext
<1>4. CASE editor # None /\ drag = None /\ N!Buttons
  BY <1>4, ButtonsKeep
<1>5. CASE editor # None /\ drag = None /\ N!onDragStart
  <2>1. PICK what \in N!Droppables(editor) : drag' = [what |-> what, before |-> editor]
    BY <1>5 DEF N!onDragStart
  <2>2. edits' \in 0 .. MaxEdits /\ UNCHANGED <<saved, editor, timer>>
    BY <1>5 DEF N!onDragStart, N!NavConstants
  <2>3. drag'.what = what /\ drag'.before = editor
    BY <2>1
  <2> QED BY <1>5, <2>2, <2>3, NavInvNext
<1>6. CASE drag # None /\ N!Dragging
  BY <1>6, DraggingKeeps
<1>7. ASSUME NEW show \in BOOLEAN, N!decide(show)
      PROVE  NavInv'
  <2>1. PICK groups : Whole(groups) /\ N!Write(groups)
    BY <1>7, DecideWrites
  <2>2. edits' \in 0 .. MaxEdits /\ UNCHANGED <<editor, timer, drag>>
    BY <1>7 DEF N!decide, N!NavConstants
  <2>3. saved' = None \/ saved' \in N!SavedLayouts
    BY <2>1, WriteKeeps
  <2> QED BY <2>2, <2>3, NavInvNext
<1>8. CASE N!AnotherTab
  <2>1. PICK l \in SavedBefore : saved' = N!Layout(N!migrateNavLayout(l))
    BY <1>8 DEF N!AnotherTab
  <2>2. l = None \/ l \in N!SavedLayouts
    BY DEF N!NavConstants
  <2>3. saved' \in N!SavedLayouts
    BY <2>1, <2>2, MigratedWhole, WholeIsSaved
  <2>4. edits' \in 0 .. MaxEdits /\ UNCHANGED <<editor, timer, drag>>
    BY <1>8 DEF N!AnotherTab, N!NavConstants
  <2> QED BY <2>3, <2>4, NavInvNext
<1>9. CASE UNCHANGED N!vars
  BY <1>9, NavInvNext DEF N!vars
<1> QED BY <1>1, <1>2, <1>3, <1>4, <1>5, <1>6, <1>7, <1>8, <1>9 DEF N!Next

\* NavLayout counts as FiniteSets does.
LEMMA CountsAlike ==
  ASSUME NEW S
  PROVE  N!Cardinality(S) = Cardinality(S)
BY DEF N!Cardinality, Cardinality

\* Exactly one of the places there are holds a page.
LEMMA WholeShowsOnce ==
  ASSUME NEW groups, Whole(groups), NEW x \in N!Destinations
  PROVE  N!Cardinality(N!Places(groups, x)) = 1
<1> DEFINE S == N!Places(groups, x)
<1>0. S = {p \in UNION {{i} \X DOMAIN groups[i].entries : i \in DOMAIN groups} :
             groups[p[1]].entries[p[2]].of = x}
  BY DEF N!Places
<1> HIDE DEF S
<1>1. PICK i \in DOMAIN groups : x \in PagesOf(groups[i].entries)
  BY PagesInGroups DEF Whole
<1>2. PICK j \in DOMAIN groups[i].entries : groups[i].entries[j].of = x
  BY <1>1 DEF PagesOf
<1>3. <<i, j>> \in S
  BY <1>0, <1>2
<1>4. ASSUME NEW p \in S PROVE p = <<i, j>>
  <2>1. PICK k \in DOMAIN groups : p \in {k} \X DOMAIN groups[k].entries
    BY <1>0
  <2>2. p = <<k, p[2]>> /\ p[1] = k /\ p[2] \in DOMAIN groups[k].entries
    BY <2>1
  <2>3. groups[k].entries[p[2]].of = x
    BY <1>0, <2>2
  <2>4. x \in PagesOf(groups[k].entries)
    BY <2>2, <2>3 DEF PagesOf
  <2>5. k = i
    BY <1>1, <2>4 DEF Whole, OnceEach, Apart
  <2>6. p[2] = j
    BY <1>2, <2>2, <2>3, <2>5 DEF Whole, OnceEach, NoneTwice
  <2> QED BY <2>2, <2>5, <2>6
<1>5. S = {<<i, j>>}
  BY <1>3, <1>4
<1> QED BY <1>5, FS_Singleton, CountsAlike DEF S

LEMMA LayoutsWhole ==
  ASSUME N!NavConstants, NavInv
  PROVE  N!TypeOK /\ N!EveryPageOnce
<1>1. ASSUME NEW groups \in N!Layouts PROVE Whole(groups)
  BY MigratedWhole DEF N!Layouts, NavInv
<1>2. N!EveryPageOnce
  <2> SUFFICES ASSUME NEW groups \in N!Layouts
               PROVE  /\ \A x \in N!Destinations : N!Cardinality(N!Places(groups, x)) = 1
                      /\ N!OwnIds(groups)
    BY DEF N!EveryPageOnce
  <2>1. Whole(groups)
    BY <1>1
  <2>2. N!OwnIds(groups)
    BY <2>1 DEF N!OwnIds, Whole, OnceEach, Apart
  <2> QED BY <2>1, <2>2, WholeShowsOnce
<1>3. N!TypeOK
  BY DEF NavInv, N!TypeOK, N!SavedLayouts
<1> QED BY <1>2, <1>3

\* Whatever was saved and whatever is done to it in the editor, by the notice or in
\* another tab, every page of the menu is in the sidebar once (navLayout.ts).
THEOREM EveryPageIsShownOnce ==
  ASSUME N!NavConstants
  PROVE  N!Spec => [](N!TypeOK /\ N!EveryPageOnce)
<1>1. N!Init => NavInv
  BY NavInitially
<1>2. NavInv /\ [N!Next]_(N!vars) => NavInv'
  BY NavSteps
<1>3. NavInv => N!TypeOK /\ N!EveryPageOnce
  BY LayoutsWhole
<1> QED BY <1>1, <1>2, <1>3, PTL DEF N!Spec

-----------------------------------------------------------------------------
LEMMA WholeInOrder ==
  ASSUME NEW groups, Whole(groups)
  PROVE  N!InOrder(N!Layout(groups))
<1> DEFINE l == N!Layout(groups)
<1>1. l.groups = groups
  BY DEF N!Layout
<1> HIDE DEF l
<1> SUFFICES ASSUME NEW i \in DOMAIN groups, NEW k \in DOMAIN groups,
                    NEW j \in DOMAIN groups[i].entries, NEW m \in DOMAIN groups[k].entries,
                    groups[i].entries[j].of \in N!Destinations
             PROVE  /\ groups[i].id # "settings"
                    /\ groups[i].entries[j].of = groups[k].entries[m].of => i = k /\ j = m
  BY <1>1 DEF N!InOrder, l
<1>2. groups[i].id # "settings"
  BY InMenu DEF Whole, MenuGroups
<1>3. ASSUME groups[i].entries[j].of = groups[k].entries[m].of PROVE i = k /\ j = m
  <2> DEFINE x == groups[i].entries[j].of
  <2>1. x \in PagesOf(groups[i].entries) /\ x \in PagesOf(groups[k].entries)
    BY <1>3 DEF PagesOf
  <2>2. i = k
    BY <2>1 DEF Whole, OnceEach, Apart
  <2>3. j = m
    BY <1>3, <2>2 DEF Whole, OnceEach, NoneTwice
  <2> QED BY <2>2, <2>3
<1> QED BY <1>2, <1>3

\* What is written is a whole menu, whoever writes it.
LEMMA WhatIsWritten ==
  ASSUME N!NavConstants, NavInv, [N!Next]_(N!vars)
  PROVE  saved' = saved \/ \E groups : Whole(groups) /\ saved' = N!Layout(groups)
<1>1. CASE N!TimerFires
  BY <1>1 DEF N!TimerFires, N!Write, NavInv
<1>2. ASSUME NEW show \in BOOLEAN, N!decide(show)
      PROVE  saved' = saved \/ \E groups : Whole(groups) /\ saved' = N!Layout(groups)
  BY <1>2, DecideWrites DEF N!Write
<1>3. CASE N!AnotherTab
  <2>1. PICK l \in SavedBefore : saved' = N!Layout(N!migrateNavLayout(l))
    BY <1>3 DEF N!AnotherTab
  <2>2. l = None \/ l \in N!SavedLayouts
    BY DEF N!NavConstants
  <2> QED BY <2>1, <2>2, MigratedWhole
<1>4. CASE N!OpenEditor \/ N!CloseEditor \/ N!onDragStart \/ UNCHANGED N!vars
  BY <1>4 DEF N!OpenEditor, N!CloseEditor, N!onDragStart, N!vars
<1>5. CASE N!Buttons
  BY <1>5 DEF N!Buttons, N!GroupCard, N!EntryRow, N!addGroup, N!reset, N!deleteGroup, N!renameGroup,
              N!toggleGroupHidden, N!addSeparator, N!removeEntry, N!toggleEntryHidden, N!Change
<1>6. CASE N!Dragging
  BY <1>6 DEF N!Dragging, N!onDragOver, N!onDragEnd, N!onDragCancel
<1> QED BY <1>1, <1>2, <1>3, <1>4, <1>5, <1>6 DEF N!Next

SavedInvariant == NavInv /\ (saved = None \/ N!InOrder(saved))

LEMMA ChoicesKept ==
  ASSUME N!NavConstants, SavedInvariant
  PROVE  N!ChoicesSurviveMigration
<1> SUFFICES ASSUME saved # None
             PROVE  LET groups == N!migrateNavLayout(saved)
                    IN  /\ \A x \in N!Destinations :
                             N!HiddenIn(groups, x) <=>
                               IF x \in N!PagesIn(saved.groups) THEN N!HiddenIn(saved.groups, x)
                                                                ELSE x \in N!unseenNavPages(saved)
                        /\ N!migrateNavLayout(N!Layout(groups)) = groups
  BY DEF N!ChoicesSurviveMigration
<1> DEFINE q == N!migrateNavLayout(saved)
           l == N!Layout(q)
<1>1. saved \in N!SavedLayouts /\ N!InOrder(saved)
  BY DEF SavedInvariant, NavInv
<1>2. Whole(q)
  BY <1>1, MigratedWhole
<1>3. NoneStale(q)
  BY <1>1, MigrationKeepsChoices
<1>4. \A x \in N!Destinations :
        N!HiddenIn(q, x) <=> IF x \in N!PagesIn(saved.groups) THEN N!HiddenIn(saved.groups, x)
                                                              ELSE N!isUnseen(x, saved)
  BY <1>1, MigrationKeepsChoices
<1>5. \A x \in N!Destinations :
        x \in N!unseenNavPages(saved) <=> N!isUnseen(x, saved) /\ x \notin N!PagesIn(saved.groups)
  BY DEF N!unseenNavPages
<1> HIDE DEF q
<1>6. l \in N!SavedLayouts /\ N!InOrder(l) /\ l # None /\ l.groups = q
  <2>1. l \in N!SavedLayouts
    BY <1>2, WholeIsSaved
  <2>2. l # None
    BY <2>1 DEF N!NavConstants
  <2>3. N!InOrder(l)
    BY <1>2, WholeInOrder
  <2> QED BY <2>1, <2>2, <2>3 DEF N!Layout
<1>7. Settled(q) /\ N!PagesIn(q) = N!Destinations
  BY <1>2, <1>3 DEF Whole, OnceEach, Settled, NoneStale
<1> HIDE DEF l
<1>8. N!migrateNavLayout(l) = q
  <2>1. Settled(l.groups) /\ N!PagesIn(l.groups) = N!Destinations => N!migrateNavLayout(l) = l.groups
    BY <1>6, MigrationKeepsChoices
  <2> QED BY <1>6, <1>7, <2>1
<1> QED BY <1>4, <1>5, <1>8 DEF q, l

\* A layout of this or of an earlier release is shown with what the reader chose: a page it
\* held is hidden or shown as it was, one it never saw is hidden, one it lost is shown, and
\* migrating what was migrated changes nothing (navLayout.ts, migrateNavLayout).
THEOREM ChoicesSurvive ==
  ASSUME N!NavConstants, N!SavedInOrder
  PROVE  N!Spec => []N!ChoicesSurviveMigration
<1>1. N!Init => SavedInvariant
  BY NavInitially DEF N!Init, N!SavedInOrder, SavedInvariant
<1>2. SavedInvariant /\ [N!Next]_(N!vars) => SavedInvariant'
  <2> SUFFICES ASSUME SavedInvariant, [N!Next]_(N!vars)
               PROVE  SavedInvariant'
    OBVIOUS
  <2>1. NavInv'
    BY NavSteps DEF SavedInvariant
  <2>2. saved' = None \/ N!InOrder(saved')
    <3>1. CASE saved' = saved
      BY <3>1 DEF SavedInvariant
    <3>2. ASSUME NEW groups, Whole(groups), saved' = N!Layout(groups)
          PROVE  N!InOrder(saved')
      BY <3>2, WholeInOrder
    <3> QED BY <3>1, <3>2, WhatIsWritten DEF SavedInvariant
  <2> QED BY <2>1, <2>2 DEF SavedInvariant, N!InOrder, N!Destinations, N!ToSet
<1>3. SavedInvariant => N!ChoicesSurviveMigration
  BY ChoicesKept
<1> QED BY <1>1, <1>2, <1>3, PTL DEF N!Spec

-----------------------------------------------------------------------------
(****************************************************************************)
(* Dashboard: the overview's widgets, for any types, sizes and saved        *)
(* layouts.  pack folds the sizes row by row; sorting and filtering go by   *)
(* places, which are counted.                                               *)
(****************************************************************************)
CONSTANTS WIDGET_SIZES, DefaultTypes, SavedLayouts, Heights, Presets, MaxMoves, MaxWidgets
VARIABLES stored, overview, grid, wide, pending, editing, moves

D == INSTANCE Dashboard WITH layout <- overview

LEMMA DashboardCounts ==
  ASSUME NEW S
  PROVE  D!Cardinality(S) = Cardinality(S)
BY DEF D!Cardinality, Cardinality

\* Of two places one comes first.
IsOrder(I, before) ==
  /\ \A i, j \in I : i # j => (<<i, j>> \in before <=> <<j, i>> \notin before)
  /\ \A i \in I : <<i, i>> \notin before
  /\ \A i, j, k \in I : <<i, j>> \in before /\ <<j, k>> \in before => <<i, k>> \in before

\* Places in order are counted by those before them.
Rank(I, before, i) == Cardinality({k \in I : <<k, i>> \in before}) + 1

LEMMA RanksGoUp ==
  ASSUME NEW I, IsFiniteSet(I), NEW before, IsOrder(I, before)
  PROVE  /\ \A i \in I : Rank(I, before, i) \in 1 .. Cardinality(I)
         /\ \A i, j \in I : <<i, j>> \in before => Rank(I, before, i) < Rank(I, before, j)
<1> DEFINE Pre(i) == {k \in I : <<k, i>> \in before}
<1>1. ASSUME NEW i \in I PROVE IsFiniteSet(Pre(i)) /\ Cardinality(Pre(i)) \in Nat
  <2>1. Pre(i) \in SUBSET I
    OBVIOUS
  <2> HIDE DEF Pre
  <2> QED BY <2>1, FS_Subset, FS_CardinalityType
<1>2. Cardinality(I) \in Nat
  BY FS_CardinalityType
<1>3. ASSUME NEW i \in I PROVE Cardinality(Pre(i)) < Cardinality(I)
  <2>1. Pre(i) \in SUBSET I /\ Pre(i) # I
    BY DEF IsOrder
  <2> HIDE DEF Pre
  <2>2. Cardinality(Pre(i)) <= Cardinality(I) /\ (Cardinality(I) = Cardinality(Pre(i)) => I = Pre(i))
    BY <2>1, FS_Subset
  <2> QED BY <1>1, <1>2, <2>1, <2>2
<1>4. ASSUME NEW i \in I, NEW j \in I, <<i, j>> \in before
      PROVE  Cardinality(Pre(i)) < Cardinality(Pre(j))
  <2>1. Pre(i) \in SUBSET Pre(j)
    BY <1>4 DEF IsOrder
  <2>2. i \in Pre(j) /\ i \notin Pre(i)
    BY <1>4 DEF IsOrder
  <2> HIDE DEF Pre
  <2>3. Cardinality(Pre(i)) <= Cardinality(Pre(j)) /\ (Cardinality(Pre(j)) = Cardinality(Pre(i)) => Pre(j) = Pre(i))
    BY <1>1, <2>1, FS_Subset
  <2>4. Pre(j) # Pre(i)
    BY <2>2
  <2> QED BY <1>1, <2>3, <2>4
<1>5. \A i \in I : Rank(I, before, i) = Cardinality(Pre(i)) + 1
  BY DEF Rank
<1> HIDE DEF Pre
<1>6. ASSUME NEW i \in I PROVE Rank(I, before, i) \in 1 .. Cardinality(I)
  BY <1>1, <1>2, <1>3, <1>5
<1>7. ASSUME NEW i \in I, NEW j \in I, <<i, j>> \in before
      PROVE  Rank(I, before, i) < Rank(I, before, j)
  BY <1>1, <1>4, <1>5, <1>7
<1> QED BY <1>6, <1>7

\* An arrangement: there is one.
Arranges(p, I, before) ==
  /\ p \in [1 .. Cardinality(I) -> I]
  /\ \A j, k \in 1 .. Cardinality(I) : j < k => <<p[j], p[k]>> \in before

LEMMA OneArranges ==
  ASSUME NEW I, IsFiniteSet(I), NEW before, IsOrder(I, before)
  PROVE  \E p : Arranges(p, I, before)
<1> DEFINE n == Cardinality(I)
           rank == [i \in I |-> Rank(I, before, i)]
           p == [k \in 1 .. n |-> CHOOSE i \in I : rank[i] = k]
<1>1. n \in Nat /\ IsFiniteSet(1 .. n) /\ Cardinality(1 .. n) = n
  <2>1. n \in Nat
    BY FS_CardinalityType
  <2> HIDE DEF n
  <2>2. IsFiniteSet(1 .. n) /\ Cardinality(1 .. n) = IF 1 > n THEN 0 ELSE n - 1 + 1
    BY <2>1, FS_Interval
  <2> QED BY <2>1, <2>2
<1>2. rank \in [I -> 1 .. n] /\ \A i, j \in I : <<i, j>> \in before => rank[i] < rank[j]
  BY RanksGoUp
<1> HIDE DEF rank
<1>3. rank \in Injection(I, 1 .. n)
  <2>1. ASSUME NEW i \in I, NEW j \in I, rank[i] = rank[j] PROVE i = j
    <3>1. rank[i] \in 1 .. n /\ rank[j] \in 1 .. n
      BY <1>2
    <3>2. <<i, j>> \notin before /\ <<j, i>> \notin before
      BY <1>1, <1>2, <2>1, <3>1
    <3> QED BY <3>2 DEF IsOrder
  <2> QED BY <1>2, <2>1 DEF Injection, IsInjective
<1>4. rank \in Surjection(I, 1 .. n)
  <2>1. Cardinality(I) = n
    OBVIOUS
  <2> HIDE DEF n
  <2> QED BY <1>1, <1>3, <2>1, FS_Injection
<1>5. ASSUME NEW k \in 1 .. n PROVE p[k] \in I /\ rank[p[k]] = k
  <2>1. \E i \in I : rank[i] = k
    BY <1>4 DEF Surjection
  <2> HIDE DEF n
  <2> QED BY <2>1
<1>6. ASSUME NEW j \in 1 .. n, NEW k \in 1 .. n, j < k PROVE <<p[j], p[k]>> \in before
  <2>1. p[j] \in I /\ p[k] \in I /\ rank[p[j]] = j /\ rank[p[k]] = k
    BY <1>5
  <2> HIDE DEF p, n
  <2>2. p[j] # p[k]
    BY <1>6, <2>1
  <2>3. <<p[k], p[j]>> \notin before
    <3>1. <<p[k], p[j]>> \in before => rank[p[k]] < rank[p[j]]
      BY <1>2, <2>1
    <3>2. ~(k < j)
      BY <1>6
    <3> QED BY <2>1, <3>1, <3>2
  <2> QED BY <2>1, <2>2, <2>3 DEF IsOrder
<1>7. p = [k \in 1 .. Cardinality(I) |-> p[k]]
  OBVIOUS
<1>8. p \in [1 .. Cardinality(I) -> I]
  BY <1>5
<1> HIDE DEF p
<1>9. Arranges(p, I, before)
  BY <1>6, <1>8 DEF Arranges
<1> QED BY <1>9

\* Every place is in it once.
EachOnce(p, I) ==
  /\ \A j, k \in 1 .. Cardinality(I) : p[j] = p[k] => j = k
  /\ \A i \in I : \E j \in 1 .. Cardinality(I) : p[j] = i

LEMMA ArrangesAll ==
  ASSUME NEW I, IsFiniteSet(I), NEW before, IsOrder(I, before), NEW p, Arranges(p, I, before)
  PROVE  EachOnce(p, I)
<1> DEFINE n == Cardinality(I)
<1>1. n \in Nat
  BY FS_CardinalityType
<1>2. p \in [1 .. n -> I] /\ \A j, k \in 1 .. n : j < k => <<p[j], p[k]>> \in before
  BY DEF Arranges
<1>3. n = Cardinality(I)
  OBVIOUS
<1> HIDE DEF n
<1>4. IsFiniteSet(1 .. n) /\ Cardinality(1 .. n) = n
  <2>1. IsFiniteSet(1 .. n) /\ Cardinality(1 .. n) = IF 1 > n THEN 0 ELSE n - 1 + 1
    BY <1>1, FS_Interval
  <2> QED BY <1>1, <2>1
<1>5. ASSUME NEW j \in 1 .. n, NEW k \in 1 .. n, p[j] = p[k] PROVE j = k
  <2>1. <<p[j], p[k]>> \notin before /\ <<p[k], p[j]>> \notin before
    <3>1. p[j] \in I
      BY <1>2
    <3> QED BY <1>5, <3>1 DEF IsOrder
  <2>2. ~(j < k) /\ ~(k < j)
    BY <1>2, <2>1
  <2> QED BY <1>1, <2>2
<1>6. p \in Injection(1 .. n, I)
  BY <1>2, <1>5 DEF Injection, IsInjective
<1>7. p \in Surjection(1 .. n, I)
  BY <1>3, <1>4, <1>6, FS_Injection
<1>8. ASSUME NEW i \in I PROVE \E j \in 1 .. n : p[j] = i
  BY <1>7 DEF Surjection
<1> QED BY <1>3, <1>5, <1>8 DEF EachOnce

\* What is arranged is what is in those places, each once.
LEMMA ArrangedIs ==
  ASSUME NEW s, NEW I, IsFiniteSet(I), NEW before, IsOrder(I, before)
  PROVE  \E p \in [1 .. Cardinality(I) -> I] :
           /\ D!Arranged(s, I, before) = [n \in 1 .. Cardinality(I) |-> s[p[n]]]
           /\ EachOnce(p, I)
           /\ \A j, k \in 1 .. Cardinality(I) : j < k => <<p[j], p[k]>> \in before
<1> DEFINE p == CHOOSE q \in [1 .. D!Cardinality(I) -> I] :
                  \A j, k \in DOMAIN q : j < k => <<q[j], q[k]>> \in before
<1>1. D!Arranged(s, I, before) = [n \in DOMAIN p |-> s[p[n]]]
  BY DEF D!Arranged
<1>2. p \in [1 .. Cardinality(I) -> I] /\ \A j, k \in DOMAIN p : j < k => <<p[j], p[k]>> \in before
  <2>1. PICK q : Arranges(q, I, before)
    BY OneArranges
  <2>2. D!Cardinality(I) = Cardinality(I)
    BY DashboardCounts
  <2>3. /\ q \in [1 .. D!Cardinality(I) -> I]
        /\ \A j, k \in DOMAIN q : j < k => <<q[j], q[k]>> \in before
    BY <2>1, <2>2 DEF Arranges
  <2> QED BY <2>2, <2>3
<1> HIDE DEF p
<1>3. Arranges(p, I, before) /\ DOMAIN p = 1 .. Cardinality(I)
  BY <1>2 DEF Arranges
<1>4. EachOnce(p, I)
  BY <1>3, ArrangesAll
<1>5. /\ D!Arranged(s, I, before) = [n \in 1 .. Cardinality(I) |-> s[p[n]]]
      /\ \A j, k \in 1 .. Cardinality(I) : j < k => <<p[j], p[k]>> \in before
  BY <1>1, <1>2, <1>3
<1> QED BY <1>2, <1>4, <1>5

-----------------------------------------------------------------------------
(* The grid filled row by row. *)

LEMMA LargerOfTwo ==
  ASSUME NEW a \in Nat, NEW b \in Nat
  PROVE  D!Max({a, b}) \in Nat /\ a <= D!Max({a, b}) /\ b <= D!Max({a, b})
<1>1. \E x \in {a, b} : \A y \in {a, b} : x >= y
  OBVIOUS
<1>2. D!Max({a, b}) \in {a, b} /\ \A y \in {a, b} : D!Max({a, b}) >= y
  BY <1>1 DEF D!Max
<1> QED BY <1>2

\* Sizes of n widgets, none wider than the grid.
AreSizes(sizes, n) ==
  DOMAIN sizes = 1 .. n /\ \A i \in 1 .. n : sizes[i].w \in 0 .. 12 /\ sizes[i].h \in Nat

Corners == [x : Nat, y : Nat]
PackStates == [x : Nat, y : Nat, row : Nat, out : Seq(Corners)]

\* Of two placed one after the other, the first is left of the second or above it.
BeforeIt(sizes, out, i, j) ==
  out[i].x + sizes[i].w <= out[j].x \/ out[i].y + sizes[i].h <= out[j].y

\* The first k are placed: above the row being filled, or in it and left of the rest.
PackedTo(sizes, k) ==
  {a \in PackStates :
     /\ Len(a.out) = k
     /\ \A i \in 1 .. k :
          /\ a.out[i].x + sizes[i].w <= 12
          /\ \/ a.out[i].y + sizes[i].h <= a.y
             \/ /\ a.out[i].y = a.y /\ a.out[i].x + sizes[i].w <= a.x
                /\ sizes[i].h <= a.row
     /\ \A i, j \in 1 .. k : i < j => BeforeIt(sizes, a.out, i, j)}

LEMMA NextRowTypes ==
  ASSUME NEW a \in PackStates, NEW s, s.w \in Nat, s.h \in Nat
  PROVE  D!NextRow(a, s) \in PackStates
<1>1. a.x \in Nat /\ a.y \in Nat /\ a.row \in Nat /\ a.out \in Seq(Corners)
  BY DEF PackStates
<1>2. D!Max({a.row, s.h}) \in Nat
  BY <1>1, LargerOfTwo
<1>3. CASE a.x + s.w > 12
  <2>1. [x |-> 0, y |-> a.y + a.row] \in Corners
    BY <1>1 DEF Corners
  <2>2. Append(a.out, [x |-> 0, y |-> a.y + a.row]) \in Seq(Corners)
    BY <1>1, <2>1, AppendProperties
  <2>3. D!NextRow(a, s) = [x |-> s.w, y |-> a.y + a.row, row |-> s.h,
                           out |-> Append(a.out, [x |-> 0, y |-> a.y + a.row])]
    BY <1>3 DEF D!NextRow, D!COLUMNS
  <2> QED BY <1>1, <2>2, <2>3 DEF PackStates
<1>4. CASE ~(a.x + s.w > 12)
  <2>1. [x |-> a.x, y |-> a.y] \in Corners
    BY <1>1 DEF Corners
  <2>2. Append(a.out, [x |-> a.x, y |-> a.y]) \in Seq(Corners)
    BY <1>1, <2>1, AppendProperties
  <2>3. D!NextRow(a, s) = [x |-> a.x + s.w, y |-> a.y, row |-> D!Max({a.row, s.h}),
                           out |-> Append(a.out, [x |-> a.x, y |-> a.y])]
    BY <1>4 DEF D!NextRow, D!COLUMNS
  <2> QED BY <1>1, <1>2, <2>2, <2>3 DEF PackStates
<1> QED BY <1>3, <1>4

LEMMA PacksOneMore ==
  ASSUME NEW n \in Nat, NEW sizes, AreSizes(sizes, n), NEW k \in 1 .. n, NEW a \in PackedTo(sizes, k - 1)
  PROVE  D!NextRow(a, sizes[k]) \in PackedTo(sizes, k)
<1> DEFINE s == sizes[k]
           e == D!NextRow(a, s)
           new == IF a.x + s.w > 12 THEN [x |-> 0, y |-> a.y + a.row] ELSE [x |-> a.x, y |-> a.y]
<1>1. s.w \in 0 .. 12 /\ s.h \in Nat
  BY DEF AreSizes
<1>2. /\ a \in PackStates /\ Len(a.out) = k - 1
      /\ a.x \in Nat /\ a.y \in Nat /\ a.row \in Nat /\ a.out \in Seq(Corners)
  BY DEF PackedTo, PackStates
<1>11. a.x \in Nat /\ a.y \in Nat /\ a.row \in Nat
  BY <1>2
<1>3. new \in Corners
  BY <1>2 DEF Corners
<1>4. e \in PackStates
  <2>1. s.w \in Nat /\ s.h \in Nat
    BY <1>1
  <2> HIDE DEF s
  <2> QED BY <1>2, <2>1, NextRowTypes
<1>5. D!Max({a.row, s.h}) \in Nat /\ a.row <= D!Max({a.row, s.h}) /\ s.h <= D!Max({a.row, s.h})
  BY <1>1, <1>2, LargerOfTwo
<1>6. /\ a.x + s.w > 12 => e.x = s.w /\ e.y = a.y + a.row /\ e.row = s.h
      /\ ~(a.x + s.w > 12) => e.x = a.x + s.w /\ e.y = a.y /\ e.row = D!Max({a.row, s.h})
      /\ e.out = Append(a.out, new)
  <2>1. CASE a.x + s.w > 12
    BY <2>1 DEF D!NextRow, D!COLUMNS
  <2>2. CASE ~(a.x + s.w > 12)
    BY <2>2 DEF D!NextRow, D!COLUMNS
  <2> QED BY <2>1, <2>2
<1>7. Len(e.out) = k /\ e.out[k] = new /\ \A i \in 1 .. k - 1 : e.out[i] = a.out[i]
  <2>1. /\ Len(Append(a.out, new)) = Len(a.out) + 1
        /\ \A i \in 1 .. Len(a.out) : Append(a.out, new)[i] = a.out[i]
        /\ Append(a.out, new)[Len(a.out) + 1] = new
    BY <1>2, <1>3, AppendProperties
  <2> QED BY <1>2, <1>6, <2>1
<1> HIDE DEF e
<1>8. \A i \in 1 .. k - 1 : /\ a.out[i].x \in Nat /\ a.out[i].y \in Nat
                            /\ sizes[i].w \in 0 .. 12 /\ sizes[i].h \in Nat
  <2> SUFFICES ASSUME NEW i \in 1 .. k - 1
               PROVE  /\ a.out[i].x \in Nat /\ a.out[i].y \in Nat
                      /\ sizes[i].w \in 0 .. 12 /\ sizes[i].h \in Nat
    OBVIOUS
  <2>1. i \in 1 .. Len(a.out)
    BY <1>2
  <2>2. a.out[i] \in Corners
    BY <1>2, <2>1, ElementOfSeq
  <2>3. i \in 1 .. n
    OBVIOUS
  <2> QED BY <2>2, <2>3 DEF Corners, AreSizes
<1>9. ASSUME NEW i \in 1 .. k
      PROVE  /\ e.out[i].x + sizes[i].w <= 12
             /\ \/ e.out[i].y + sizes[i].h <= e.y
                \/ /\ e.out[i].y = e.y /\ e.out[i].x + sizes[i].w <= e.x
                   /\ sizes[i].h <= e.row
  <2>1. CASE i = k
    <3>1. sizes[i] = s /\ e.out[i] = new
      BY <1>7, <2>1
    <3>2. CASE a.x + s.w > 12
      <4>1. new.x = 0 /\ new.y = a.y + a.row
        BY <3>2
      <4>2. e.x = s.w /\ e.y = a.y + a.row /\ e.row = s.h
        BY <1>6, <3>2
      <4> HIDE DEF s, new
      <4> QED BY <1>1, <1>11, <3>1, <4>1, <4>2
    <3>3. CASE ~(a.x + s.w > 12)
      <4>1. new.x = a.x /\ new.y = a.y
        BY <3>3
      <4>2. e.x = a.x + s.w /\ e.y = a.y /\ e.row = D!Max({a.row, s.h})
        BY <1>6, <3>3
      <4> HIDE DEF s, new
      <4> QED BY <1>1, <1>11, <1>5, <3>1, <3>3, <4>1, <4>2
    <3> QED BY <3>2, <3>3
  <2>2. CASE i # k
    <3>1. i \in 1 .. k - 1
      BY <2>2
    <3>2. /\ a.out[i].x + sizes[i].w <= 12
          /\ \/ a.out[i].y + sizes[i].h <= a.y
             \/ /\ a.out[i].y = a.y /\ a.out[i].x + sizes[i].w <= a.x
                /\ sizes[i].h <= a.row
      BY <3>1 DEF PackedTo
    <3>3. e.out[i] = a.out[i] /\ a.out[i].x \in Nat /\ a.out[i].y \in Nat
          /\ sizes[i].w \in 0 .. 12 /\ sizes[i].h \in Nat
      BY <1>7, <1>8, <3>1
    <3>4. CASE a.x + s.w > 12
      <4>1. e.x = s.w /\ e.y = a.y + a.row /\ e.row = s.h
        BY <1>6, <3>4
      <4> HIDE DEF s, new
      <4> QED BY <1>1, <1>11, <3>2, <3>3, <4>1
    <3>5. CASE ~(a.x + s.w > 12)
      <4>1. e.x = a.x + s.w /\ e.y = a.y /\ e.row = D!Max({a.row, s.h})
        BY <1>6, <3>5
      <4> HIDE DEF s, new
      <4> QED BY <1>1, <1>11, <1>5, <3>2, <3>3, <4>1
    <3> QED BY <3>4, <3>5
  <2> QED BY <2>1, <2>2
<1>10. ASSUME NEW i \in 1 .. k, NEW j \in 1 .. k, i < j
       PROVE  BeforeIt(sizes, e.out, i, j)
  <2>1. i \in 1 .. k - 1
    BY <1>10
  <2>2. CASE j = k
    <3>2. \/ a.out[i].y + sizes[i].h <= a.y
          \/ /\ a.out[i].y = a.y /\ a.out[i].x + sizes[i].w <= a.x
             /\ sizes[i].h <= a.row
      BY <2>1 DEF PackedTo
    <3>3. e.out[i] = a.out[i] /\ a.out[i].x \in Nat /\ a.out[i].y \in Nat
          /\ sizes[i].w \in 0 .. 12 /\ sizes[i].h \in Nat /\ e.out[j] = new
      BY <1>7, <1>8, <2>1, <2>2
    <3>4. CASE a.x + s.w > 12
      <4>1. a.out[i].y + sizes[i].h <= a.y + a.row
        BY <1>11, <3>2, <3>3
      <4>2. new.y = a.y + a.row
        BY <3>4
      <4> HIDE DEF new
      <4> QED BY <3>3, <4>1, <4>2 DEF BeforeIt
    <3>5. CASE ~(a.x + s.w > 12)
      BY <1>2, <3>2, <3>3, <3>5 DEF BeforeIt
    <3> QED BY <3>4, <3>5
  <2>3. CASE j # k
    <3>1. j \in 1 .. k - 1
      BY <2>3
    <3>2. BeforeIt(sizes, a.out, i, j)
      BY <1>10, <2>1, <3>1 DEF PackedTo
    <3>3. e.out[i] = a.out[i] /\ e.out[j] = a.out[j]
      BY <1>7, <2>1, <3>1
    <3> QED BY <3>2, <3>3 DEF BeforeIt
  <2> QED BY <2>2, <2>3
<1> QED BY <1>4, <1>7, <1>9, <1>10 DEF PackedTo, e

\* NextRow along the sizes.
FillsRows(r, n, sizes, end) ==
  /\ r[0] = [x |-> 0, y |-> 0, row |-> 0, out |-> << >>]
  /\ \A k \in 1 .. n : r[k] = D!NextRow(r[k - 1], sizes[k])
  /\ r[n].out = end

LEMMA PackRuns ==
  ASSUME NEW n \in Nat, NEW sizes, AreSizes(sizes, n)
  PROVE  \E r : FillsRows(r, n, sizes, D!pack(sizes))
<1> DEFINE base == [x |-> 0, y |-> 0, row |-> 0, out |-> << >>]
           T == [p \in PackStates \X (1 .. n) |-> D!NextRow(p[1], sizes[p[2]])]
<1>0. base \in PackStates /\ DOMAIN sizes = 1 .. n
  BY EmptySeq DEF PackStates, AreSizes
<1>1. T \in [PackStates \X (1 .. n) -> PackStates]
  <2>1. ASSUME NEW p \in PackStates \X (1 .. n)
        PROVE  D!NextRow(p[1], sizes[p[2]]) \in PackStates
    <3>1. p[1] \in PackStates /\ p[2] \in 1 .. n
      OBVIOUS
    <3>2. sizes[p[2]].w \in Nat /\ sizes[p[2]].h \in Nat
      BY <3>1 DEF AreSizes
    <3> QED BY <3>1, <3>2, NextRowTypes
  <2> QED BY <2>1
<1> HIDE DEF base
<1>2. PICK g \in [SUBSET (1 .. n) -> PackStates] : Folds(g, base, n, T)
  <2> HIDE DEF T
  <2> QED BY <1>0, <1>1, FoldExists
<1>3. g = [s \in SUBSET (1 .. n) |->
             IF s = {} THEN base ELSE D!NextRow(g[s \ {Largest(s)}], sizes[Largest(s)])]
  <2>1. ASSUME NEW s \in SUBSET (1 .. n), s # {}
        PROVE  g[s] = D!NextRow(g[s \ {Largest(s)}], sizes[Largest(s)])
    <3>1. s \ {Largest(s)} \in SUBSET (1 .. n) /\ Largest(s) \in 1 .. n
      BY <2>1, LargestOf
    <3>2. g[s \ {Largest(s)}] \in PackStates
      BY <3>1
    <3> QED BY <1>2, <2>1, <3>1, <3>2 DEF Folds
  <2> QED BY <1>2, <2>1 DEF Folds
<1> DEFINE it == CHOOSE iter : iter = [s \in SUBSET (1 .. n) |->
                   IF s = {} THEN base ELSE D!NextRow(iter[s \ {Largest(s)}], sizes[Largest(s)])]
           r == [k \in 0 .. n |-> it[1 .. k]]
<1>4. it = [s \in SUBSET (1 .. n) |->
              IF s = {} THEN base ELSE D!NextRow(it[s \ {Largest(s)}], sizes[Largest(s)])]
  BY <1>3
<1>5. D!pack(sizes) = it[1 .. n].out
  <2>1. DOMAIN sizes = 1 .. n
    BY <1>0
  <2> QED BY <2>1 DEF D!pack, D!FoldLeft, D!MapThenFoldSet, D!Max, Largest, base
<1> HIDE DEF it
<1>6. it[1 .. 0] = base /\ \A k \in 1 .. n : it[1 .. k] = D!NextRow(it[1 .. (k - 1)], sizes[k])
  <2>1. 1 .. 0 = {} /\ 1 .. 0 \in SUBSET (1 .. n)
    OBVIOUS
  <2>2. ASSUME NEW k \in 1 .. n PROVE it[1 .. k] = D!NextRow(it[1 .. (k - 1)], sizes[k])
    <3>1. /\ 1 .. k \in SUBSET (1 .. n) /\ 1 .. k # {}
          /\ Largest(1 .. k) = k /\ (1 .. k) \ {k} = 1 .. (k - 1)
      BY Initial
    <3>2. it[1 .. k] = D!NextRow(it[(1 .. k) \ {Largest(1 .. k)}], sizes[Largest(1 .. k)])
      BY <1>4, <3>1
    <3> QED BY <3>1, <3>2
  <2> QED BY <1>4, <2>1, <2>2
<1>7. r[0] = base /\ r[n] = it[1 .. n] /\ \A k \in 1 .. n : r[k] = it[1 .. k] /\ r[k - 1] = it[1 .. (k - 1)]
  BY <1>6
<1> HIDE DEF r
<1>8. FillsRows(r, n, sizes, D!pack(sizes))
  BY <1>5, <1>6, <1>7 DEF FillsRows, base
<1> QED BY <1>8

\* Widgets of these sizes are placed inside the grid, each before the next.
LEMMA PackFits ==
  ASSUME NEW n \in Nat, NEW sizes, AreSizes(sizes, n)
  PROVE  /\ D!pack(sizes) \in Seq(Corners) /\ Len(D!pack(sizes)) = n
         /\ \A i \in 1 .. n : D!pack(sizes)[i].x + sizes[i].w <= 12
         /\ \A i, j \in 1 .. n : i < j => BeforeIt(sizes, D!pack(sizes), i, j)
<1>1. PICK r : FillsRows(r, n, sizes, D!pack(sizes))
  BY PackRuns
<1> DEFINE W == [k \in 0 .. n |-> PackedTo(sizes, k)]
<1>2. r[0] \in W[0]
  <2>1. r[0] = [x |-> 0, y |-> 0, row |-> 0, out |-> << >>]
    BY <1>1 DEF FillsRows
  <2>2. r[0] \in PackStates /\ Len(r[0].out) = 0
    BY <2>1, EmptySeq DEF PackStates
  <2> QED BY <2>2 DEF PackedTo
<1>3. ASSUME NEW k \in 1 .. n, r[k - 1] \in W[k - 1] PROVE r[k] \in W[k]
  <2>1. r[k - 1] \in PackedTo(sizes, k - 1)
    BY <1>3
  <2>2. r[k] = D!NextRow(r[k - 1], sizes[k])
    BY <1>1 DEF FillsRows
  <2>3. r[k] \in PackedTo(sizes, k)
    BY <2>1, <2>2, PacksOneMore
  <2> QED BY <2>3
<1>4. \A k \in 0 .. n : r[k] \in W[k]
  <2> HIDE DEF W
  <2> QED BY <1>2, <1>3, Along
<1>5. r[n] \in PackedTo(sizes, n) /\ r[n].out = D!pack(sizes)
  BY <1>1, <1>4 DEF FillsRows
<1> QED BY <1>5 DEF PackedTo, PackStates

-----------------------------------------------------------------------------
(* Layouts that fit. *)

MinW(t) == WIDGET_SIZES[t].minW
OwnId(ws) == \A i, k \in DOMAIN ws : i # k => ws[i].id # ws[k].id
Good(ws) == ws \in Seq(D!PlacedWidgets) /\ D!Fit(ws)
\* Wide enough, wherever they are.
Loose(ws) == /\ ws \in Seq(D!PlacedWidgets) /\ OwnId(ws)
             /\ \A i \in DOMAIN ws : ws[i].w >= MinW(ws[i].type)

LEMMA WidgetTypes ==
  ASSUME NEW p \in D!PlacedWidgets
  PROVE  /\ p = [id |-> p.id, type |-> p.type, x |-> p.x, y |-> p.y, w |-> p.w, h |-> p.h,
                 config |-> p.config]
         /\ p.id \in D!Types \X (Nat \ {0}) /\ p.type \in D!Types /\ p.id[1] = p.type
         /\ p.x \in Nat /\ p.y \in Nat /\ p.w \in Nat /\ p.h \in Nat
         /\ p.config \in {None, "set"}
BY DEF D!PlacedWidgets

LEMMA LeastWidths ==
  ASSUME D!DashConstants, NEW t \in D!Types
  PROVE  /\ MinW(t) \in 1 .. 4 /\ WIDGET_SIZES[t].w \in MinW(t) .. 12
         /\ WIDGET_SIZES[t].h \in Nat
BY DEF D!DashConstants, MinW, D!COLUMNS

LEMMA GoodIsLoose ==
  ASSUME NEW ws, Good(ws)
  PROVE  Loose(ws)
BY DEF Good, Loose, OwnId, D!Fit, MinW

\* What is placed as it is packed fits.
LEMMA PackedIsGood ==
  ASSUME NEW n \in Nat, NEW ws \in Seq(D!PlacedWidgets), Len(ws) = n, OwnId(ws),
         NEW sizes, AreSizes(sizes, n),
         \A i \in 1 .. n : /\ ws[i].w = sizes[i].w /\ ws[i].h = sizes[i].h
                           /\ ws[i].x = D!pack(sizes)[i].x /\ ws[i].y = D!pack(sizes)[i].y
                           /\ ws[i].w >= MinW(ws[i].type)
  PROVE  Good(ws)
<1>1. DOMAIN ws = 1 .. n
  OBVIOUS
<1>2. /\ \A i \in 1 .. n : D!pack(sizes)[i].x + sizes[i].w <= 12
      /\ \A i, j \in 1 .. n : i < j => BeforeIt(sizes, D!pack(sizes), i, j)
  BY PackFits
<1>3. ASSUME NEW i \in 1 .. n, NEW k \in 1 .. n, i < k
      PROVE  D!Apart(ws[i], ws[k]) /\ D!Apart(ws[k], ws[i])
  <2>1. BeforeIt(sizes, D!pack(sizes), i, k)
    BY <1>2, <1>3
  <2>2. ws[i].x + ws[i].w <= ws[k].x \/ ws[i].y + ws[i].h <= ws[k].y
    BY <2>1 DEF BeforeIt
  <2> QED BY <2>2 DEF D!Apart
<1>4. ASSUME NEW i \in 1 .. n, NEW k \in 1 .. n, i # k
      PROVE  ws[i].id # ws[k].id /\ D!Apart(ws[i], ws[k])
  <2>1. i < k \/ k < i
    BY <1>4
  <2>2. D!Apart(ws[i], ws[k])
    BY <1>3, <2>1
  <2> QED BY <1>1, <1>4, <2>2 DEF OwnId
<1>5. ASSUME NEW i \in 1 .. n
      PROVE  ws[i].x + ws[i].w <= D!COLUMNS /\ ws[i].w >= WIDGET_SIZES[ws[i].type].minW
  BY <1>2 DEF D!COLUMNS, MinW
<1> QED BY <1>1, <1>4, <1>5 DEF Good, D!Fit

\* Types, each once, with sizes wide enough for them.
LEMMA PlacedGood ==
  ASSUME D!DashConstants, NEW types \in Seq(D!Types), \A i, k \in DOMAIN types : types[i] = types[k] => i = k,
         NEW sizes, AreSizes(sizes, Len(types)),
         \A i \in DOMAIN types : sizes[i].w >= MinW(types[i])
  PROVE  Good(D!Placed(types, sizes))
<1> DEFINE n == Len(types)
           ws == D!Placed(types, sizes)
<1>1. n \in Nat /\ DOMAIN types = 1 .. n /\ \A i \in 1 .. n : types[i] \in D!Types
  OBVIOUS
<1>2. D!pack(sizes) \in Seq(Corners) /\ Len(D!pack(sizes)) = n
  BY <1>1, PackFits
<1>3. DOMAIN ws = 1 .. n
  BY <1>1 DEF D!Placed
<1>4. ASSUME NEW i \in 1 .. n
      PROVE  /\ ws[i] \in D!PlacedWidgets /\ ws[i].id = <<types[i], 1>> /\ ws[i].type = types[i]
             /\ ws[i].w = sizes[i].w /\ ws[i].h = sizes[i].h
             /\ ws[i].x = D!pack(sizes)[i].x /\ ws[i].y = D!pack(sizes)[i].y
  <2>1. ws[i] = [id |-> <<types[i], 1>>, type |-> types[i], x |-> D!pack(sizes)[i].x,
                 y |-> D!pack(sizes)[i].y, w |-> sizes[i].w, h |-> sizes[i].h, config |-> None]
    BY <1>1 DEF D!Placed
  <2>2. D!pack(sizes)[i] \in Corners
    BY <1>2, ElementOfSeq
  <2>3. /\ sizes[i].w \in Nat /\ sizes[i].h \in Nat
        /\ D!pack(sizes)[i].x \in Nat /\ D!pack(sizes)[i].y \in Nat
    <3>1. sizes[i].w \in Nat /\ sizes[i].h \in Nat
      <4>1. \A j \in 1 .. Len(types) : sizes[j].w \in 0 .. 12 /\ sizes[j].h \in Nat
        BY DEF AreSizes
      <4> QED BY <4>1
    <3>2. D!pack(sizes)[i].x \in Nat /\ D!pack(sizes)[i].y \in Nat
      BY <2>2 DEF Corners
    <3> QED BY <3>1, <3>2
  <2>4. <<types[i], 1>> \in D!Types \X (Nat \ {0}) /\ <<types[i], 1>>[1] = types[i]
    BY <1>1
  <2> QED BY <2>1, <2>3, <2>4 DEF D!PlacedWidgets
<1>5. ws = [i \in 1 .. n |-> ws[i]]
  BY <1>1 DEF D!Placed
<1> HIDE DEF ws
<1>6. ws \in Seq(D!PlacedWidgets) /\ Len(ws) = n
  <2>1. ws \in [1 .. n -> D!PlacedWidgets]
    BY <1>4, <1>5
  <2> QED BY <1>1, <2>1
<1>7. OwnId(ws)
  <2>1. ASSUME NEW i \in 1 .. n, NEW k \in 1 .. n, ws[i].id = ws[k].id PROVE i = k
    <3>1. <<types[i], 1>> = <<types[k], 1>>
      BY <1>4, <2>1
    <3>2. types[i] = types[k]
      BY <3>1
    <3> QED BY <1>1, <3>2
  <2> QED BY <1>3, <2>1 DEF OwnId
<1>8. \A i \in 1 .. n : /\ ws[i].w = sizes[i].w /\ ws[i].h = sizes[i].h
                        /\ ws[i].x = D!pack(sizes)[i].x /\ ws[i].y = D!pack(sizes)[i].y
                        /\ ws[i].w >= MinW(ws[i].type)
  BY <1>1, <1>4
<1>9. AreSizes(sizes, n) /\ n \in Nat
  BY <1>1
<1> HIDE DEF n
<1>10. Good(ws)
  BY <1>6, <1>7, <1>8, <1>9, PackedIsGood
<1> QED BY <1>10 DEF ws

LEMMA DefaultGood ==
  ASSUME D!DashConstants
  PROVE  Good(D!defaultLayout)
<1> DEFINE sizes == D!DefaultSizes(DefaultTypes)
<1>1. DefaultTypes \in Seq(D!Types) /\ \A i, k \in DOMAIN DefaultTypes : DefaultTypes[i] = DefaultTypes[k] => i = k
  BY DEF D!DashConstants
<1>2. DOMAIN sizes = 1 .. Len(DefaultTypes) /\ DOMAIN DefaultTypes = 1 .. Len(DefaultTypes)
  BY <1>1 DEF D!DefaultSizes
<1>3. ASSUME NEW i \in DOMAIN DefaultTypes
      PROVE  /\ sizes[i].w \in 0 .. 12 /\ sizes[i].h \in Nat
             /\ sizes[i].w >= MinW(DefaultTypes[i])
  <2>1. sizes[i] = WIDGET_SIZES[DefaultTypes[i]] /\ DefaultTypes[i] \in D!Types
    BY <1>1 DEF D!DefaultSizes
  <2>2. /\ MinW(DefaultTypes[i]) \in 1 .. 4 /\ sizes[i].w \in MinW(DefaultTypes[i]) .. 12
        /\ sizes[i].h \in Nat
    BY <2>1, LeastWidths
  <2> HIDE DEF sizes
  <2> QED BY <2>2
<1>4. AreSizes(sizes, Len(DefaultTypes))
  BY <1>2, <1>3 DEF AreSizes
<1> HIDE DEF sizes
<1>5. Good(D!Placed(DefaultTypes, sizes))
  BY <1>1, <1>3, <1>4, PlacedGood
<1> QED BY <1>5 DEF D!defaultLayout, sizes

-----------------------------------------------------------------------------
(* Widgets put in order, and some of them left out. *)

LEMMA PlacesInOrder ==
  ASSUME NEW n \in Nat, NEW I \in SUBSET (1 .. n)
  PROVE  /\ IsFiniteSet(I) /\ Cardinality(I) \in Nat
         /\ IsOrder(I, {q \in I \X I : q[1] < q[2]})
<1>1. IsFiniteSet(1 .. n)
  BY FS_Interval
<1>2. IsFiniteSet(I)
  BY <1>1, FS_Subset
<1>3. \A i, j \in I : <<i, j>> \in {q \in I \X I : q[1] < q[2]} <=> i < j
  OBVIOUS
<1>4. I \in SUBSET Int
  OBVIOUS
<1>5. IsOrder(I, {q \in I \X I : q[1] < q[2]})
  <2> DEFINE b == {q \in I \X I : q[1] < q[2]}
  <2>1. \A i, j \in I : <<i, j>> \in b <=> i < j
    BY <1>3
  <2> HIDE DEF b
  <2>2. IsOrder(I, b)
    BY <1>4, <2>1 DEF IsOrder
  <2> QED BY <2>2 DEF b
<1> QED BY <1>2, <1>5, FS_CardinalityType

\* Of a sequence, those in some of its places: each once, and nothing else.
LEMMA ThoseAre ==
  ASSUME NEW U, NEW s \in Seq(U), NEW I \in SUBSET (DOMAIN s)
  PROVE  \E p \in [1 .. Cardinality(I) -> I] :
           /\ D!Those(s, I) = [n \in 1 .. Cardinality(I) |-> s[p[n]]]
           /\ EachOnce(p, I)
           /\ Cardinality(I) \in Nat
<1>1. Len(s) \in Nat /\ I \in SUBSET (1 .. Len(s))
  OBVIOUS
<1> DEFINE before == {q \in I \X I : q[1] < q[2]}
<1>2. IsFiniteSet(I) /\ Cardinality(I) \in Nat /\ IsOrder(I, before)
  BY <1>1, PlacesInOrder
<1>3. D!Those(s, I) = D!Arranged(s, I, before)
  BY DEF D!Those
<1> HIDE DEF before
<1>4. PICK p \in [1 .. Cardinality(I) -> I] :
           /\ D!Arranged(s, I, before) = [n \in 1 .. Cardinality(I) |-> s[p[n]]]
           /\ EachOnce(p, I)
           /\ \A j, k \in 1 .. Cardinality(I) : j < k => <<p[j], p[k]>> \in before
  BY <1>2, ArrangedIs
<1> QED BY <1>2, <1>3, <1>4

LEMMA ThoseGood ==
  ASSUME NEW s, NEW U, s \in Seq(U), NEW I \in SUBSET (DOMAIN s),
         \A i \in I : s[i] \in D!PlacedWidgets, D!Fit([i \in I |-> s[i]])
  PROVE  Good(D!Those(s, I)) /\ D!Ids(D!Those(s, I)) = {s[i].id : i \in I}
<1> DEFINE n == Cardinality(I)
           t == D!Those(s, I)
<1>1. PICK p \in [1 .. n -> I] : /\ t = [k \in 1 .. n |-> s[p[k]]]
                                 /\ EachOnce(p, I) /\ n \in Nat
  BY ThoseAre
<1>2. /\ \A j, k \in 1 .. n : p[j] = p[k] => j = k
      /\ \A i \in I : \E j \in 1 .. n : p[j] = i
  BY <1>1 DEF EachOnce
<1> HIDE DEF n, t
<1>3. t \in Seq(D!PlacedWidgets) /\ DOMAIN t = 1 .. n
  <2>1. t \in [1 .. n -> D!PlacedWidgets]
    BY <1>1
  <2> QED BY <1>1, <2>1
<1>4. ASSUME NEW i \in 1 .. n
      PROVE  t[i].x + t[i].w <= D!COLUMNS /\ t[i].w >= WIDGET_SIZES[t[i].type].minW
  BY <1>1 DEF D!Fit
<1>5. ASSUME NEW i \in 1 .. n, NEW k \in 1 .. n, i # k
      PROVE  t[i].id # t[k].id /\ D!Apart(t[i], t[k])
  <2>1. p[i] # p[k] /\ p[i] \in I /\ p[k] \in I /\ t[i] = s[p[i]] /\ t[k] = s[p[k]]
    BY <1>1, <1>2, <1>5
  <2>2. \A a, b \in I : a # b => s[a].id # s[b].id /\ D!Apart(s[a], s[b])
    <3> DEFINE f == [i_1 \in I |-> s[i_1]]
    <3>1. \A a \in I : f[a] = s[a]
      OBVIOUS
    <3>2. DOMAIN f = I
      OBVIOUS
    <3>3. D!Fit(f)
      OBVIOUS
    <3> HIDE DEF f
    <3>4. \A a, b \in I : a # b => f[a].id # f[b].id /\ D!Apart(f[a], f[b])
      BY <3>2, <3>3 DEF D!Fit
    <3> QED BY <3>1, <3>4
  <2> QED BY <2>1, <2>2
<1>6. Good(t)
  BY <1>3, <1>4, <1>5 DEF Good, D!Fit
<1>7. D!Ids(t) = {s[i].id : i \in I}
  <2>1. ASSUME NEW i \in I PROVE s[i].id \in D!Ids(t)
    <3>1. PICK j \in 1 .. n : p[j] = i
      BY <1>2
    <3>2. t[j].id = s[i].id
      BY <1>1, <3>1
    <3> QED BY <1>3, <3>2 DEF D!Ids
  <2>2. ASSUME NEW j \in 1 .. n PROVE t[j].id \in {s[i].id : i \in I}
    BY <1>1
  <2>3. D!Ids(t) = {t[j].id : j \in 1 .. n}
    BY <1>3 DEF D!Ids
  <2> QED BY <2>1, <2>2, <2>3
<1> QED BY <1>6, <1>7 DEF t

LEMMA SmallerOfTwo ==
  ASSUME NEW a \in Nat, NEW b \in Nat
  PROVE  D!Min({a, b}) \in {a, b} /\ D!Min({a, b}) <= a /\ D!Min({a, b}) <= b
<1>1. \E x \in {a, b} : \A y \in {a, b} : x <= y
  OBVIOUS
<1>2. D!Min({a, b}) \in {a, b} /\ \A y \in {a, b} : D!Min({a, b}) <= y
  BY <1>1 DEF D!Min
<1> QED BY <1>2

ReadsBefore(ws) == {q \in (DOMAIN ws) \X (DOMAIN ws) : D!Reads(ws, q[1], q[2])}

LEMMA ReadingIsOrder ==
  ASSUME NEW ws \in Seq(D!PlacedWidgets)
  PROVE  IsOrder(DOMAIN ws, ReadsBefore(ws))
<1>1. \A i \in DOMAIN ws : ws[i].x \in Nat /\ ws[i].y \in Nat /\ i \in Nat
  BY WidgetTypes
<1>2. \A i, k \in DOMAIN ws : <<i, k>> \in ReadsBefore(ws) <=>
        \/ ws[i].y < ws[k].y \/ (ws[i].y = ws[k].y /\ ws[i].x < ws[k].x)
        \/ ws[i].y = ws[k].y /\ ws[i].x = ws[k].x /\ i < k
  <2> TAKE i, k \in DOMAIN ws
  <2>1. <<i, k>> \in ReadsBefore(ws) <=> D!Reads(ws, i, k)
    BY DEF ReadsBefore
  <2>2. /\ ws[i].x \in Nat /\ ws[i].y \in Nat /\ i \in Nat
        /\ ws[k].x \in Nat /\ ws[k].y \in Nat /\ k \in Nat
    BY <1>1
  <2> QED BY <2>1, <2>2 DEF D!Reads, D!ReadingOrder
<1>3. ASSUME NEW i \in DOMAIN ws, NEW j \in DOMAIN ws, i # j
      PROVE  <<i, j>> \in ReadsBefore(ws) <=> <<j, i>> \notin ReadsBefore(ws)
  <2>1. /\ ws[i].x \in Nat /\ ws[i].y \in Nat /\ i \in Nat
        /\ ws[j].x \in Nat /\ ws[j].y \in Nat /\ j \in Nat
    BY <1>1
  <2>2. <<i, j>> \in ReadsBefore(ws) <=>
          \/ ws[i].y < ws[j].y \/ (ws[i].y = ws[j].y /\ ws[i].x < ws[j].x)
          \/ ws[i].y = ws[j].y /\ ws[i].x = ws[j].x /\ i < j
    BY <1>2
  <2>3. <<j, i>> \in ReadsBefore(ws) <=>
          \/ ws[j].y < ws[i].y \/ (ws[j].y = ws[i].y /\ ws[j].x < ws[i].x)
          \/ ws[j].y = ws[i].y /\ ws[j].x = ws[i].x /\ j < i
    BY <1>2
  <2> QED BY <1>3, <2>1, <2>2, <2>3
<1>4. ASSUME NEW i \in DOMAIN ws PROVE <<i, i>> \notin ReadsBefore(ws)
  BY <1>1, <1>2
<1>5. ASSUME NEW i \in DOMAIN ws, NEW j \in DOMAIN ws, NEW k \in DOMAIN ws,
             <<i, j>> \in ReadsBefore(ws), <<j, k>> \in ReadsBefore(ws)
      PROVE  <<i, k>> \in ReadsBefore(ws)
  <2>1. /\ ws[i].x \in Nat /\ ws[i].y \in Nat /\ i \in Nat
        /\ ws[j].x \in Nat /\ ws[j].y \in Nat /\ j \in Nat
        /\ ws[k].x \in Nat /\ ws[k].y \in Nat /\ k \in Nat
    BY <1>1
  <2>2. \/ ws[i].y < ws[j].y \/ (ws[i].y = ws[j].y /\ ws[i].x < ws[j].x)
        \/ ws[i].y = ws[j].y /\ ws[i].x = ws[j].x /\ i < j
    BY <1>2, <1>5
  <2>3. \/ ws[j].y < ws[k].y \/ (ws[j].y = ws[k].y /\ ws[j].x < ws[k].x)
        \/ ws[j].y = ws[k].y /\ ws[j].x = ws[k].x /\ j < k
    BY <1>2, <1>5
  <2>4. \/ ws[i].y < ws[k].y \/ (ws[i].y = ws[k].y /\ ws[i].x < ws[k].x)
        \/ ws[i].y = ws[k].y /\ ws[i].x = ws[k].x /\ i < k
    BY <2>1, <2>2, <2>3
  <2> QED BY <1>2, <2>4
<1> QED BY <1>3, <1>4, <1>5 DEF IsOrder

\* A sequence put in some order: each of its places once.
PutInOrder(p, n, s, t) ==
  /\ p \in [1 .. n -> 1 .. n] /\ t = [k \in 1 .. n |-> s[p[k]]]
  /\ \A j, k \in 1 .. n : p[j] = p[k] => j = k
  /\ \A i \in 1 .. n : \E j \in 1 .. n : p[j] = i

LEMMA ReorderedAs ==
  ASSUME NEW n \in Nat, NEW s, NEW before, IsOrder(1 .. n, before)
  PROVE  \E p : PutInOrder(p, n, s, D!Arranged(s, 1 .. n, before))
<1>1. IsFiniteSet(1 .. n) /\ Cardinality(1 .. n) = n
  <2>1. IsFiniteSet(1 .. n) /\ Cardinality(1 .. n) = IF 1 > n THEN 0 ELSE n - 1 + 1
    BY FS_Interval
  <2> QED BY <2>1
<1> DEFINE I == 1 .. n
<1>2. IsFiniteSet(I) /\ IsOrder(I, before) /\ Cardinality(I) = n
  BY <1>1
<1> HIDE DEF I
<1>3. PICK p \in [1 .. Cardinality(I) -> I] :
        /\ D!Arranged(s, I, before) = [k \in 1 .. Cardinality(I) |-> s[p[k]]]
        /\ EachOnce(p, I)
        /\ \A j, k \in 1 .. Cardinality(I) : j < k => <<p[j], p[k]>> \in before
  BY <1>2, ArrangedIs
<1>4. /\ p \in [1 .. n -> I]
      /\ D!Arranged(s, I, before) = [k \in 1 .. n |-> s[p[k]]]
      /\ \A j, k \in 1 .. n : p[j] = p[k] => j = k
      /\ \A i \in I : \E j \in 1 .. n : p[j] = i
  BY <1>2, <1>3 DEF EachOnce
<1> QED BY <1>4 DEF I, PutInOrder

\* Widgets in some order, as they are.
LEMMA ReorderedAre ==
  ASSUME NEW ws \in Seq(D!PlacedWidgets), OwnId(ws), NEW before, IsOrder(DOMAIN ws, before)
  PROVE  LET t == D!Arranged(ws, DOMAIN ws, before)
         IN  /\ t \in Seq(D!PlacedWidgets) /\ Len(t) = Len(ws) /\ OwnId(t)
             /\ \A i \in DOMAIN t : \E k \in DOMAIN ws : t[i] = ws[k]
             /\ D!Ids(t) = D!Ids(ws)
<1> DEFINE n == Len(ws)
           I == 1 .. n
           t == D!Arranged(ws, I, before)
<1>1. DOMAIN ws = I /\ n \in Nat /\ I = 1 .. n /\ IsOrder(1 .. n, before)
  <2>1. DOMAIN ws = 1 .. n /\ n \in Nat
    OBVIOUS
  <2> QED BY <2>1
<1>3. I = DOMAIN ws /\ n = Len(ws) /\ t = D!Arranged(ws, 1 .. n, before)
  BY <1>1
<1> HIDE DEF n, I, t
<1>4. PICK p : PutInOrder(p, n, ws, D!Arranged(ws, 1 .. n, before))
  <2>1. n \in Nat /\ IsOrder(1 .. n, before)
    BY <1>1
  <2> QED BY <2>1, ReorderedAs
<1>5. /\ p \in [1 .. n -> I] /\ t = [k \in 1 .. n |-> ws[p[k]]]
      /\ \A j, k \in 1 .. n : p[j] = p[k] => j = k
      /\ \A i \in I : \E j \in 1 .. n : p[j] = i
  BY <1>1, <1>3, <1>4 DEF PutInOrder
<1>6. \A i \in I : ws[i] \in D!PlacedWidgets
  BY <1>1, <1>3
<1>7. t \in Seq(D!PlacedWidgets) /\ Len(t) = n /\ DOMAIN t = 1 .. n
  <2>1. t \in [1 .. n -> D!PlacedWidgets]
    BY <1>5, <1>6
  <2> QED BY <1>1, <2>1
<1>8. OwnId(t)
  <2> SUFFICES ASSUME NEW i \in 1 .. n, NEW k \in 1 .. n, i # k PROVE t[i].id # t[k].id
    BY <1>7 DEF OwnId
  <2>1. p[i] # p[k] /\ p[i] \in I /\ p[k] \in I /\ t[i] = ws[p[i]] /\ t[k] = ws[p[k]]
    BY <1>5
  <2> QED BY <1>3, <2>1 DEF OwnId
<1>9. \A i \in DOMAIN t : \E k \in DOMAIN ws : t[i] = ws[k]
  BY <1>3, <1>5, <1>7
<1>10. D!Ids(t) = D!Ids(ws)
  <2>1. D!Ids(t) = {t[i].id : i \in 1 .. n} /\ D!Ids(ws) = {ws[i].id : i \in I}
    BY <1>3, <1>7 DEF D!Ids
  <2>3. \A j \in 1 .. n : p[j] \in I /\ t[j].id = ws[p[j]].id
    BY <1>5
  <2>2. \A i \in I : \E j \in 1 .. n : t[j].id = ws[i].id
    <3>1. \A i \in I : \E j \in 1 .. n : p[j] = i
      BY <1>5
    <3> QED BY <2>3, <3>1
  <2>4. {t[i].id : i \in 1 .. n} \subseteq {ws[i].id : i \in I}
    BY <2>3
  <2>5. {ws[i].id : i \in I} \subseteq {t[i].id : i \in 1 .. n}
    BY <2>2
  <2> QED BY <2>1, <2>4, <2>5
<1>11. t = D!Arranged(ws, DOMAIN ws, before)
  BY <1>1 DEF t
<1> QED BY <1>3, <1>7, <1>8, <1>9, <1>10, <1>11

\* The widgets in their order, as they are.
LEMMA OrderedAre ==
  ASSUME NEW ws \in Seq(D!PlacedWidgets), OwnId(ws)
  PROVE  LET t == D!Arranged(ws, DOMAIN ws, ReadsBefore(ws))
         IN  /\ t \in Seq(D!PlacedWidgets) /\ Len(t) = Len(ws) /\ OwnId(t)
             /\ \A i \in DOMAIN t : \E k \in DOMAIN ws : t[i] = ws[k]
             /\ D!Ids(t) = D!Ids(ws)
BY ReadingIsOrder, ReorderedAre

\* Tidied, widgets fit: the same ones.
LEMMA TidyGood ==
  ASSUME D!DashConstants, NEW ws, Loose(ws)
  PROVE  Good(D!tidyLayout(ws)) /\ D!Ids(D!tidyLayout(ws)) = D!Ids(ws)
<1> DEFINE t == D!Arranged(ws, DOMAIN ws, ReadsBefore(ws))
           n == Len(t)
           sizes == [i \in DOMAIN t |-> [w |-> D!Min({t[i].w, 12}), h |-> t[i].h]]
           q == [i \in DOMAIN t |-> [t[i] EXCEPT !.w = sizes[i].w, !.x = D!pack(sizes)[i].x,
                                                 !.y = D!pack(sizes)[i].y]]
<1>1. D!tidyLayout(ws) = q
  BY DEF D!tidyLayout, ReadsBefore, D!COLUMNS
<1>2. /\ t \in Seq(D!PlacedWidgets) /\ OwnId(t) /\ D!Ids(t) = D!Ids(ws)
      /\ \A i \in DOMAIN t : \E k \in DOMAIN ws : t[i] = ws[k]
  BY OrderedAre DEF Loose
<1>3. \A i \in DOMAIN t : t[i] \in D!PlacedWidgets /\ t[i].w >= MinW(t[i].type)
  BY <1>2 DEF Loose
<1> HIDE DEF t
<1>4. n \in Nat /\ DOMAIN t = 1 .. n
  BY <1>2
<1>5. ASSUME NEW i \in 1 .. n
      PROVE  /\ sizes[i].w \in 0 .. 12 /\ sizes[i].w >= MinW(t[i].type)
             /\ sizes[i].h = t[i].h /\ sizes[i].h \in Nat
  <2>1. /\ t[i].w \in Nat /\ t[i].h \in Nat /\ t[i].type \in D!Types /\ t[i].w >= MinW(t[i].type)
    BY <1>3, <1>4, WidgetTypes
  <2>2. MinW(t[i].type) \in 1 .. 4
    BY <2>1, LeastWidths
  <2>3. D!Min({t[i].w, 12}) \in {t[i].w, 12} /\ D!Min({t[i].w, 12}) <= 12
    BY <2>1, SmallerOfTwo
  <2>4. sizes[i].w = D!Min({t[i].w, 12}) /\ sizes[i].h = t[i].h
    BY <1>4
  <2> HIDE DEF sizes
  <2> QED BY <2>1, <2>2, <2>3, <2>4
<1>6. AreSizes(sizes, n)
  <2>1. DOMAIN sizes = 1 .. n
    BY <1>4
  <2> HIDE DEF sizes
  <2> QED BY <1>5, <2>1 DEF AreSizes
<1>7. q = [i \in 1 .. n |-> [t[i] EXCEPT !.w = sizes[i].w, !.x = D!pack(sizes)[i].x,
                                         !.y = D!pack(sizes)[i].y]]
  BY <1>4
<1> HIDE DEF sizes
<1>8. D!pack(sizes) \in Seq(Corners) /\ Len(D!pack(sizes)) = n
  BY <1>4, <1>6, PackFits
<1>9. ASSUME NEW i \in 1 .. n
      PROVE  /\ q[i] \in D!PlacedWidgets /\ q[i].id = t[i].id /\ q[i].type = t[i].type
             /\ q[i].w = sizes[i].w /\ q[i].h = sizes[i].h
             /\ q[i].x = D!pack(sizes)[i].x /\ q[i].y = D!pack(sizes)[i].y
  <2>1. t[i] \in D!PlacedWidgets
    BY <1>3, <1>4
  <2>2. D!pack(sizes)[i].x \in Nat /\ D!pack(sizes)[i].y \in Nat
    <3>1. D!pack(sizes)[i] \in Corners
      BY <1>8, ElementOfSeq
    <3> QED BY <3>1 DEF Corners
  <2>3. q[i] = [t[i] EXCEPT !.w = sizes[i].w, !.x = D!pack(sizes)[i].x, !.y = D!pack(sizes)[i].y]
    BY <1>7
  <2>4. sizes[i].w \in Nat /\ sizes[i].h = t[i].h
    BY <1>5
  <2> HIDE DEF q
  <2>5. q[i] = [id |-> t[i].id, type |-> t[i].type, x |-> D!pack(sizes)[i].x,
                y |-> D!pack(sizes)[i].y, w |-> sizes[i].w, h |-> t[i].h, config |-> t[i].config]
    BY <2>1, <2>3, WidgetTypes
  <2> QED BY <2>1, <2>2, <2>4, <2>5, WidgetTypes DEF D!PlacedWidgets
<1>10. DOMAIN q = 1 .. n /\ q = [i \in 1 .. n |-> q[i]]
  BY <1>7
<1> HIDE DEF q
<1>11. q \in Seq(D!PlacedWidgets) /\ Len(q) = n
  <2>1. q \in [1 .. n -> D!PlacedWidgets]
    BY <1>9, <1>10
  <2> QED BY <1>4, <1>10, <2>1
<1>12. OwnId(q)
  BY <1>2, <1>4, <1>9, <1>10 DEF OwnId
<1>13. Good(q)
  <2>1. \A i \in 1 .. n : /\ q[i].w = sizes[i].w /\ q[i].h = sizes[i].h
                          /\ q[i].x = D!pack(sizes)[i].x /\ q[i].y = D!pack(sizes)[i].y
                          /\ q[i].w >= MinW(q[i].type)
    BY <1>5, <1>9
  <2>2. n \in Nat /\ Len(q) = n
    BY <1>4, <1>11
  <2> HIDE DEF n
  <2> QED BY <1>6, <1>11, <1>12, <2>1, <2>2, PackedIsGood
<1>14. D!Ids(q) = D!Ids(t)
  BY <1>4, <1>9, <1>10 DEF D!Ids
<1> QED BY <1>1, <1>2, <1>13, <1>14

\* Boxes by id are those of the widgets.
LEMMA BoxesAre ==
  ASSUME NEW ws, Loose(ws)
  PROVE  /\ DOMAIN D!Boxes(ws) = D!Ids(ws)
         /\ \A i \in DOMAIN ws : D!Boxes(ws)[ws[i].id] = D!Box(ws[i])
<1>1. DOMAIN ws = 1 .. Len(ws) /\ Len(ws) \in Nat
  BY DEF Loose
<1>2. ASSUME NEW i \in DOMAIN ws
      PROVE  D!Boxes(ws)[ws[i].id] = D!Box(ws[i])
  <2> DEFINE J == {j \in 1 .. Len(ws) : ws[j].id = ws[i].id}
  <2>1. J = {i}
    BY <1>1 DEF Loose, OwnId
  <2>2. D!Min({i}) = i
    <3>1. D!Min({i}) \in {i}
      BY <1>1 DEF D!Min
    <3> QED BY <3>1
  <2>3. D!SelectInSeq(ws, LAMBDA p : p.id = ws[i].id) = i
    BY <2>1, <2>2 DEF D!SelectInSeq
  <2>4. ws[i].id \in D!Ids(ws)
    BY DEF D!Ids
  <2>5. D!Boxes(ws)[ws[i].id] = D!Box(ws[D!SelectInSeq(ws, LAMBDA p : p.id = ws[i].id)])
    BY <2>4 DEF D!Boxes
  <2> QED BY <2>3, <2>5
<1>3. DOMAIN D!Boxes(ws) = D!Ids(ws)
  BY DEF D!Boxes
<1> QED BY <1>2, <1>3

-----------------------------------------------------------------------------
(* What a preference holds, migrated. *)

LEMMA PartFits ==
  ASSUME NEW ws, Good(ws), NEW I \in SUBSET (DOMAIN ws)
  PROVE  D!Fit([i \in I |-> ws[i]])
BY DEF Good, D!Fit

LEMMA SomeGood ==
  ASSUME NEW ws, Good(ws), NEW I \in SUBSET (DOMAIN ws)
  PROVE  Good(D!Those(ws, I)) /\ D!Ids(D!Those(ws, I)) = {ws[i].id : i \in I}
<1>1. ws \in Seq(D!PlacedWidgets) /\ \A i \in I : ws[i] \in D!PlacedWidgets
  BY DEF Good
<1>2. D!Fit([i \in I |-> ws[i]])
  BY PartFits
<1> QED BY <1>1, <1>2, ThoseGood

\* The widths of the spans.
LEMMA SpanWidths ==
  ASSUME NEW span
  PROVE  D!spanToWidth(span) \in {4, 6, 12}
<1>1. CASE span = "half"
  BY <1>1 DEF D!spanToWidth
<1>2. CASE span = "third"
  BY <1>2 DEF D!spanToWidth
<1>3. CASE span # "half" /\ span # "third"
  BY <1>3 DEF D!spanToWidth
<1> QED BY <1>1, <1>2, <1>3

LegacyWidths(t) == {WIDGET_SIZES[t].w, 4, 6, 12}

LEMMA WideEnough ==
  ASSUME D!DashConstants, NEW t \in D!Types, NEW w \in LegacyWidths(t)
  PROVE  w \in 0 .. 12 /\ w >= MinW(t)
<1>1. MinW(t) \in 1 .. 4 /\ WIDGET_SIZES[t].w \in MinW(t) .. 12
  BY LeastWidths
<1>2. CASE w = WIDGET_SIZES[t].w
  BY <1>1, <1>2
<1>3. CASE w \in {4, 6, 12}
  BY <1>1, <1>3
<1> QED BY <1>2, <1>3 DEF LegacyWidths

LEMMA LegacyGood ==
  ASSUME D!DashConstants, NEW old, old.order \in Seq(D!ToSet(old.order))
  PROVE  Good(D!FromLegacy(old))
<1> DEFINE order == old.order \o DefaultTypes
           U == D!ToSet(old.order) \cup D!Types
           I == {i \in DOMAIN order : /\ order[i] \in D!Types \ old.hidden
                                      /\ \A k \in 1 .. i - 1 : order[k] # order[i]}
           n == Cardinality(I)
           types == D!Those(order, I)
           Width(t) == IF old.spans = None THEN WIDGET_SIZES[t].w ELSE D!spanToWidth(old.spans[t])
           sizes == [i \in DOMAIN types |-> [w |-> Width(types[i]), h |-> WIDGET_SIZES[types[i]].h]]
<1>1. D!FromLegacy(old) = D!Placed(types, sizes)
  BY DEF D!FromLegacy
<1>2. order \in Seq(U)
  <2>1. DefaultTypes \in Seq(U) /\ old.order \in Seq(U)
    BY DEF D!DashConstants
  <2> QED BY <2>1
<1>3. I \in SUBSET (DOMAIN order)
  OBVIOUS
<1>4. /\ \A i \in I : order[i] \in D!Types /\ i \in Nat
      /\ \A i, k \in I : k < i => order[k] # order[i]
  <2>1. DOMAIN order = 1 .. Len(order)
    BY <1>2
  <2> HIDE DEF order
  <2> QED BY <2>1
<1> HIDE DEF order, I, U
<1>5. PICK p \in [1 .. n -> I] : /\ types = [k \in 1 .. n |-> order[p[k]]]
                                 /\ EachOnce(p, I) /\ n \in Nat
  BY <1>2, <1>3, ThoseAre
<1>11. \A j, k \in 1 .. n : p[j] = p[k] => j = k
  BY <1>5 DEF EachOnce
<1> HIDE DEF n
<1>6. types \in Seq(D!Types) /\ DOMAIN types = 1 .. n /\ Len(types) = n
  <2> HIDE DEF types
  <2>1. types \in [1 .. n -> D!Types]
    BY <1>4, <1>5
  <2> QED BY <1>5, <2>1
<1> HIDE DEF types
<1>7. ASSUME NEW i \in DOMAIN types, NEW k \in DOMAIN types, types[i] = types[k]
      PROVE  i = k
  <2>1. /\ i \in 1 .. n /\ k \in 1 .. n /\ p[i] \in I /\ p[k] \in I
        /\ types[i] = order[p[i]] /\ types[k] = order[p[k]]
    BY <1>5, <1>6
  <2>2. ~(p[i] < p[k]) /\ ~(p[k] < p[i])
    BY <1>4, <1>7, <2>1
  <2>3. p[i] \in Nat /\ p[k] \in Nat
    BY <1>4, <2>1
  <2>4. p[i] = p[k]
    BY <2>2, <2>3
  <2> QED BY <1>11, <2>1, <2>4
<1>8. ASSUME NEW i \in DOMAIN types
      PROVE  /\ sizes[i].w \in 0 .. 12 /\ sizes[i].h \in Nat
             /\ sizes[i].w >= MinW(types[i])
  <2>1. types[i] \in D!Types
    BY <1>6
  <2>2. /\ MinW(types[i]) \in 1 .. 4 /\ WIDGET_SIZES[types[i]].h \in Nat
        /\ WIDGET_SIZES[types[i]].w \in MinW(types[i]) .. 12
    BY <2>1, LeastWidths
  <2>3. Width(types[i]) \in 0 .. 12 /\ Width(types[i]) >= MinW(types[i])
    <3>1. Width(types[i]) \in LegacyWidths(types[i])
      BY SpanWidths DEF LegacyWidths
    <3> HIDE DEF Width
    <3> QED BY <2>1, <3>1, WideEnough
  <2>4. sizes[i].w = Width(types[i]) /\ sizes[i].h = WIDGET_SIZES[types[i]].h
    OBVIOUS
  <2> HIDE DEF sizes
  <2> QED BY <2>2, <2>3, <2>4
<1>9. AreSizes(sizes, Len(types))
  <2>1. DOMAIN sizes = 1 .. Len(types)
    BY <1>6
  <2> HIDE DEF sizes
  <2> QED BY <1>6, <1>8, <2>1 DEF AreSizes
<1> HIDE DEF sizes
<1>10. Good(D!Placed(types, sizes))
  BY <1>6, <1>7, <1>8, <1>9, PlacedGood
<1> QED BY <1>1, <1>10

LEMMA MigrateGood ==
  ASSUME D!DashConstants, NEW old, old = None \/ D!IsSaved(old)
  PROVE  Good(D!migrateLayout(old))
<1>1. CASE old = None
  BY <1>1, DefaultGood DEF D!migrateLayout
<1>2. CASE old # None /\ old.version = 1
  <2>1. D!migrateLayout(old) = D!FromLegacy(old)
    BY <1>2 DEF D!migrateLayout
  <2>2. old.order \in Seq(D!ToSet(old.order))
    BY <1>2 DEF D!IsSaved
  <2> QED BY <2>1, <2>2, LegacyGood
<1>3. CASE old # None /\ old.version # 1
  <2> DEFINE I == {i \in DOMAIN old.widgets : old.widgets[i].type \in D!Types}
             known == D!Those(old.widgets, I)
  <2>1. D!migrateLayout(old) = IF known = << >> THEN D!defaultLayout ELSE known
    BY <1>3 DEF D!migrateLayout
  <2>2. /\ old.widgets \in Seq(D!ToSet(old.widgets))
        /\ \A i \in I : old.widgets[i] \in D!PlacedWidgets
        /\ D!Fit([i \in I |-> old.widgets[i]])
    BY <1>3 DEF D!IsSaved
  <2>3. I \in SUBSET (DOMAIN old.widgets)
    OBVIOUS
  <2> HIDE DEF I
  <2>4. Good(known)
    BY <2>2, <2>3, ThoseGood
  <2> QED BY <2>1, <2>4, DefaultGood
<1> QED BY <1>1, <1>2, <1>3

\* What is saved of a page comes back as it was saved.
LEMMA SavedAsPlaced ==
  ASSUME NEW ws, Good(ws)
  PROVE  D!IsSaved(D!V2(ws))
<1> DEFINE old == D!V2(ws)
           known == {i \in DOMAIN old.widgets : old.widgets[i].type \in D!Types}
<1>1. old.version = 2 /\ old.widgets = ws
  BY DEF D!V2
<1>2. ws \in Seq(D!PlacedWidgets) /\ D!Fit(ws)
  BY DEF Good
<1>3. ws \in Seq(D!ToSet(ws))
  <2>1. ws \in [1 .. Len(ws) -> D!ToSet(ws)] /\ Len(ws) \in Nat
    BY <1>2 DEF D!ToSet
  <2> QED BY <2>1
<1>4. \A i \in known : old.widgets[i] \in D!PlacedWidgets
  BY <1>1, <1>2
<1>5. known \in SUBSET (DOMAIN ws)
  BY <1>1
<1>6. D!Fit([i \in known |-> old.widgets[i]])
  <2> HIDE DEF old, known
  <2>1. D!Fit([i \in known |-> ws[i]])
    BY <1>5, PartFits
  <2> QED BY <1>1, <2>1
<1> QED BY <1>1, <1>3, <1>4, <1>6 DEF D!IsSaved

-----------------------------------------------------------------------------
(* Widgets added, and their settings. *)

LEMMA Bounded ==
  ASSUME NEW n \in Nat, NEW f, \A i \in 1 .. n : f[i] \in Nat
  PROVE  \E m \in Nat : \A i \in 1 .. n : f[i] <= m
<1> DEFINE S == {k \in Nat : \E m \in Nat : \A i \in 1 .. n : i <= k => f[i] <= m}
<1>1. 0 \in S
  <2>1. \A i \in 1 .. n : i <= 0 => f[i] <= 0
    OBVIOUS
  <2> QED BY <2>1
<1>2. ASSUME NEW k \in S PROVE k + 1 \in S
  <2>1. PICK m \in Nat : \A i \in 1 .. n : i <= k => f[i] <= m
    OBVIOUS
  <2>2. CASE k + 1 \in 1 .. n
    <3>1. PICK u \in Nat : u >= m /\ u >= f[k + 1]
      <4>1. f[k + 1] \in Nat
        BY <2>2
      <4>2. m >= f[k + 1] \/ f[k + 1] >= m
        BY <4>1
      <4> QED BY <4>1, <4>2
    <3>2. ASSUME NEW i \in 1 .. n, i <= k + 1 PROVE f[i] <= u
      <4>1. CASE i = k + 1
        BY <3>1, <4>1
      <4>2. CASE i <= k
        <5>1. f[i] <= m /\ f[i] \in Nat
          BY <2>1, <4>2
        <5> QED BY <3>1, <5>1
      <4> QED BY <3>2, <4>1, <4>2
    <3> QED BY <3>2
  <2>3. CASE k + 1 \notin 1 .. n
    <3>1. \A i \in 1 .. n : i <= k + 1 => i <= k
      BY <2>3
    <3>2. \A i \in 1 .. n : i <= k + 1 => f[i] <= m
      BY <2>1, <3>1
    <3> QED BY <3>2
  <2> QED BY <2>2, <2>3
<1>3. S \in SUBSET Nat
  OBVIOUS
<1> HIDE DEF S
<1>4. S = Nat
  BY <1>1, <1>2, <1>3, NatInd
<1>5. n \in S
  BY <1>4
<1>6. PICK m \in Nat : \A i \in 1 .. n : i <= n => f[i] <= m
  BY <1>5 DEF S
<1> QED BY <1>6

\* The row below everything.
Bottom(ws) == D!Max({ws[i].y + ws[i].h : i \in DOMAIN ws} \cup {0})

LEMMA BottomIsBelow ==
  ASSUME NEW ws \in Seq(D!PlacedWidgets)
  PROVE  Bottom(ws) \in Nat /\ \A i \in DOMAIN ws : ws[i].y + ws[i].h <= Bottom(ws)
<1> DEFINE n == Len(ws)
           f == [i \in 1 .. n |-> ws[i].y + ws[i].h]
           S == {ws[i].y + ws[i].h : i \in DOMAIN ws} \cup {0}
           U == {m \in Nat : \A s \in S : s <= m}
<1>1. n \in Nat /\ DOMAIN ws = 1 .. n
  OBVIOUS
<1>2. \A i \in 1 .. n : f[i] \in Nat /\ f[i] = ws[i].y + ws[i].h
  BY <1>1, WidgetTypes
<1>3. S = {f[i] : i \in 1 .. n} \cup {0}
  BY <1>1
<1> HIDE DEF n, f, S
<1>4. S \in SUBSET Nat /\ 0 \in S
  BY <1>2, <1>3
<1>5. PICK m \in Nat : \A i \in 1 .. n : f[i] <= m
  BY <1>1, <1>2, Bounded
<1>6. U \in SUBSET Nat /\ m \in U
  <2>1. \A s \in S : s <= m
    BY <1>3, <1>5
  <2> QED BY <2>1
<1>7. PICK top \in U : \A u \in U : top <= u
  <2> HIDE DEF U
  <2> QED BY <1>6, Smallest
<1>8. top \in S
  <2> SUFFICES ASSUME top \notin S PROVE FALSE
    OBVIOUS
  <2>1. \A s \in S : s <= top - 1
    BY <1>4
  <2>2. top - 1 \in U
    BY <1>4, <2>1
  <2> QED BY <1>7, <2>2
<1>9. \E x \in S : \A y \in S : x >= y
  <2>1. \A y \in S : top >= y
    BY <1>4
  <2> QED BY <1>8, <2>1
<1>10. D!Max(S) \in S /\ \A y \in S : D!Max(S) >= y
  BY <1>9 DEF D!Max
<1>11. Bottom(ws) = D!Max(S)
  BY DEF Bottom, S
<1>12. \A i \in 1 .. n : ws[i].y + ws[i].h \in S
  BY <1>2, <1>3
<1> QED BY <1>1, <1>4, <1>10, <1>11, <1>12

\* A type has a number no widget has.
LEMMA NewId ==
  ASSUME NEW ws \in Seq(D!PlacedWidgets), NEW type \in D!Types
  PROVE  /\ D!newInstanceId(type, ws) \in D!Types \X (Nat \ {0})
         /\ D!newInstanceId(type, ws)[1] = type
         /\ D!newInstanceId(type, ws) \notin D!Ids(ws)
<1> DEFINE n == Len(ws)
           F == {m \in 1 .. n + 1 : <<type, m>> \notin D!Ids(ws)}
<1>1. n \in Nat /\ DOMAIN ws = 1 .. n
  OBVIOUS
<1> HIDE DEF n
<1>2. F # {}
  <2> SUFFICES ASSUME \A m \in 1 .. n + 1 : <<type, m>> \in D!Ids(ws) PROVE FALSE
    OBVIOUS
  <2> DEFINE at == [m \in 1 .. n + 1 |-> CHOOSE i \in 1 .. n : ws[i].id = <<type, m>>]
  <2>1. \A m \in 1 .. n + 1 : \E i \in 1 .. n : ws[i].id = <<type, m>>
    BY <1>1 DEF D!Ids
  <2>2. \A m \in 1 .. n + 1 : at[m] \in 1 .. n /\ ws[at[m]].id = <<type, m>>
    BY <2>1
  <2>3. at \in [1 .. n + 1 -> 1 .. n]
    BY <2>2
  <2> HIDE DEF at
  <2>4. /\ IsFiniteSet(1 .. n + 1) /\ IsFiniteSet(1 .. n)
        /\ Cardinality(1 .. n) < Cardinality(1 .. n + 1)
    <3>1. /\ IsFiniteSet(1 .. n + 1) /\ IsFiniteSet(1 .. n)
          /\ Cardinality(1 .. n) = IF 1 > n THEN 0 ELSE n - 1 + 1
          /\ Cardinality(1 .. n + 1) = IF 1 > n + 1 THEN 0 ELSE n + 1 - 1 + 1
      BY <1>1, FS_Interval
    <3> QED BY <1>1, <3>1
  <2>5. PICK a \in 1 .. n + 1, b \in 1 .. n + 1 : a # b /\ at[a] = at[b]
    BY <2>3, <2>4, FS_PigeonHole
  <2>6. <<type, a>> = <<type, b>>
    BY <2>2, <2>5
  <2> QED BY <2>5, <2>6
<1>3. F \in SUBSET Nat
  OBVIOUS
<1>4. PICK m \in F : \A k \in F : m <= k
  <2> HIDE DEF F
  <2> QED BY <1>2, <1>3, Smallest
<1> DEFINE Free(k) == /\ <<type, k>> \notin D!Ids(ws)
                      /\ \A j \in 1 .. k - 1 : <<type, j>> \in D!Ids(ws)
<1>5. m \in 1 .. n + 1 /\ Free(m)
  <2>1. m \in 1 .. n + 1 /\ <<type, m>> \notin D!Ids(ws)
    OBVIOUS
  <2>2. \A j \in 1 .. m - 1 : j \in 1 .. n + 1 /\ ~(m <= j)
    BY <1>1, <2>1
  <2>3. \A j \in 1 .. m - 1 : <<type, j>> \in D!Ids(ws)
    BY <1>4, <2>2
  <2> QED BY <2>1, <2>3
<1> DEFINE k == CHOOSE k \in 1 .. n + 1 : Free(k)
<1>6. k \in 1 .. n + 1 /\ Free(k)
  <2> HIDE DEF Free
  <2> QED BY <1>5
<1>7. D!newInstanceId(type, ws) = <<type, k>>
  BY DEF D!newInstanceId, n
<1> HIDE DEF k
<1>8. k \in Nat \ {0}
  BY <1>1, <1>6
<1> QED BY <1>6, <1>7, <1>8

LEMMA AddGood ==
  ASSUME D!DashConstants, NEW ws, Good(ws), NEW type \in D!Types,
         NEW new, new = [id |-> D!newInstanceId(type, ws), type |-> type, x |-> 0, y |-> Bottom(ws),
                         w |-> WIDGET_SIZES[type].w, h |-> WIDGET_SIZES[type].h, config |-> None]
  PROVE  Good(Append(ws, new))
<1> DEFINE n == Len(ws)
           more == Append(ws, new)
<1>1. ws \in Seq(D!PlacedWidgets) /\ n \in Nat /\ DOMAIN ws = 1 .. n
  BY DEF Good
<1>2. MinW(type) \in 1 .. 4 /\ WIDGET_SIZES[type].w \in MinW(type) .. 12 /\ WIDGET_SIZES[type].h \in Nat
  BY LeastWidths
<1>3. Bottom(ws) \in Nat /\ \A i \in 1 .. n : ws[i].y + ws[i].h <= Bottom(ws)
  BY <1>1, BottomIsBelow
<1>4. /\ D!newInstanceId(type, ws) \in D!Types \X (Nat \ {0})
      /\ D!newInstanceId(type, ws)[1] = type
      /\ D!newInstanceId(type, ws) \notin D!Ids(ws)
  BY <1>1, NewId
<1>5. new \in D!PlacedWidgets
  <2>1. WIDGET_SIZES[type].w \in Nat
    BY <1>2
  <2> QED BY <1>2, <1>3, <1>4, <2>1 DEF D!PlacedWidgets
<1>6. /\ new.id \notin D!Ids(ws) /\ new.type = type /\ new.x = 0 /\ new.y = Bottom(ws)
      /\ new.w = WIDGET_SIZES[type].w /\ new.h \in Nat
  BY <1>2, <1>4
<1>7. /\ more \in Seq(D!PlacedWidgets) /\ DOMAIN more = 1 .. n + 1
      /\ \A i \in 1 .. n : more[i] = ws[i]
      /\ more[n + 1] = new
  BY <1>1, <1>5
<1> HIDE DEF more, n
<1>8. ASSUME NEW i \in 1 .. n + 1
      PROVE  more[i].x + more[i].w <= D!COLUMNS /\ more[i].w >= WIDGET_SIZES[more[i].type].minW
  <2>1. CASE i = n + 1
    <3>1. more[i].x + more[i].w = WIDGET_SIZES[type].w
      BY <1>2, <1>6, <1>7, <2>1
    <3> QED BY <1>2, <1>6, <1>7, <2>1, <3>1 DEF MinW, D!COLUMNS
  <2>2. CASE i # n + 1
    <3>1. i \in 1 .. n
      BY <1>1, <2>2
    <3> QED BY <1>1, <1>7, <3>1 DEF Good, D!Fit
  <2> QED BY <2>1, <2>2
<1>9. ASSUME NEW i \in 1 .. n
      PROVE  more[i].id # new.id /\ D!Apart(more[i], new) /\ D!Apart(new, more[i])
  <2>1. ws[i].id \in D!Ids(ws)
    BY <1>1 DEF D!Ids
  <2>2. ws[i].y + ws[i].h <= new.y
    BY <1>3, <1>6
  <2> QED BY <1>6, <1>7, <2>1, <2>2 DEF D!Apart
<1>10. ASSUME NEW i \in 1 .. n + 1, NEW k \in 1 .. n + 1, i # k
       PROVE  more[i].id # more[k].id /\ D!Apart(more[i], more[k])
  <2>1. CASE i \in 1 .. n /\ k \in 1 .. n
    BY <1>1, <1>7, <1>10, <2>1 DEF Good, D!Fit
  <2>2. CASE i = n + 1
    <3>1. k \in 1 .. n
      BY <1>1, <1>10, <2>2
    <3> QED BY <1>7, <1>9, <2>2, <3>1
  <2>3. CASE k = n + 1
    <3>1. i \in 1 .. n
      BY <1>1, <1>10, <2>3
    <3> QED BY <1>7, <1>9, <2>3, <3>1
  <2> QED BY <1>1, <2>1, <2>2, <2>3
<1>11. Good(more)
  BY <1>7, <1>8, <1>10 DEF Good, D!Fit
<1> QED BY <1>11 DEF more

\* Widgets that only change a setting stay where they are.
LEMMA SettingsGood ==
  ASSUME NEW ws, Good(ws), NEW id, NEW new,
         new = [i \in DOMAIN ws |-> IF ws[i].id = id THEN [ws[i] EXCEPT !.config = "set"] ELSE ws[i]]
  PROVE  Good(new) /\ D!Ids(new) = D!Ids(ws)
<1>1. ws \in Seq(D!PlacedWidgets) /\ Len(ws) \in Nat /\ DOMAIN ws = 1 .. Len(ws)
  BY DEF Good
<1>2. ASSUME NEW i \in DOMAIN ws
      PROVE  /\ new[i] \in D!PlacedWidgets /\ new[i].id = ws[i].id /\ new[i].type = ws[i].type
             /\ new[i].x = ws[i].x /\ new[i].y = ws[i].y /\ new[i].w = ws[i].w /\ new[i].h = ws[i].h
  <2>1. ws[i] \in D!PlacedWidgets
    BY <1>1
  <2>2. CASE ws[i].id = id
    <3>1. new[i] = [ws[i] EXCEPT !.config = "set"]
      BY <2>2
    <3>2. new[i] = [id |-> ws[i].id, type |-> ws[i].type, x |-> ws[i].x, y |-> ws[i].y, w |-> ws[i].w,
                    h |-> ws[i].h, config |-> "set"]
      BY <2>1, <3>1, WidgetTypes
    <3> QED BY <2>1, <3>2, WidgetTypes DEF D!PlacedWidgets
  <2>3. CASE ws[i].id # id
    <3>1. new[i] = ws[i]
      BY <2>3
    <3> QED BY <2>1, <3>1
  <2> QED BY <2>2, <2>3
<1>3. DOMAIN new = 1 .. Len(ws) /\ new = [i \in 1 .. Len(ws) |-> new[i]]
  BY <1>1
<1>4. new \in Seq(D!PlacedWidgets)
  <2>1. new \in [1 .. Len(ws) -> D!PlacedWidgets]
    BY <1>1, <1>2, <1>3
  <2> QED BY <1>1, <2>1
<1>5. D!Fit(new)
  <2>1. ASSUME NEW i \in DOMAIN new
        PROVE  new[i].x + new[i].w <= D!COLUMNS /\ new[i].w >= WIDGET_SIZES[new[i].type].minW
    <3>1. i \in DOMAIN ws
      BY <1>1, <1>3
    <3>2. ws[i].x + ws[i].w <= D!COLUMNS /\ ws[i].w >= WIDGET_SIZES[ws[i].type].minW
      BY <3>1 DEF Good, D!Fit
    <3> QED BY <1>2, <3>1, <3>2
  <2>2. ASSUME NEW i \in DOMAIN new, NEW k \in DOMAIN new, i # k
        PROVE  new[i].id # new[k].id /\ D!Apart(new[i], new[k])
    <3>1. i \in DOMAIN ws /\ k \in DOMAIN ws
      BY <1>1, <1>3
    <3>2. ws[i].id # ws[k].id /\ D!Apart(ws[i], ws[k])
      BY <2>2, <3>1 DEF Good, D!Fit
    <3> QED BY <1>2, <3>1, <3>2 DEF D!Apart
  <2> QED BY <2>1, <2>2 DEF D!Fit
<1>6. D!Ids(new) = D!Ids(ws)
  <2>1. \A i \in 1 .. Len(ws) : new[i].id = ws[i].id
    BY <1>1, <1>2
  <2> QED BY <1>1, <1>3, <2>1 DEF D!Ids
<1> QED BY <1>4, <1>5, <1>6 DEF Good

-----------------------------------------------------------------------------
(* The page and the grid. *)

\* The grid has a box for each widget, wide enough for it.
GridOK(own, g) ==
  /\ DOMAIN g = own
  /\ \A id \in own : /\ g[id].x \in Nat /\ g[id].y \in Nat /\ g[id].w \in Nat /\ g[id].h \in Nat
                     /\ g[id].w >= MinW(id[1])

LEMMA BoxesGridOK ==
  ASSUME NEW ws, Loose(ws)
  PROVE  GridOK(D!Ids(ws), D!Boxes(ws))
<1>1. /\ DOMAIN D!Boxes(ws) = D!Ids(ws)
      /\ \A i \in DOMAIN ws : D!Boxes(ws)[ws[i].id] = D!Box(ws[i])
  BY BoxesAre
<1>2. ASSUME NEW i \in DOMAIN ws
      PROVE  LET b == D!Boxes(ws)[ws[i].id]
             IN  /\ b.x \in Nat /\ b.y \in Nat /\ b.w \in Nat /\ b.h \in Nat
                 /\ b.w >= MinW(ws[i].id[1])
  <2>1. ws[i] \in D!PlacedWidgets /\ ws[i].w >= MinW(ws[i].type)
    BY DEF Loose
  <2>2. /\ ws[i].x \in Nat /\ ws[i].y \in Nat /\ ws[i].w \in Nat /\ ws[i].h \in Nat
        /\ ws[i].id[1] = ws[i].type
    BY <2>1, WidgetTypes
  <2>3. D!Boxes(ws)[ws[i].id] = [x |-> ws[i].x, y |-> ws[i].y, w |-> ws[i].w, h |-> ws[i].h]
    BY <1>1 DEF D!Box
  <2> QED BY <2>1, <2>2, <2>3
<1>3. \A id \in D!Ids(ws) : \E i \in DOMAIN ws : ws[i].id = id
  BY DEF D!Ids
<1> QED BY <1>1, <1>2, <1>3 DEF GridOK

\* A widget moved or sized keeps its id, and is wide enough if it was made so.
Moved(ws, box) == [i \in DOMAIN ws |-> [id |-> ws[i].id, type |-> ws[i].type, x |-> box[i].x, y |-> box[i].y,
                                        w |-> box[i].w, h |-> box[i].h, config |-> ws[i].config]]

LEMMA MovedLoose ==
  ASSUME NEW ws, Loose(ws), NEW box,
         \A i \in DOMAIN ws : /\ box[i].x \in Nat /\ box[i].y \in Nat /\ box[i].w \in Nat /\ box[i].h \in Nat
                              /\ box[i].w >= MinW(ws[i].type)
  PROVE  Loose(Moved(ws, box)) /\ D!Ids(Moved(ws, box)) = D!Ids(ws)
<1> DEFINE new == Moved(ws, box)
<1>1. ws \in Seq(D!PlacedWidgets) /\ Len(ws) \in Nat /\ DOMAIN ws = 1 .. Len(ws)
  BY DEF Loose
<1>2. ASSUME NEW i \in DOMAIN ws
      PROVE  /\ new[i] \in D!PlacedWidgets /\ new[i].id = ws[i].id /\ new[i].type = ws[i].type
             /\ new[i].w >= MinW(new[i].type)
  <2>1. ws[i] \in D!PlacedWidgets
    BY <1>1
  <2>2. /\ box[i].x \in Nat /\ box[i].y \in Nat /\ box[i].w \in Nat /\ box[i].h \in Nat
        /\ box[i].w >= MinW(ws[i].type)
    OBVIOUS
  <2>3. new[i] = [id |-> ws[i].id, type |-> ws[i].type, x |-> box[i].x, y |-> box[i].y,
                  w |-> box[i].w, h |-> box[i].h, config |-> ws[i].config]
    BY DEF Moved
  <2> HIDE DEF new
  <2>4. new[i] \in D!PlacedWidgets
    BY <2>1, <2>2, <2>3, WidgetTypes DEF D!PlacedWidgets
  <2> QED BY <2>2, <2>3, <2>4
<1>3. DOMAIN new = 1 .. Len(ws) /\ new = [i \in 1 .. Len(ws) |-> new[i]]
  BY <1>1 DEF Moved
<1> HIDE DEF new
<1>4. new \in Seq(D!PlacedWidgets)
  <2>1. new \in [1 .. Len(ws) -> D!PlacedWidgets]
    BY <1>1, <1>2, <1>3
  <2> QED BY <1>1, <2>1
<1>5. OwnId(new)
  BY <1>1, <1>2, <1>3 DEF OwnId, Loose
<1>6. D!Ids(new) = D!Ids(ws)
  <2>1. \A i \in 1 .. Len(ws) : new[i].id = ws[i].id
    BY <1>1, <1>2
  <2> QED BY <1>1, <1>3, <2>1 DEF D!Ids
<1>7. Loose(new)
  BY <1>1, <1>2, <1>3, <1>4, <1>5 DEF Loose
<1> QED BY <1>6, <1>7 DEF new

\* Widgets where a grid that is wide enough has them: the widgets of the page.
At(ws, g) == [i \in DOMAIN ws |-> LET b == g[ws[i].id]
                                  IN  [ws[i] EXCEPT !.x = b.x, !.y = b.y, !.w = b.w, !.h = b.h]]

LEMMA AtLoose ==
  ASSUME NEW ws, Loose(ws), NEW g, GridOK(D!Ids(ws), g)
  PROVE  /\ Loose(At(ws, g)) /\ D!Ids(At(ws, g)) = D!Ids(ws) /\ DOMAIN At(ws, g) = DOMAIN ws
<1> DEFINE box == [i \in DOMAIN ws |-> g[ws[i].id]]
           new == At(ws, g)
<1>1. \A i \in DOMAIN ws : box[i] = g[ws[i].id]
  OBVIOUS
<1> HIDE DEF box
<1>2. ASSUME NEW i \in DOMAIN ws
      PROVE  /\ box[i].x \in Nat /\ box[i].y \in Nat /\ box[i].w \in Nat /\ box[i].h \in Nat
             /\ box[i].w >= MinW(ws[i].type)
  <2>1. ws[i] \in D!PlacedWidgets /\ ws[i].id \in D!Ids(ws)
    BY DEF D!Ids, Loose
  <2>2. ws[i].id[1] = ws[i].type
    BY <2>1, WidgetTypes
  <2> QED BY <1>1, <2>1, <2>2 DEF GridOK
<1>3. ASSUME NEW i \in DOMAIN ws
      PROVE  new[i] = [id |-> ws[i].id, type |-> ws[i].type, x |-> box[i].x, y |-> box[i].y,
                       w |-> box[i].w, h |-> box[i].h, config |-> ws[i].config]
  <2>1. new[i] = [ws[i] EXCEPT !.x = box[i].x, !.y = box[i].y, !.w = box[i].w, !.h = box[i].h]
    BY <1>1 DEF At
  <2>2. ws[i] \in D!PlacedWidgets
    BY DEF Loose
  <2> HIDE DEF new
  <2> QED BY <2>1, <2>2, WidgetTypes
<1>4. DOMAIN new = DOMAIN ws /\ new \in [DOMAIN ws -> {new[i] : i \in DOMAIN ws}]
  BY DEF At
<1> HIDE DEF new
<1>5. new = Moved(ws, box)
  BY <1>3, <1>4 DEF Moved
<1>6. Loose(new) /\ D!Ids(new) = D!Ids(ws)
  BY <1>2, <1>5, MovedLoose
<1> QED BY <1>4, <1>6 DEF new

\* What the grid shows of widgets it is given, once packed, is where the page puts its own.
LEMMA ShownGood ==
  ASSUME NEW ws, Loose(ws), NEW t, Good(t), D!Ids(t) = D!Ids(ws)
  PROVE  Good(At(ws, D!Boxes(t)))
<1> DEFINE g == D!Boxes(t)
           new == At(ws, g)
<1>1. Loose(t) /\ GridOK(D!Ids(ws), g)
  BY GoodIsLoose, BoxesGridOK
<1>2. Loose(new) /\ DOMAIN new = DOMAIN ws
  BY <1>1, AtLoose
<1>3. \A k \in DOMAIN t : g[t[k].id] = D!Box(t[k])
  BY <1>1, BoxesAre
<1>4. ASSUME NEW i \in DOMAIN ws
      PROVE  \E k \in DOMAIN t : /\ t[k].id = new[i].id
                                 /\ new[i].x = t[k].x /\ new[i].y = t[k].y
                                 /\ new[i].w = t[k].w /\ new[i].h = t[k].h
  <2>1. ws[i].id \in D!Ids(t)
    BY DEF D!Ids
  <2>2. PICK k \in DOMAIN t : t[k].id = ws[i].id
    BY <2>1 DEF D!Ids
  <2>3. g[ws[i].id] = [x |-> t[k].x, y |-> t[k].y, w |-> t[k].w, h |-> t[k].h]
    BY <1>3, <2>2 DEF D!Box
  <2>4. new[i] = [ws[i] EXCEPT !.x = g[ws[i].id].x, !.y = g[ws[i].id].y, !.w = g[ws[i].id].w,
                               !.h = g[ws[i].id].h]
    BY DEF At
  <2>5. ws[i] \in D!PlacedWidgets
    BY DEF Loose
  <2>7. /\ g[ws[i].id].x = t[k].x /\ g[ws[i].id].y = t[k].y
        /\ g[ws[i].id].w = t[k].w /\ g[ws[i].id].h = t[k].h
    BY <2>3
  <2> HIDE DEF new, g
  <2>6. new[i] = [id |-> ws[i].id, type |-> ws[i].type, x |-> t[k].x, y |-> t[k].y,
                  w |-> t[k].w, h |-> t[k].h, config |-> ws[i].config]
    BY <2>4, <2>5, <2>7, WidgetTypes
  <2> QED BY <2>2, <2>6
<1> HIDE DEF g, new
<1>5. ASSUME NEW i \in DOMAIN new
      PROVE  new[i].x + new[i].w <= D!COLUMNS /\ new[i].w >= WIDGET_SIZES[new[i].type].minW
  <2>1. PICK k \in DOMAIN t : new[i].x = t[k].x /\ new[i].w = t[k].w
    BY <1>2, <1>4
  <2>2. t[k].x + t[k].w <= D!COLUMNS
    BY DEF Good, D!Fit
  <2> QED BY <1>2, <2>1, <2>2 DEF Loose, MinW
<1>6. ASSUME NEW i \in DOMAIN new, NEW j \in DOMAIN new, i # j
      PROVE  new[i].id # new[j].id /\ D!Apart(new[i], new[j])
  <2>1. PICK k \in DOMAIN t : /\ t[k].id = new[i].id
                              /\ new[i].x = t[k].x /\ new[i].y = t[k].y
                              /\ new[i].w = t[k].w /\ new[i].h = t[k].h
    BY <1>2, <1>4
  <2>2. PICK l \in DOMAIN t : /\ t[l].id = new[j].id
                              /\ new[j].x = t[l].x /\ new[j].y = t[l].y
                              /\ new[j].w = t[l].w /\ new[j].h = t[l].h
    BY <1>2, <1>4
  <2>3. new[i].id # new[j].id
    BY <1>2, <1>6 DEF Loose, OwnId
  <2>4. k # l
    BY <2>1, <2>2, <2>3
  <2>5. D!Apart(t[k], t[l])
    BY <2>4 DEF Good, D!Fit
  <2> QED BY <2>1, <2>2, <2>3, <2>5 DEF D!Apart
<1>7. Good(new)
  <2>1. new \in Seq(D!PlacedWidgets)
    BY <1>2 DEF Loose
  <2> QED BY <1>5, <1>6, <2>1 DEF Good, D!Fit
<1> QED BY <1>7 DEF new, g

-----------------------------------------------------------------------------
(* The overview. *)

\* What is stored, shown and about to be stored, and the grid of what is shown.
StoredOK == stored = None \/ D!IsSaved(stored)
PageOK == overview # None => Good(overview) /\ GridOK(D!Ids(overview), grid)
DashInv == StoredOK /\ PageOK /\ (pending # None => Good(pending))

LEMMA CommitKeeps ==
  ASSUME D!DashConstants, DashInv, overview # None, NEW ws, Good(ws), D!Commit(ws)
  PROVE  DashInv'
<1>1. overview' = ws /\ pending' = ws /\ stored' = stored
  BY DEF D!Commit, D!commitLayout
<1>2. grid' = IF D!Ids(ws) = D!Ids(overview) THEN grid ELSE D!Boxes(ws)
  BY DEF D!Commit, D!Rebuilt
<1>3. GridOK(D!Ids(ws), D!Boxes(ws))
  BY GoodIsLoose, BoxesGridOK
<1>4. GridOK(D!Ids(ws), grid')
  BY <1>2, <1>3 DEF DashInv, PageOK
<1>5. StoredOK'
  BY <1>1 DEF StoredOK, DashInv
<1>6. Good(overview)' /\ GridOK(D!Ids(overview), grid)'
  <2>1. Good(overview)'
    BY <1>1
  <2>2. GridOK(D!Ids(overview), grid)'
    BY <1>1, <1>4
  <2> QED BY <2>1, <2>2
<1>7. PageOK' /\ (pending' # None => Good(pending'))
  BY <1>1, <1>6 DEF PageOK
<1> QED BY <1>5, <1>7 DEF DashInv

LEMMA GridKeeps ==
  ASSUME D!DashConstants, DashInv, overview # None, NEW ws, Loose(ws), D!Ids(ws) = D!Ids(overview),
         D!GridMoves(ws)
  PROVE  DashInv'
<1> DEFINE t == D!tidyLayout(ws)
           boxes == D!Boxes(t)
<1>1. Good(t) /\ D!Ids(t) = D!Ids(overview)
  BY TidyGood
<1>2. Good(overview) /\ Loose(overview) /\ GridOK(D!Ids(overview), grid)
  BY GoodIsLoose DEF DashInv, PageOK
<1>3. GridOK(D!Ids(overview), boxes) /\ Good(At(overview, boxes)) /\ D!Ids(At(overview, boxes)) = D!Ids(overview)
  <2>1. GridOK(D!Ids(overview), boxes)
    BY <1>1, GoodIsLoose, BoxesGridOK
  <2>2. Good(At(overview, boxes))
    BY <1>1, <1>2, ShownGood
  <2> HIDE DEF boxes
  <2>3. D!Ids(At(overview, boxes)) = D!Ids(overview)
    BY <1>2, <2>1, AtLoose
  <2> QED BY <2>1, <2>2, <2>3
<1>4. stored' = stored
  BY DEF D!GridMoves
<1>5. \/ wide /\ grid' = boxes
      \/ ~wide /\ grid' = grid
  <2>1. wide => D!Shown(ws) = boxes
    BY DEF D!Shown
  <2> QED BY <2>1 DEF D!GridMoves
<1>6. \/ overview' = overview /\ pending' = pending
      \/ wide /\ overview' = At(overview, boxes) /\ pending' = overview'
  <2>1. CASE wide
    <3>1. D!Shown(ws) = boxes
      BY <2>1 DEF D!Shown
    <3>2. D!Report(D!Shown(ws))
      BY DEF D!GridMoves
    <3> HIDE DEF boxes
    <3>3. D!applyGridChange(boxes)
      BY <2>1, <3>1, <3>2 DEF D!Report
    <3>4. \/ UNCHANGED <<overview, pending>>
          \/ D!commitLayout(At(overview, boxes))
      BY <3>3 DEF D!applyGridChange, At
    <3> QED BY <2>1, <3>4 DEF D!commitLayout
  <2>2. CASE ~wide
    BY <2>2 DEF D!GridMoves, D!Report
  <2> QED BY <2>1, <2>2
<1> HIDE DEF boxes
<1>7. StoredOK'
  BY <1>4 DEF StoredOK, DashInv
<1>8. overview' # None => Good(overview') /\ GridOK(D!Ids(overview'), grid')
  <2>1. CASE overview' = overview
    BY <1>2, <1>3, <1>5, <2>1
  <2>2. CASE wide /\ overview' = At(overview, boxes)
    <3>1. grid' = boxes
      BY <1>5, <2>2
    <3> QED BY <1>3, <2>2, <3>1
  <2> QED BY <1>6, <2>1, <2>2
<1>9. pending' # None => Good(pending')
  BY <1>3, <1>6 DEF DashInv
<1>10. PageOK'
  BY <1>8 DEF PageOK
<1> QED BY <1>7, <1>9, <1>10 DEF DashInv

LEMMA ShownLoose ==
  ASSUME DashInv, overview # None
  PROVE  Loose(D!AsShown) /\ D!Ids(D!AsShown) = D!Ids(overview)
         /\ DOMAIN D!AsShown = 1 .. Len(overview) /\ Len(overview) \in Nat
<1>1. Good(overview) /\ Loose(overview) /\ GridOK(D!Ids(overview), grid)
  BY GoodIsLoose DEF DashInv, PageOK
<1>2. D!AsShown = At(overview, grid)
  BY DEF D!AsShown, At
<1>3. DOMAIN overview = 1 .. Len(overview) /\ Len(overview) \in Nat
  BY <1>1 DEF Loose
<1> QED BY <1>1, <1>2, <1>3, AtLoose

LEMMA DragKeeps ==
  ASSUME D!DashConstants, DashInv, overview # None, D!Drag
  PROVE  DashInv'
<1> DEFINE A == D!AsShown
<1>1. Loose(A) /\ D!Ids(A) = D!Ids(overview) /\ DOMAIN A = 1 .. Len(overview) /\ Len(overview) \in Nat
  BY ShownLoose
<1>2. PICK i \in 1 .. Len(overview) - 1 :
        D!GridMoves([A EXCEPT ![i].y = A[i + 1].y, ![i + 1].y = A[i].y,
                              ![i].x = A[i + 1].x, ![i + 1].x = A[i].x])
  BY DEF D!Drag
<1> HIDE DEF A
<1>3. i \in DOMAIN A /\ i + 1 \in DOMAIN A /\ i # i + 1
  BY <1>1
<1> DEFINE from == [k \in DOMAIN A |-> IF k = i THEN i + 1 ELSE IF k = i + 1 THEN i ELSE k]
           box == [k \in DOMAIN A |-> [x |-> A[from[k]].x, y |-> A[from[k]].y, w |-> A[k].w, h |-> A[k].h]]
           new == [A EXCEPT ![i].y = A[i + 1].y, ![i + 1].y = A[i].y,
                            ![i].x = A[i + 1].x, ![i + 1].x = A[i].x]
<1>4. \A k \in DOMAIN A : A[k] \in D!PlacedWidgets /\ A[k].w >= MinW(A[k].type)
  BY <1>1 DEF Loose
<1>5. \A k \in DOMAIN A : from[k] \in DOMAIN A
  BY <1>3
<1>6. \A k \in DOMAIN A : /\ box[k].x = A[from[k]].x /\ box[k].y = A[from[k]].y
                          /\ box[k].w = A[k].w /\ box[k].h = A[k].h
  OBVIOUS
<1>7. new = Moved(A, box)
  <2>1. DOMAIN new = DOMAIN A /\ new \in [DOMAIN A -> {new[k] : k \in DOMAIN A}]
    BY <1>3
  <2>2. ASSUME NEW k \in DOMAIN A
        PROVE  new[k] = [id |-> A[k].id, type |-> A[k].type, x |-> box[k].x, y |-> box[k].y,
                         w |-> box[k].w, h |-> box[k].h, config |-> A[k].config]
    <3>1. A[k] = [id |-> A[k].id, type |-> A[k].type, x |-> A[k].x, y |-> A[k].y, w |-> A[k].w,
                  h |-> A[k].h, config |-> A[k].config]
      BY <1>4, WidgetTypes
    <3>2. new[k] = [id |-> A[k].id, type |-> A[k].type, x |-> A[from[k]].x, y |-> A[from[k]].y, w |-> A[k].w,
                    h |-> A[k].h, config |-> A[k].config]
      <4>1. CASE k = i
        BY <1>3, <3>1, <4>1
      <4>2. CASE k = i + 1
        BY <1>3, <3>1, <4>2
      <4>3. CASE k # i /\ k # i + 1
        BY <1>3, <3>1, <4>3
      <4> QED BY <4>1, <4>2, <4>3
    <3> QED BY <1>6, <3>2
  <2> HIDE DEF new, box
  <2> QED BY <2>1, <2>2 DEF Moved
<1>8. D!GridMoves(new)
  BY <1>2
<1> HIDE DEF new, from, box
<1>9. \A k \in DOMAIN A : /\ box[k].x \in Nat /\ box[k].y \in Nat /\ box[k].w \in Nat /\ box[k].h \in Nat
                          /\ box[k].w >= MinW(A[k].type)
  BY <1>4, <1>5, <1>6, WidgetTypes
<1>10. Loose(new) /\ D!Ids(new) = D!Ids(overview)
  BY <1>1, <1>7, <1>9, MovedLoose
<1> QED BY <1>8, <1>10, GridKeeps

\* A widget given a width or a height of its own.
LEMMA SizedKeeps ==
  ASSUME D!DashConstants, DashInv, overview # None, NEW i \in DOMAIN overview,
         NEW w \in Nat, w >= MinW(overview[i].type), NEW h \in Nat,
         \/ D!GridMoves([D!AsShown EXCEPT ![i].w = w])
         \/ D!GridMoves([D!AsShown EXCEPT ![i].h = h])
  PROVE  DashInv'
<1> DEFINE A == D!AsShown
<1>1. Loose(A) /\ D!Ids(A) = D!Ids(overview) /\ DOMAIN A = DOMAIN overview
  BY ShownLoose DEF D!AsShown
<1>2. A[i].type = overview[i].type
  <2>1. A[i] = [overview[i] EXCEPT !.x = grid[overview[i].id].x, !.y = grid[overview[i].id].y,
                                   !.w = grid[overview[i].id].w, !.h = grid[overview[i].id].h]
    BY DEF D!AsShown
  <2>2. overview[i] \in D!PlacedWidgets
    BY DEF DashInv, PageOK, Good
  <2>3. overview[i] = [id |-> overview[i].id, type |-> overview[i].type, x |-> overview[i].x,
                       y |-> overview[i].y, w |-> overview[i].w, h |-> overview[i].h,
                       config |-> overview[i].config]
    BY <2>2, WidgetTypes
  <2> HIDE DEF A
  <2> QED BY <2>1, <2>3 DEF A
<1>3. D!GridMoves([A EXCEPT ![i].w = w]) \/ D!GridMoves([A EXCEPT ![i].h = h])
  OBVIOUS
<1> HIDE DEF A
<1>4. \A k \in DOMAIN A : A[k] \in D!PlacedWidgets /\ A[k].w >= MinW(A[k].type)
  BY <1>1 DEF Loose
<1>5. \A k \in DOMAIN A : A[k] = [id |-> A[k].id, type |-> A[k].type, x |-> A[k].x, y |-> A[k].y,
                                  w |-> A[k].w, h |-> A[k].h, config |-> A[k].config]
  BY <1>4, WidgetTypes
<1> DEFINE wider == [k \in DOMAIN A |-> [x |-> A[k].x, y |-> A[k].y, w |-> IF k = i THEN w ELSE A[k].w,
                                         h |-> A[k].h]]
           higher == [k \in DOMAIN A |-> [x |-> A[k].x, y |-> A[k].y, w |-> A[k].w,
                                          h |-> IF k = i THEN h ELSE A[k].h]]
<1>6. [A EXCEPT ![i].w = w] = Moved(A, wider)
  <2> DEFINE new == [A EXCEPT ![i].w = w]
  <2>1. new = [k \in DOMAIN A |-> new[k]]
    BY <1>1
  <2>2. ASSUME NEW k \in DOMAIN A
        PROVE  new[k] = [id |-> A[k].id, type |-> A[k].type, x |-> wider[k].x, y |-> wider[k].y,
                         w |-> wider[k].w, h |-> wider[k].h, config |-> A[k].config]
    <3>1. CASE k = i
      BY <1>1, <1>5, <3>1
    <3>2. CASE k # i
      BY <1>1, <1>5, <3>2
    <3> QED BY <3>1, <3>2
  <2> HIDE DEF new, wider
  <2>3. new = Moved(A, wider)
    BY <2>1, <2>2 DEF Moved
  <2> QED BY <2>3 DEF new
<1>7. [A EXCEPT ![i].h = h] = Moved(A, higher)
  <2> DEFINE new == [A EXCEPT ![i].h = h]
  <2>1. new = [k \in DOMAIN A |-> new[k]]
    BY <1>1
  <2>2. ASSUME NEW k \in DOMAIN A
        PROVE  new[k] = [id |-> A[k].id, type |-> A[k].type, x |-> higher[k].x, y |-> higher[k].y,
                         w |-> higher[k].w, h |-> higher[k].h, config |-> A[k].config]
    <3>1. CASE k = i
      BY <1>1, <1>5, <3>1
    <3>2. CASE k # i
      BY <1>1, <1>5, <3>2
    <3> QED BY <3>1, <3>2
  <2> HIDE DEF new, higher
  <2>3. new = Moved(A, higher)
    BY <2>1, <2>2 DEF Moved
  <2> QED BY <2>3 DEF new
<1>8. \A k \in DOMAIN A : /\ wider[k].x \in Nat /\ wider[k].y \in Nat /\ wider[k].w \in Nat /\ wider[k].h \in Nat
                          /\ wider[k].w >= MinW(A[k].type)
  BY <1>2, <1>4, WidgetTypes
<1>9. \A k \in DOMAIN A : /\ higher[k].x \in Nat /\ higher[k].y \in Nat /\ higher[k].w \in Nat /\ higher[k].h \in Nat
                          /\ higher[k].w >= MinW(A[k].type)
  BY <1>4, WidgetTypes
<1> HIDE DEF wider, higher
<1>10. /\ Loose(Moved(A, wider)) /\ D!Ids(Moved(A, wider)) = D!Ids(overview)
       /\ Loose(Moved(A, higher)) /\ D!Ids(Moved(A, higher)) = D!Ids(overview)
  BY <1>1, <1>8, <1>9, MovedLoose
<1> QED BY <1>3, <1>6, <1>7, <1>10, GridKeeps

\* The size buttons never ask for less than the least width.
LEMMA PresetWidths ==
  ASSUME D!DashConstants, NEW type \in D!Types, NEW w \in D!sizePresets(type)
  PROVE  w \in Nat /\ w >= MinW(type)
<1>1. PICK v \in Presets : w = D!Min({D!Max({v, WIDGET_SIZES[type].minW}), 12})
  BY DEF D!sizePresets, D!COLUMNS
<1>2. v \in Nat /\ MinW(type) \in 1 .. 4
  BY LeastWidths DEF D!DashConstants
<1> DEFINE m == D!Max({v, MinW(type)})
<1>3. m \in Nat /\ m >= MinW(type)
  BY <1>2, LargerOfTwo
<1>5. w = D!Min({m, 12})
  BY <1>1 DEF MinW
<1> HIDE DEF m
<1>6. D!Min({m, 12}) \in {m, 12}
  BY <1>3, SmallerOfTwo
<1> QED BY <1>2, <1>3, <1>5, <1>6

LEMMA PageKeeps ==
  ASSUME D!DashConstants, DashInv, overview # None, D!Page
  PROVE  DashInv'
<1>1. Good(overview) /\ Loose(overview) /\ DOMAIN overview = 1 .. Len(overview)
  <2>1. Good(overview)
    BY DEF DashInv, PageOK
  <2>2. overview \in Seq(D!PlacedWidgets)
    BY <2>1 DEF Good
  <2> QED BY <2>1, <2>2, GoodIsLoose
<1>2. CASE D!tidy
  BY <1>1, <1>2, TidyGood, CommitKeeps DEF D!tidy
<1>3. CASE D!resetToDefault
  BY <1>3, DefaultGood, CommitKeeps DEF D!resetToDefault
<1>4. ASSUME NEW type \in D!Types, D!addWidget(type) PROVE DashInv'
  <2> DEFINE new == [id |-> D!newInstanceId(type, overview), type |-> type, x |-> 0, y |-> Bottom(overview),
                     w |-> WIDGET_SIZES[type].w, h |-> WIDGET_SIZES[type].h, config |-> None]
  <2>1. D!Commit(Append(overview, new))
    BY <1>4 DEF D!addWidget, Bottom
  <2>2. Good(Append(overview, new))
    BY <1>1, AddGood
  <2> QED BY <2>1, <2>2, CommitKeeps
<1>5. CASE D!Drag
  BY <1>5, DragKeeps
<1>6. CASE D!resizeWidget
  <2>1. PICK i \in DOMAIN overview : \E w \in D!sizePresets(overview[i].type) :
          D!GridMoves([D!AsShown EXCEPT ![i].w = w])
    BY <1>6 DEF D!resizeWidget
  <2>4. PICK w \in D!sizePresets(overview[i].type) : D!GridMoves([D!AsShown EXCEPT ![i].w = w])
    BY <2>1
  <2>2. overview[i].type \in D!Types
    BY <1>1, WidgetTypes DEF Good
  <2>3. w \in Nat /\ w >= MinW(overview[i].type)
    BY <2>2, <2>4, PresetWidths
  <2>5. 0 \in Nat
    OBVIOUS
  <2> QED BY <2>3, <2>4, <2>5, SizedKeeps
<1>7. CASE D!resizeToContent
  <2>1. PICK i \in DOMAIN overview, h \in Heights : D!GridMoves([D!AsShown EXCEPT ![i].h = h])
    BY <1>7 DEF D!resizeToContent
  <2>2. h \in Nat
    BY DEF D!DashConstants
  <2>3. overview[i].w \in Nat /\ overview[i].w >= MinW(overview[i].type)
    BY <1>1, WidgetTypes DEF Loose
  <2> QED BY <2>1, <2>2, <2>3, SizedKeeps
<1>8. ASSUME NEW i \in DOMAIN overview, D!WidgetFrame(i) PROVE DashInv'
  <2> DEFINE I == {k \in DOMAIN overview : overview[k].id # overview[i].id}
  <2>1. D!Commit(D!Those(overview, I))
    BY <1>8 DEF D!WidgetFrame, D!removeWidget
  <2>2. I \in SUBSET (DOMAIN overview)
    OBVIOUS
  <2> HIDE DEF I
  <2> QED BY <1>1, <2>1, <2>2, SomeGood, CommitKeeps
<1>9. ASSUME NEW i \in DOMAIN overview, D!setConfig(overview[i].id, "set") PROVE DashInv'
  <2> DEFINE new == [k \in DOMAIN overview |-> IF overview[k].id = overview[i].id
                                               THEN [overview[k] EXCEPT !.config = "set"] ELSE overview[k]]
  <2>1. D!Commit(new)
    BY <1>9 DEF D!setConfig
  <2>2. Good(new)
    BY <1>1, SettingsGood
  <2> HIDE DEF new
  <2> QED BY <2>1, <2>2, CommitKeeps
<1> QED BY <1>2, <1>3, <1>4, <1>5, <1>6, <1>7, <1>8, <1>9 DEF D!Page, D!Toolbar

LEMMA DashStep ==
  ASSUME D!DashConstants, DashInv, [D!Next]_(D!dashVars)
  PROVE  DashInv'
<1>1. CASE D!Open
  <2>1. /\ overview' = D!migrateLayout(stored) /\ grid' = D!Boxes(D!migrateLayout(stored))
        /\ stored' = stored /\ pending' = pending
    BY <1>1 DEF D!Open
  <2>2. Good(D!migrateLayout(stored))
    BY MigrateGood DEF DashInv, StoredOK
  <2>3. GridOK(D!Ids(D!migrateLayout(stored)), D!Boxes(D!migrateLayout(stored)))
    BY <2>2, GoodIsLoose, BoxesGridOK
  <2>4. StoredOK' /\ (pending' # None => Good(pending'))
    BY <2>1 DEF DashInv, StoredOK
  <2>5. Good(overview') /\ GridOK(D!Ids(overview'), grid')
    BY <2>1, <2>2, <2>3
  <2> QED BY <2>4, <2>5 DEF DashInv, PageOK
<1>2. CASE D!Leave
  BY <1>2 DEF D!Leave, DashInv, StoredOK, PageOK
<1>3. CASE D!TimerFires
  <2>1. pending # None /\ Good(pending) /\ pending' = None /\ overview' = overview /\ grid' = grid
    BY <1>3 DEF D!TimerFires, DashInv
  <2>2. stored' = stored \/ stored' = D!V2(pending)
    BY <1>3 DEF D!TimerFires
  <2>3. D!IsSaved(D!V2(pending))
    BY <2>1, SavedAsPlaced
  <2>4. StoredOK'
    BY <2>2, <2>3 DEF DashInv, StoredOK
  <2> QED BY <2>1, <2>4 DEF DashInv, PageOK
<1>4. CASE D!ToggleEditing
  BY <1>4 DEF D!ToggleEditing, DashInv, StoredOK, PageOK
<1>5. CASE D!Reflow
  BY <1>5 DEF D!Reflow, DashInv, StoredOK, PageOK
<1>6. CASE overview # None /\ D!Page
  BY <1>6, PageKeeps
<1>7. CASE UNCHANGED D!dashVars
  BY <1>7 DEF D!dashVars, DashInv, StoredOK, PageOK
<1> QED BY <1>1, <1>2, <1>3, <1>4, <1>5, <1>6, <1>7 DEF D!Next

\* In what a page shows, saves or will be shown when it opens, no two widgets
\* overlap or share an id, and each is inside the grid and wide enough, whatever
\* the types, their sizes and what earlier releases saved: the half of
\* LayoutsAreWhole about the overview.
THEOREM WidgetsNeverOverlap ==
  ASSUME D!DashConstants
  PROVE  D!Spec => []D!WidgetsFit
<1>1. D!Init => DashInv
  BY DEF D!Init, DashInv, StoredOK, PageOK, D!DashConstants
<1>2. DashInv /\ [D!Next]_(D!dashVars) => DashInv'
  BY DashStep
<1>3. DashInv => D!WidgetsFit
  <2> SUFFICES ASSUME DashInv PROVE D!WidgetsFit
    OBVIOUS
  <2>1. D!Fit(D!migrateLayout(stored))
    BY MigrateGood DEF DashInv, StoredOK, Good
  <2>2. overview # None => D!Fit(overview)
    BY DEF DashInv, PageOK, Good
  <2>3. pending # None => D!Fit(pending)
    BY DEF DashInv, Good
  <2> QED BY <2>1, <2>2, <2>3 DEF D!WidgetsFit
<1> QED BY <1>1, <1>2, <1>3, PTL DEF D!Spec

=============================================================================
