----------------------------- MODULE LedgerProofs -----------------------------
(***************************************************************************)
(* Proofs about Ledger, for every interleaving of any number of requests,  *)
(* over any accounts and rows: no transfer keeps one leg without the other *)
(* while its accounts exist, and no row goes that nobody asked for.        *)
(*                                                                         *)
(* A step is of one of three kinds, each with its lemma: it reads, and     *)
(* decides what a request will do (ReadStep); it inserts rows (InsertStep);*)
(* it deletes rows (RemoveStep).                                           *)
(***************************************************************************)
EXTENDS Ledger, TLAPS

Kept == [id : SUBSET Ids, ref : Refs]

\* The next step of a request is well formed when the rows it is to delete
\* are rows, meant to go, and both legs of a transfer or neither.
LEMMA ReadStep ==
  ASSUME LedgerInv, NEW h \in Handlers, NEW step \in Steps,
         NEW left \in SUBSET Used, NEW together \in SUBSET Used, NEW kept \in Kept,
         pc' = [pc EXCEPT ![h] = step], todo' = [todo EXCEPT ![h] = left],
         doomed' = [doomed EXCEPT ![h] = together], held' = [held EXCEPT ![h] = kept],
         Live' = Live, register' \in [Live -> Refs],
         UNCHANGED <<accounts, home, transfers, made>>,
         asked \subseteq asked', asked' \subseteq Used,
         step # "drop" => left \subseteq asked',
         \A t \in transfers : t.from \in together <=> t.to \in together,
         \A i \in together : \/ i \in asked'
                             \/ \E t \in made : /\ i \in {t.from, t.to}
                                               /\ {t.from, t.to} \cap asked' # {}
  PROVE  LedgerInv'
<1>1. Used' = Used
  BY DEF Used
<1>2. TypeOK'
  BY <1>1 DEF LedgerInv, TypeOK, Kept
<1>3. Paired'
  BY <1>1 DEF LedgerInv, Paired
<1>4. Together'
  BY DEF LedgerInv, TypeOK, Together
<1>5. \A i : Wanted(i) => Wanted(i)'
  BY DEF Wanted
<1>6. Meant'
  <2> SUFFICES ASSUME NEW g \in Handlers
               PROVE  /\ pc'[g] # "drop" => todo'[g] \subseteq asked'
                      /\ \A i \in doomed'[g] : Wanted(i)'
    BY DEF Meant
  <2>1. CASE g = h
    BY <2>1 DEF LedgerInv, TypeOK, Wanted
  <2>2. CASE g # h
    <3>1. pc'[g] = pc[g] /\ todo'[g] = todo[g] /\ doomed'[g] = doomed[g]
      BY <2>2 DEF LedgerInv, TypeOK
    <3> QED BY <3>1, <1>5 DEF LedgerInv, Meant
  <2> QED BY <2>1, <2>2
<1>7. NoOrphanLegs'
  BY DEF LedgerInv, NoOrphanLegs
<1>8. OnlyAskedGoes'
  BY <1>1, <1>5 DEF LedgerInv, OnlyAskedGoes
<1> QED BY <1>2, <1>3, <1>4, <1>6, <1>7, <1>8 DEF LedgerInv

\* The same, of a step that reads no pair.
LEMMA PlainStep ==
  ASSUME LedgerInv, NEW h \in Handlers, NEW step \in Steps, NEW left \in SUBSET Used, NEW kept \in Kept,
         pc' = [pc EXCEPT ![h] = step], todo' = [todo EXCEPT ![h] = left],
         doomed' = [doomed EXCEPT ![h] = {}], held' = [held EXCEPT ![h] = kept],
         Live' = Live, register' \in [Live -> Refs],
         UNCHANGED <<accounts, home, transfers, made>>,
         asked \subseteq asked', asked' \subseteq Used,
         step # "drop" => left \subseteq asked'
  PROVE  LedgerInv'
<1>1. {} \in SUBSET Used
  OBVIOUS
<1> QED BY <1>1, ReadStep

\* Rows come in with ids that nothing names yet, and with their pair.
LEMMA InsertStep ==
  ASSUME LedgerInv, NEW new \in SUBSET Ids, NEW ref \in Refs, NEW acct, NEW pairs \in SUBSET Pair,
         new \cap Used = {}, \A i \in new : acct[i] \in accounts,
         register' = [i \in Live \cup new |-> IF i \in new THEN ref ELSE register[i]],
         home' = [i \in Used \cup new |-> IF i \in new THEN acct[i] ELSE home[i]],
         \A t \in pairs : t.from # t.to /\ {t.from, t.to} = new,
         \A s, t \in pairs : s = t,
         transfers' = transfers \cup pairs, made' = made \cup pairs,
         UNCHANGED <<accounts, calls, asked>>
  PROVE  LedgerInv'
<1> USE DEF calls
<1>1. Live' = Live \cup new /\ Used' = Used \cup new /\ new \cap Used = {}
  BY DEF Live, Used
<1>2. \A i \in Used : home'[i] = home[i]
  BY <1>1 DEF Used
<1>3. \A i \in new : home'[i] \in accounts
  BY <1>1 DEF Used
<1>4. Live \subseteq Used /\ Used \subseteq Ids /\ asked \subseteq Used /\ \A h \in Handlers : doomed[h] \subseteq Used
  BY DEF LedgerInv, TypeOK
<1>5. \A t \in made : {t.from, t.to} \subseteq Used /\ {t.from, t.to} \cap new = {}
  BY <1>1 DEF LedgerInv, Paired
<1>6. TypeOK'
  <2>1. register' \in [Live' -> Refs]
    BY <1>1 DEF LedgerInv, TypeOK, Live
  <2>2. home' \in [Used' -> Accounts]
    BY <1>1, <1>2, <1>3 DEF LedgerInv, TypeOK, Used
  <2>3. /\ todo' \in [Handlers -> SUBSET Used'] /\ doomed' \in [Handlers -> SUBSET Used']
        /\ asked' \subseteq Used'
    BY <1>1 DEF LedgerInv, TypeOK
  <2>4. \A t \in transfers' : {t.from, t.to} \subseteq Live'
    BY <1>1 DEF LedgerInv, TypeOK
  <2> QED BY <1>1, <2>1, <2>2, <2>3, <2>4 DEF LedgerInv, TypeOK
<1>7. Paired'
  <2>1. \A t \in made' : t.from # t.to /\ {t.from, t.to} \subseteq Used'
    BY <1>1 DEF LedgerInv, Paired
  <2>2. \A s, t \in made' : {s.from, s.to} \cap {t.from, t.to} # {} => s = t
    BY <1>5 DEF LedgerInv, Paired
  <2>3. \A t \in made' : {t.from, t.to} \subseteq Live' => t \in transfers'
    BY <1>1, <1>5 DEF LedgerInv, Paired
  <2>4. \A i \in Live' : home'[i] \in accounts'
    BY <1>1, <1>2, <1>3, <1>4 DEF LedgerInv, Paired
  <2> QED BY <2>1, <2>2, <2>3, <2>4 DEF Paired
<1>8. Together'
  BY <1>1, <1>4 DEF LedgerInv, Together
<1>9. \A i : Wanted(i) => Wanted(i)'
  BY DEF Wanted
<1>10. Meant'
  BY <1>9 DEF LedgerInv, Meant
<1>11. NoOrphanLegs'
  <2> SUFFICES ASSUME NEW t \in made', {home'[t.from], home'[t.to]} \subseteq accounts
               PROVE  \/ {t.from, t.to} \subseteq Live' /\ t \in transfers'
                      \/ {t.from, t.to} \cap Live' = {} /\ t \notin transfers'
    BY SMTT(20) DEF NoOrphanLegs
  <2>1. CASE t \in pairs
    BY <2>1, <1>1
  <2>2. CASE t \in made /\ t \notin pairs
    <3>1. {home[t.from], home[t.to]} \subseteq accounts
      BY <2>2, <1>2, <1>5
    <3> QED BY <2>2, <3>1, <1>1, <1>5 DEF LedgerInv, NoOrphanLegs
  <2> QED BY <2>1, <2>2
<1>12. OnlyAskedGoes'
  BY <1>1, <1>2, <1>4, <1>9 DEF LedgerInv, OnlyAskedGoes
<1> QED BY <1>6, <1>7, <1>8, <1>10, <1>11, <1>12 DEF LedgerInv

\* Rows go with the other leg of their transfer, unless an account goes.
LEMMA RemoveStep ==
  ASSUME LedgerInv, NEW gone \in SUBSET Used, Remove(gone),
         accounts' \subseteq accounts, UNCHANGED asked,
         \A t \in transfers : {home[t.from], home[t.to]} \subseteq accounts' =>
           (t.from \in gone <=> t.to \in gone),
         \A i \in Live \ gone : home[i] \in accounts',
         \A i \in gone : home[i] \in accounts' => Wanted(i),
         pc' \in [Handlers -> Steps], todo' \in [Handlers -> SUBSET Used],
         doomed' \in [Handlers -> SUBSET Used], held' \in [Handlers -> Kept],
         \A h \in Handlers : /\ doomed'[h] = doomed[h] \/ doomed'[h] = {}
                             /\ pc'[h] # "drop" => todo'[h] \subseteq asked
  PROVE  LedgerInv'
<1>1. Live' = Live \ gone /\ Used' = Used /\ home' = home /\ made' = made
  BY DEF Remove, Live, Used
<1>2. \A t \in transfers : t \in transfers' <=> {t.from, t.to} \cap gone = {}
  BY DEF Remove
<1>3. transfers' \subseteq transfers
  BY DEF Remove
<1>4. TypeOK'
  <2>1. register' \in [Live' -> Refs]
    BY <1>1 DEF LedgerInv, TypeOK, Remove, Live
  <2>2. \A t \in transfers' : {t.from, t.to} \subseteq Live'
    BY <1>1, <1>2, <1>3 DEF LedgerInv, TypeOK
  <2> QED BY <1>1, <1>3, <2>1, <2>2 DEF LedgerInv, TypeOK, Kept
<1>5. Paired'
  BY <1>1, <1>2 DEF LedgerInv, Paired
<1>6. Together'
  BY <1>3 DEF LedgerInv, Together
<1>7. \A i : Wanted(i) => Wanted(i)'
  BY <1>1 DEF Wanted
<1>8. Meant'
  BY <1>7 DEF LedgerInv, Meant
<1>9. NoOrphanLegs'
  <2> SUFFICES ASSUME NEW t \in made, {home[t.from], home[t.to]} \subseteq accounts'
               PROVE  \/ {t.from, t.to} \subseteq Live' /\ t \in transfers'
                      \/ {t.from, t.to} \cap Live' = {} /\ t \notin transfers'
    BY <1>1 DEF NoOrphanLegs
  <2>1. \/ {t.from, t.to} \subseteq Live /\ t \in transfers
        \/ {t.from, t.to} \cap Live = {} /\ t \notin transfers
    BY DEF LedgerInv, NoOrphanLegs
  <2> QED BY <2>1, <1>1, <1>2, <1>3
<1>10. OnlyAskedGoes'
  BY <1>1, <1>7 DEF LedgerInv, OnlyAskedGoes
<1> QED BY <1>4, <1>5, <1>6, <1>8, <1>9, <1>10 DEF LedgerInv

\* A transfer's legs are twins of each other, and of nothing else.
LEMMA TwinsTogether ==
  ASSUME LedgerInv, NEW id \in Ids
  PROVE  /\ Twin(id) \subseteq Used
         /\ \A t \in transfers : t.from \in {id} \cup Twin(id) <=> t.to \in {id} \cup Twin(id)
         /\ \A i \in Twin(id) : id \in asked => Wanted(i)
<1>1. \A t \in transfers : t \in made /\ t.from \in Ids /\ t.to \in Ids /\ {t.from, t.to} \subseteq Used
  BY DEF LedgerInv, TypeOK, Paired, Pair
<1>2. \A i \in Twin(id) : \E t \in transfers : {i, id} = {t.from, t.to}
  BY DEF Twin
<1>3. \A t \in transfers : id = t.from => t.to \in Twin(id)
  BY <1>1 DEF Twin
<1>4. \A t \in transfers : id = t.to => t.from \in Twin(id)
  BY <1>1 DEF Twin
<1>5. \A t \in transfers : t.from \in Twin(id) => t.to \in {id} \cup Twin(id)
  BY <1>1, <1>2, <1>3, <1>4, ZenonT(40) DEF LedgerInv, Paired
<1>6. \A t \in transfers : t.to \in Twin(id) => t.from \in {id} \cup Twin(id)
  <2> SUFFICES ASSUME NEW t \in transfers, t.to \in Twin(id) PROVE t.from \in {id} \cup Twin(id)
    OBVIOUS
  <2>1. PICK s \in transfers : {t.to, id} = {s.from, s.to}
    BY <1>2
  <2>2. s = t
    BY <1>1, <2>1 DEF LedgerInv, Paired
  <2> QED BY <1>1, <1>4, <2>1, <2>2
<1>7. \A i \in Twin(id) : id \in asked => Wanted(i)
  BY <1>1, <1>2 DEF Wanted
<1> QED BY <1>1, <1>2, <1>3, <1>4, <1>5, <1>6, <1>7

LEMMA LedgerInit == Init => LedgerInv
<1> SUFFICES ASSUME Init PROVE LedgerInv
  OBVIOUS
<1>1. Live = {} /\ Used = {}
  BY DEF Init, Live, Used
<1>2. TypeOK
  BY <1>1 DEF Init, TypeOK, Steps, NoHeld, Refs, Live, Used
<1> QED BY <1>1, <1>2 DEF Init, LedgerInv, Paired, Together, Meant, NoOrphanLegs, OnlyAskedGoes

LEMMA LedgerNext == LedgerInv /\ [Next]_vars => LedgerInv'
<1> SUFFICES ASSUME LedgerInv, [Next]_vars PROVE LedgerInv'
  OBVIOUS
<1> USE DEF Steps, Kept, Refs
<1>0. /\ NoHeld \in Kept
      /\ Live \subseteq Used /\ Used \subseteq Ids
      /\ UNCHANGED tables => /\ Live' = Live /\ register' \in [Live -> Refs]
                             /\ UNCHANGED <<accounts, home, transfers, made>>
  BY DEF NoHeld, LedgerInv, TypeOK, Live, tables
<1>1. ASSUME NEW id \in Ids, NEW a \in Accounts, NEW ref \in Refs, Create(id, a, ref)
      PROVE  LedgerInv'
  <2>1. /\ {id} \in SUBSET Ids /\ {} \in SUBSET Pair
        /\ transfers' = transfers \cup {} /\ made' = made \cup {}
    BY <1>1 DEF Create
  <2> QED BY <1>1, <2>1, InsertStep DEF Create, Insert
<1>2. ASSUME NEW from \in Ids, NEW to \in Ids, NEW a \in Accounts, NEW b \in Accounts,
             CreateTransfer(from, to, a, b)
      PROVE  LedgerInv'
  <2> DEFINE pairs == {[from |-> from, to |-> to]}
  <2>1. pairs \in SUBSET Pair /\ \A s, t \in pairs : s = t
    BY DEF Pair
  <2>2. \A t \in pairs : t.from # t.to /\ {t.from, t.to} = {from, to}
    BY <1>2 DEF CreateTransfer
  <2> HIDE DEF pairs
  <2>3. transfers' = transfers \cup pairs /\ made' = made \cup pairs
    BY <1>2 DEF CreateTransfer, pairs
  <2> DEFINE acct == [i \in {from, to} |-> IF i = from THEN a ELSE b]
  <2>4. /\ {from, to} \cap Used = {} /\ \A i \in {from, to} : acct[i] \in accounts
        /\ register' = [i \in Live \cup {from, to} |-> IF i \in {from, to} THEN "none" ELSE register[i]]
        /\ home' = [i \in Used \cup {from, to} |-> IF i \in {from, to} THEN acct[i] ELSE home[i]]
        /\ UNCHANGED <<accounts, calls, asked>>
    BY <1>2 DEF CreateTransfer, Insert
  <2>5. {from, to} \in SUBSET Ids /\ "none" \in Refs
    OBVIOUS
  <2> HIDE DEF acct
  <2> QED BY <2>1, <2>2, <2>3, <2>4, <2>5, InsertStep
<1>3. ASSUME NEW h \in Handlers, NEW ids \in SUBSET Ids, AskDelete(h, ids)
      PROVE  LedgerInv'
  BY <1>3, <1>0, PlainStep DEF AskDelete, Goto, LedgerInv, TypeOK
<1>4. ASSUME NEW h \in Handlers, ReadPair(h)
      PROVE  LedgerInv'
  <2>1. PICK id \in todo[h] : Goto(h, "rows", todo[h] \ {id}, {id} \cup Twin(id), NoHeld)
    BY <1>4 DEF ReadPair
  <2>2. id \in Used /\ todo[h] \subseteq Used /\ todo[h] \subseteq asked
    BY <1>4 DEF ReadPair, LedgerInv, TypeOK, Meant
  <2>3. UNCHANGED <<tables, asked>>
    BY <1>4 DEF ReadPair
  <2>4. \A i \in {id} \cup Twin(id) :
          i \in asked' \/ \E t \in made : i \in {t.from, t.to} /\ {t.from, t.to} \cap asked' # {}
    BY <1>0, <2>2, <2>3, TwinsTogether DEF Wanted
  <2>5. /\ {id} \cup Twin(id) \in SUBSET Used
        /\ \A t \in transfers : t.from \in {id} \cup Twin(id) <=> t.to \in {id} \cup Twin(id)
    BY <1>0, <2>2, TwinsTogether
  <2> QED BY <1>0, <2>1, <2>2, <2>3, <2>4, <2>5, ReadStep DEF Goto, LedgerInv, TypeOK
<1>5. ASSUME NEW h \in Handlers, DeleteRows(h)
      PROVE  LedgerInv'
  <2>1. Remove(doomed[h]) /\ UNCHANGED <<accounts, asked>> /\ doomed[h] \in SUBSET Used
    BY <1>5 DEF DeleteRows, LedgerInv, TypeOK
  <2>2. \E step \in {"idle", "pair"} : Goto(h, step, todo[h], {}, NoHeld)
    BY <1>5 DEF DeleteRows, Done
  <2>3. todo[h] \subseteq asked
    BY <1>5 DEF DeleteRows, LedgerInv, Meant
  <2>4. /\ pc' \in [Handlers -> Steps] /\ todo' \in [Handlers -> SUBSET Used]
        /\ doomed' \in [Handlers -> SUBSET Used] /\ held' \in [Handlers -> Kept]
    BY <1>0, <2>2 DEF LedgerInv, TypeOK, Goto
  <2>5. \A g \in Handlers : /\ doomed'[g] = doomed[g] \/ doomed'[g] = {}
                            /\ pc'[g] # "drop" => todo'[g] \subseteq asked
    BY <2>2, <2>3 DEF LedgerInv, TypeOK, Meant, Goto
  <2> QED BY <2>1, <2>4, <2>5, RemoveStep DEF LedgerInv, Paired, Together, Meant
<1>6. ASSUME NEW h \in Handlers, NEW t \in Pair, AskDeleteTransfer(h, t)
      PROVE  LedgerInv'
  <2>1. t \in made /\ {t.from, t.to} \subseteq Used
    BY <1>6 DEF AskDeleteTransfer, LedgerInv, TypeOK, Paired
  <2>2. \A s \in transfers : s.from \in {t.from, t.to} <=> s.to \in {t.from, t.to}
    BY <2>1 DEF LedgerInv, TypeOK, Paired
  <2>3. \A i \in {t.from, t.to} : i \in asked'
    BY <1>6 DEF AskDeleteTransfer
  <2> QED BY <1>6, <1>0, <2>1, <2>2, <2>3, ReadStep DEF AskDeleteTransfer, Goto, LedgerInv, TypeOK
<1>7. ASSUME NEW a \in Accounts, DeleteAccount(a)
      PROVE  LedgerInv'
  <2> DEFINE gone == { i \in Live : home[i] = a }
  <2>1. Remove(gone) /\ accounts' = accounts \ {a} /\ UNCHANGED <<calls, asked>>
    BY <1>7 DEF DeleteAccount
  <2>2. \A t \in transfers : {home[t.from], home[t.to]} \subseteq accounts' =>
          (t.from \in gone <=> t.to \in gone)
    BY <2>1
  <2>3. \A i \in Live \ gone : home[i] \in accounts'
    BY <2>1 DEF LedgerInv, Paired
  <2>4. \A i \in gone : home[i] \notin accounts'
    BY <2>1
  <2> QED BY <1>0, <2>1, <2>2, <2>3, <2>4, RemoveStep DEF calls, LedgerInv, TypeOK, Meant
<1>8. ASSUME NEW h \in Handlers, NEW keep \in Ids, NEW drop \in Ids, AskMerge(h, keep, drop)
      PROVE  LedgerInv'
  <2>1. [id |-> {keep}, ref |-> register[keep]] \in Kept
    BY <1>8 DEF AskMerge, LedgerInv, TypeOK
  <2>2. drop \in Used /\ {drop} \in SUBSET Used
    BY <1>8 DEF AskMerge
  <2> QED BY <1>8, <1>0, <2>1, <2>2, PlainStep DEF AskMerge, Goto, LedgerInv, TypeOK
<1>9. ASSUME NEW h \in Handlers, MergeRead(h)
      PROVE  LedgerInv'
  <2>1. UNCHANGED tables
    BY <1>9 DEF MergeRead
  <2>2. CASE Done(h) /\ UNCHANGED asked
    BY <1>0, <2>1, <2>2, PlainStep DEF Done, Goto, LedgerInv, TypeOK
  <2>3. CASE ~(Done(h) /\ UNCHANGED asked)
    <3>1. PICK drop \in todo[h] :
            /\ drop \in Live /\ asked' = asked \cup {drop}
            /\ IF held[h].ref = "none" /\ register[drop] # "none"
                 THEN Goto(h, "inherit", {drop}, {}, [id |-> held[h].id, ref |-> register[drop]])
                 ELSE Goto(h, "pair", {drop}, {}, NoHeld)
      BY <1>9, <2>3 DEF MergeRead
    <3>2. [id |-> held[h].id, ref |-> register[drop]] \in Kept
      BY <3>1 DEF LedgerInv, TypeOK
    <3>3. drop \in Used /\ asked' \subseteq Used
      BY <3>1 DEF LedgerInv, TypeOK
    <3>4. {drop} \in SUBSET Used /\ {drop} \subseteq asked' /\ asked \subseteq asked'
      BY <3>1, <3>3
    <3>5. CASE held[h].ref = "none" /\ register[drop] # "none"
      <4> DEFINE kept == [id |-> held[h].id, ref |-> register[drop]]
      <4>1. /\ pc' = [pc EXCEPT ![h] = "inherit"] /\ todo' = [todo EXCEPT ![h] = {drop}]
            /\ doomed' = [doomed EXCEPT ![h] = {}] /\ held' = [held EXCEPT ![h] = kept]
        BY <3>1, <3>5 DEF Goto
      <4>2. kept \in Kept
        BY <3>2
      <4> HIDE DEF kept
      <4> QED BY <1>0, <2>1, <3>3, <3>4, <4>1, <4>2, PlainStep
    <3>6. CASE ~(held[h].ref = "none" /\ register[drop] # "none")
      BY <1>0, <2>1, <3>1, <3>3, <3>4, <3>6, PlainStep DEF Goto
    <3> QED BY <3>5, <3>6
  <2> QED BY <2>2, <2>3
<1>10. ASSUME NEW h \in Handlers, Inherit(h)
       PROVE  LedgerInv'
  <2>1. Live' = Live /\ register' \in [Live -> Refs]
    BY <1>10 DEF Inherit, Live, LedgerInv, TypeOK
  <2>2. todo[h] \subseteq asked /\ todo[h] \subseteq Used
    BY <1>10 DEF Inherit, LedgerInv, TypeOK, Meant
  <2> QED BY <1>10, <1>0, <2>1, <2>2, PlainStep DEF Inherit, Goto, LedgerInv, TypeOK
<1>11. ASSUME NEW h \in Handlers, NEW mail \in Ids, NEW bank \in Ids, AskMergeMail(h, mail, bank)
       PROVE  LedgerInv'
  <2>1. /\ [id |-> {bank}, ref |-> "bank"] \in Kept
        /\ {mail} \in SUBSET Used /\ asked' \subseteq Used
    BY <1>11, <1>0 DEF AskMergeMail, LedgerInv, TypeOK
  <2> QED BY <1>11, <1>0, <2>1, PlainStep DEF AskMergeMail, Goto
<1>12. ASSUME NEW h \in Handlers, Fold(h)
       PROVE  LedgerInv'
  <2>1. todo[h] \subseteq asked /\ todo[h] \subseteq Used
    BY <1>12 DEF Fold, LedgerInv, TypeOK, Meant
  <2> QED BY <1>12, <1>0, <2>1, PlainStep, SMTT(20) DEF Fold, Done, Goto, LedgerInv, TypeOK
<1>13. ASSUME NEW h \in Handlers, Abort(h)
       PROVE  LedgerInv'
  BY <1>13, <1>0, PlainStep DEF Abort, Done, Goto, LedgerInv, TypeOK
<1>14. CASE UNCHANGED vars
  BY <1>14 DEF vars, tables, calls, LedgerInv, TypeOK, Paired, Together, Meant, Wanted,
               NoOrphanLegs, OnlyAskedGoes, Live, Used
<1> QED
  BY <1>1, <1>2, <1>3, <1>4, <1>5, <1>6, <1>7, <1>8, <1>9, <1>10, <1>11, <1>12, <1>13, <1>14
  DEF Next, Entering, Deleting, Merging

\* The invariant holds in every interleaving: what a request has read of a
\* pair is never out of date in a way that matters.
THEOREM LedgerInvariant == Spec => []LedgerInv
BY LedgerInit, LedgerNext, PTL DEF Spec

\* Types, for the module's own reader.
THEOREM LedgerTypes == Spec => []TypeOK
<1>1. LedgerInv => TypeOK
  BY DEF LedgerInv
<1> QED BY <1>1, LedgerInvariant, PTL

\* As long as its accounts exist a transfer is two legs or none, whatever
\* overlaps and wherever requests stop (transaction/service.go:848-850).
THEOREM NoLegIsOrphaned == Spec => []NoOrphanLegs
<1>1. LedgerInv => NoOrphanLegs
  BY DEF LedgerInv
<1> QED BY <1>1, LedgerInvariant, PTL

\* No request takes a row nobody asked for, whatever it read before.
THEOREM NothingElseGoes == Spec => []OnlyAskedGoes
<1>1. LedgerInv => OnlyAskedGoes
  BY DEF LedgerInv
<1> QED BY <1>1, LedgerInvariant, PTL
=============================================================================
