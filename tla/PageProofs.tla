----------------------------- MODULE PageProofs -----------------------------
(***************************************************************************)
(* What single cards, sheets and pages promise, each by itself: the address *)
(* of a channel (Addresses, extended), and, as instances, the sheet of a    *)
(* transfer (TransferSheet), the choices of notifications (NotifyPages),    *)
(* connecting a bank (BankConnect), the import wizard (ImportWizard),       *)
(* savings goals (Goals), the register's page (Register), the list of the   *)
(* banks (BankScreens), the budget (Budget), the schedules and their sheets *)
(* (SchedulesPage), the mailboxes (Mailboxes), the sheet of a transaction   *)
(* (Entry) and the filters of the register (RegisterView).                  *)
(* Answers come in any order and any may fail.                              *)
(***************************************************************************)
EXTENDS Addresses, Sequences, FiniteSetTheorems, SequenceTheorems, TLAPS

(***************************************************************************)
(* Addresses: the promise of notify/proof.go, for a person whose requests   *)
(* about one address are served one at a time (~Overlap), for any channels  *)
(* and addresses and any number of codes and calls: nothing is sent to an   *)
(* address of the installation's before its owner gave its code back.       *)
(***************************************************************************)
Rows == [target: Targets \cup {None}, own: BOOLEAN, secret: BOOLEAN, verified: BOOLEAN,
         code: 0 .. MaxCodes, tries: 0 .. codeTries, late: BOOLEAN]
Bodies == [target: Targets \cup {None}, own: BOOLEAN, secret: BOOLEAN]
CallRecords == [no: Nat, kind: {"save", "confirm", "resend", "remove"},
                body: Bodies \cup (0 .. MaxCodes) \cup {None},
                stage: {"sent", "read", "counted"}, old: Rows \cup {None}, code: 0 .. MaxCodes]

\* Whom a code is sent to, when it is for the address t.
Holder(t) == IF ch = "telegram" THEN "link" ELSE t

\* A row, or what a request read of it, in order: the code it waits for was sent to its
\* address, and what it may send to was proven.
Sound(r) ==
  /\ r.verified <=> r.code = 0
  /\ ch # "telegram" => r.target \in Targets
  /\ ~r.verified => sentTo[r.code] = Holder(r.target)
  /\ r.verified /\ viaInstallation(r.own) => r.target \in proven

Tables ==
  /\ row \in Rows \cup {None}
  /\ sentTo \in [Codes -> Targets \cup {"link", None}]
  /\ seen = None \/ seen \in [target: Targets \cup {None}, own: BOOLEAN, secret: BOOLEAN, pending: BOOLEAN]
  /\ form \in [mode: BOOLEAN \cup {None}, target: Targets \cup {None}, secret: BOOLEAN]
  /\ typed \in 0 .. MaxCodes \cup {None}
  /\ made \in Nat
  /\ row # None => Sound(row)

\* A save names an address, unless the server has it, or will learn it from a chat.
NamesAddress(c) ==
  \/ c.body.target # None
  \/ ch = "telegram" /\ ~c.body.own
  \/ IF c.stage = "sent" THEN ch = "webhook" ELSE c.old # None

\* A save on its way to its write has sent the code that the row it writes waits for.
CodeIsOut(c) ==
  LET t == SavedTarget(c.old, c.body)
      via == viaInstallation(c.body.own)
  IN IF ~via \/ KeepsProof(c.old, t, via) THEN c.code = 0
     ELSE c.code # 0 /\ sentTo[c.code] = Holder(t)

\* Until its write, the row a request read is there still, or it is gone.
RowStands(c) ==
  row = None \/ /\ row.target = c.old.target /\ row.own = c.old.own
                /\ row.verified = c.old.verified /\ row.code = c.old.code

InOrder(c) ==
  /\ c.stage = "sent" => c.code = 0
  /\ c.stage # "sent" /\ c.old # None => Sound(c.old)
  /\ c.kind = "save" => c.body \in Bodies /\ NamesAddress(c) /\ (c.stage # "sent" => CodeIsOut(c))
  /\ c.kind = "resend" /\ c.stage # "sent" =>
       /\ c.old # None /\ c.code # 0 /\ sentTo[c.code] = Holder(c.old.target)
       /\ ch # "telegram" => RowStands(c)
  /\ c.kind = "confirm" => /\ ch # "telegram" /\ c.body \in 0 .. MaxCodes
                           /\ c.stage # "sent" => c.old # None /\ ~c.old.verified /\ RowStands(c)

Calls == /\ \A c \in calls : c \in CallRecords /\ InOrder(c)
         /\ \A c, d \in calls : c.stage # "sent" /\ d.stage # "sent" => c = d

AddressInv == Tables /\ Calls

-----------------------------------------------------------------------------
\* A code once sent stays sent, and a proof given stays given.
Grows == /\ ch' = ch
         /\ \A n \in Codes : sentTo[n] # None => sentTo'[n] = sentTo[n]
         /\ proven \subseteq proven'

LEMMA HolderIsSomebody ==
  ASSUME AddressConstants, NEW t, ch # "telegram" => t \in Targets
  PROVE  Holder(t) # None
BY DEF AddressConstants, Holder

LEMMA CodesAreNumbers ==
  ASSUME AddressConstants, NEW n \in 0 .. MaxCodes, n # 0
  PROVE  n \in Codes
BY DEF AddressConstants, Codes

LEMMA SoundStays ==
  ASSUME AddressConstants, NEW r \in Rows, Sound(r), Grows
  PROVE  Sound(r)'
<1>1. ASSUME ~r.verified
      PROVE  sentTo'[r.code] = Holder(r.target)
  <2>1. r.code \in Codes
    BY <1>1, CodesAreNumbers DEF Sound, Rows
  <2>2. sentTo[r.code] # None
    BY <1>1, HolderIsSomebody DEF Sound
  <2> QED BY <1>1, <2>1, <2>2 DEF Grows, Sound
<1>2. ch' = ch /\ proven \subseteq proven'
  BY DEF Grows
<1>3. viaInstallation(r.own)' = viaInstallation(r.own) /\ Holder(r.target)' = Holder(r.target)
  BY <1>2 DEF viaInstallation, Holder
<1> QED BY <1>1, <1>2, <1>3 DEF Sound

LEMMA RowStays ==
  ASSUME AddressConstants, row \in Rows, Sound(row), Grows, row' = row
  PROVE  Sound(row)'
<1>1. PICK r \in Rows : r = row
  OBVIOUS
<1>2. Sound(r)
  BY <1>1
<1>3. Sound(r)'
  BY <1>2, SoundStays
<1> QED BY <1>1, <1>3 DEF Sound, Holder, viaInstallation

\* What a request waits to write stays in order, whoever else is served.
LEMMA StaysInOrder ==
  ASSUME AddressConstants, NEW c \in CallRecords, InOrder(c), Grows,
         ch # "telegram" /\ c.stage # "sent" /\ c.kind \in {"resend", "confirm"} => RowStands(c)'
  PROVE  InOrder(c)'
<1>1. ch' = ch
  BY DEF Grows
<1>2. ASSUME c.stage # "sent", c.old # None
      PROVE  Sound(c.old)'
  <2>1. c.old \in Rows /\ Sound(c.old)
    BY <1>2 DEF InOrder, CallRecords
  <2> QED BY <2>1, SoundStays
<1>3. ASSUME NEW t, ch # "telegram" => t \in Targets, c.code # 0, sentTo[c.code] = Holder(t)
      PROVE  sentTo'[c.code] = Holder(t)
  <2>1. c.code \in Codes
    BY <1>3, CodesAreNumbers DEF CallRecords
  <2>2. sentTo[c.code] # None
    BY <1>3, HolderIsSomebody
  <2> QED BY <1>1, <1>3, <2>1, <2>2 DEF Grows, Holder
<1>4. ASSUME c.kind = "save"
      PROVE  /\ c.body \in Bodies /\ NamesAddress(c)'
             /\ c.stage # "sent" => CodeIsOut(c)'
  <2>1. c.body \in Bodies /\ NamesAddress(c)'
    BY <1>1, <1>4 DEF InOrder, NamesAddress
  <2>2. ASSUME c.stage # "sent"
        PROVE  CodeIsOut(c)'
    <3> DEFINE t == SavedTarget(c.old, c.body)
               via == viaInstallation(c.body.own)
    <3>1. t' = t /\ via' = via /\ KeepsProof(c.old, t, via)' = KeepsProof(c.old, t, via)
      BY <1>1 DEF SavedTarget, KeepsProof, viaInstallation
    <3>2. ch # "telegram" => t \in Targets
      <4>1. SUFFICES ASSUME ch # "telegram" PROVE t \in Targets
        OBVIOUS
      <4>2. c.body.target # None => t \in Targets
        BY <1>4, <4>1 DEF InOrder, Bodies, SavedTarget
      <4>3. c.body.target = None => c.old # None /\ t = c.old.target
        BY <1>4, <2>2, <4>1 DEF InOrder, NamesAddress, SavedTarget
      <4>4. c.old # None => c.old.target \in Targets
        BY <2>2, <4>1 DEF InOrder, Sound
      <4> QED BY <4>2, <4>3, <4>4
    <3>3. CodeIsOut(c)
      BY <1>4, <2>2 DEF InOrder
    <3> HIDE DEF t, via
    <3>4. /\ ~via \/ KeepsProof(c.old, t, via) => c.code = 0
          /\ ~(~via \/ KeepsProof(c.old, t, via)) => c.code # 0 /\ sentTo[c.code] = Holder(t)
      BY <3>3 DEF CodeIsOut, t, via
    <3>5. ~(~via \/ KeepsProof(c.old, t, via)) => sentTo'[c.code] = Holder(t)
      BY <3>2, <3>4, <1>3
    <3>6. CASE ~via \/ KeepsProof(c.old, t, via)
      BY <3>1, <3>4, <3>6 DEF CodeIsOut, t, via
    <3>7. CASE ~(~via \/ KeepsProof(c.old, t, via))
      BY <3>1, <3>4, <3>5, <3>7, <1>1 DEF CodeIsOut, Holder, t, via
    <3> QED BY <3>6, <3>7
  <2> QED BY <2>1, <2>2
<1>5. ASSUME c.kind = "resend", c.stage # "sent"
      PROVE  /\ c.old # None /\ c.code # 0 /\ sentTo'[c.code] = Holder(c.old.target)'
             /\ ch # "telegram" => RowStands(c)'
  <2>1. c.old # None /\ c.code # 0 /\ sentTo[c.code] = Holder(c.old.target)
    BY <1>5 DEF InOrder
  <2>2. ch # "telegram" => c.old.target \in Targets
    BY <1>5, <2>1 DEF InOrder, Sound
  <2>3. Holder(c.old.target)' = Holder(c.old.target)
    BY <1>1 DEF Holder
  <2> QED BY <1>3, <1>5, <2>1, <2>2, <2>3
<1>6. ASSUME c.kind = "confirm"
      PROVE  /\ ch # "telegram" /\ c.body \in 0 .. MaxCodes
             /\ c.stage # "sent" => c.old # None /\ ~c.old.verified /\ RowStands(c)'
  BY <1>6 DEF InOrder
<1> QED BY <1>1, <1>2, <1>4, <1>5, <1>6 DEF InOrder

\* The calls on their way stay in order when those that come or move on are, and the row
\* a request read is written by nobody else.
LEMMA CallsStay ==
  ASSUME AddressConstants, Calls, Grows,
         \A c \in calls' :
           \/ c \in CallRecords /\ InOrder(c)'
           \/ /\ c \in calls
              /\ ch # "telegram" /\ c.stage # "sent" /\ c.kind \in {"resend", "confirm"}
                   => RowStands(c)',
         \A c, d \in calls' : c.stage # "sent" /\ d.stage # "sent" => c = d
  PROVE  Calls'
<1>1. ASSUME NEW c \in calls'
      PROVE  c \in CallRecords /\ InOrder(c)'
  <2>1. CASE c \in CallRecords /\ InOrder(c)'
    BY <2>1
  <2>2. CASE /\ c \in calls
             /\ ch # "telegram" /\ c.stage # "sent" /\ c.kind \in {"resend", "confirm"}
                  => RowStands(c)'
    <3>1. c \in CallRecords /\ InOrder(c)
      BY <2>2 DEF Calls
    <3> QED BY <2>2, <3>1, StaysInOrder
  <2> QED BY <1>1, <2>1, <2>2
<1> QED BY <1>1 DEF Calls

LEMMA RowsStand ==
  ASSUME Calls, NEW c \in calls, c.stage # "sent", ch # "telegram", c.kind \in {"resend", "confirm"}
  PROVE  RowStands(c)
BY DEF Calls, InOrder

-----------------------------------------------------------------------------
\* The card.

\* What a call asks for when it leaves the card.
Asks(kind, body) ==
  /\ kind \in {"save", "confirm", "resend", "remove"}
  /\ body \in Bodies \cup (0 .. MaxCodes) \cup {None}
  /\ kind = "save" => /\ body \in Bodies
                      /\ body.target # None \/ (ch = "telegram" /\ ~body.own) \/ ch = "webhook"
  /\ kind = "confirm" => ch # "telegram" /\ body \in 0 .. MaxCodes

LEMMA Mutates ==
  ASSUME AddressConstants, AddressInv, NEW kind, NEW body, Asks(kind, body), mutate(kind, body)
  PROVE  AddressInv'
<1>0. PICK new : new = [no |-> made + 1, kind |-> kind, body |-> body, stage |-> "sent",
                        old |-> None, code |-> 0]
  OBVIOUS
<1>1. calls' = calls \cup {new} /\ made' = made + 1
  BY <1>0 DEF mutate
<1>2. UNCHANGED <<ch, row, sentTo, proven, seen, form, typed>>
  BY DEF mutate
<1>3. Grows
  BY <1>2 DEF Grows
<1>4. Tables'
  <2>1. row # None => Sound(row)'
    BY <1>2 DEF AddressInv, Tables, Sound, Holder, viaInstallation
  <2> QED BY <1>1, <1>2, <2>1 DEF AddressInv, Tables
<1>5. new \in CallRecords
  BY <1>0 DEF AddressConstants, AddressInv, Tables, CallRecords, Asks
<1>6. InOrder(new)'
  BY <1>0, <1>2 DEF Asks, InOrder, NamesAddress
<1>7. \A c \in calls : ch # "telegram" /\ c.stage # "sent" /\ c.kind \in {"resend", "confirm"}
                         => RowStands(c)'
  BY <1>2, RowsStand DEF AddressInv, RowStands
<1>8. \A c, d \in calls' : c.stage # "sent" /\ d.stage # "sent" => c = d
  BY <1>0, <1>1 DEF AddressInv, Calls
<1>9. Calls'
  BY <1>1, <1>3, <1>5, <1>6, <1>7, <1>8, CallsStay DEF AddressInv
<1> QED BY <1>4, <1>9 DEF AddressInv

\* Typing and fetching change what the card shows and no more.
LEMMA ShowsElse ==
  ASSUME AddressConstants, AddressInv, UNCHANGED <<ch, row, sentTo, proven, calls, made>>,
         seen' = None \/ seen' \in [target: Targets \cup {None}, own: BOOLEAN, secret: BOOLEAN, pending: BOOLEAN],
         form' \in [mode: BOOLEAN \cup {None}, target: Targets \cup {None}, secret: BOOLEAN],
         typed' \in 0 .. MaxCodes \cup {None}
  PROVE  AddressInv'
<1>1. Grows
  BY DEF Grows
<1>2. Tables'
  <2>1. row # None => Sound(row)'
    BY DEF AddressInv, Tables, Sound, Holder, viaInstallation
  <2> QED BY <2>1 DEF AddressInv, Tables
<1>3. \A c \in calls : ch # "telegram" /\ c.stage # "sent" /\ c.kind \in {"resend", "confirm"}
                         => RowStands(c)'
  BY RowsStand DEF AddressInv, RowStands
<1>4. \A c, d \in calls' : c.stage # "sent" /\ d.stage # "sent" => c = d
  BY DEF AddressInv, Calls
<1>5. Calls'
  BY <1>1, <1>3, <1>4, CallsStay DEF AddressInv
<1> QED BY <1>2, <1>5 DEF AddressInv

LEMMA CardStep ==
  ASSUME AddressConstants, AddressInv, Card
  PROVE  AddressInv'
<1> USE DEF AddressInv
<1>0. /\ own \in BOOLEAN /\ target \in Targets \cup {None}
      /\ form.secret \in BOOLEAN /\ form.target \in Targets \cup {None}
  BY DEF Tables, own, target, Or, savedOwn, savedTarget
<1>1. ASSUME NEW t \in Targets \cup {None}, NEW o \in BOOLEAN, save(Body(t, o)),
             t # None \/ (ch = "telegram" /\ ~o) \/ ch = "webhook"
      PROVE  AddressInv'
  <2>1. Asks("save", Body(t, o))
    BY <1>0, <1>1 DEF Asks, Body, Bodies
  <2> QED BY <1>1, <2>1, Mutates DEF save
<1>2. CASE ChannelSetup
  BY <1>0, <1>1, <1>2
     DEF ChannelSetup, EmailSetup, MatrixSetup, TelegramSetup, NtfySetup, GotifySetup,
         IncomingWebhookSetup, WebhookSetup
<1>3. CASE Edit
  <2>1. form' \in [mode: BOOLEAN \cup {None}, target: Targets \cup {None}, secret: BOOLEAN]
    BY <1>3 DEF Edit, Tables
  <2> QED BY <1>3, <2>1, ShowsElse DEF Edit, Tables
<1>4. CASE CodeConfirm
  <2>1. CASE /\ \E c \in {x \in Codes : sentTo[x] # None} \cup {0} : typed' = c
             /\ UNCHANGED <<ch, row, sentTo, proven, calls, seen, form, made>>
    <3>1. typed' \in 0 .. MaxCodes
      BY <2>1 DEF Codes, AddressConstants
    <3> QED BY <2>1, <3>1, ShowsElse DEF Tables
  <2>2. CASE typed # None /\ mutate("confirm", typed)
    <3>1. Asks("confirm", typed)
      BY <1>4, <2>2 DEF Asks, CodeConfirm, Tables
    <3> QED BY <2>2, <3>1, Mutates
  <2>3. CASE mutate("resend", None)
    BY <2>3, Mutates DEF Asks
  <2> QED BY <1>4, <2>1, <2>2, <2>3 DEF CodeConfirm
<1>5. CASE NewLink
  BY <1>5, Mutates DEF NewLink, Asks
<1>6. CASE Footer
  BY <1>6, Mutates DEF Footer, Asks
<1>7. CASE useChannel
  <2>1. row = None \/ row \in Rows
    BY DEF Tables
  <2>2. seen' = None \/ seen' \in [target: Targets \cup {None}, own: BOOLEAN, secret: BOOLEAN, pending: BOOLEAN]
    BY <1>7, <2>1 DEF useChannel, Rows
  <2>3. typed' \in 0 .. MaxCodes \cup {None}
    BY <1>7 DEF useChannel, Tables
  <2> QED BY <1>7, <2>2, <2>3, ShowsElse DEF useChannel, Tables
<1> QED BY <1>2, <1>3, <1>4, <1>5, <1>6, <1>7 DEF Card

-----------------------------------------------------------------------------
\* The server: a request reads, and is then the only one between its read and its end.

LEMMA Reading ==
  ASSUME AddressConstants, ~Overlap, AddressInv, NEW c \in calls, Free, NEW n \in 0 .. MaxCodes,
         NEW r, r = [c EXCEPT !.stage = "read", !.old = row, !.code = n],
         calls' = (calls \ {c}) \cup {r}, InOrder(r)',
         Grows, sentTo' \in [Codes -> Targets \cup {"link", None}], UNCHANGED still
  PROVE  AddressInv'
<1>2. c \in CallRecords
  BY DEF AddressInv, Calls
<1>3. r \in CallRecords
  BY <1>2 DEF CallRecords, AddressInv, Tables
<1>4. \A d \in calls : d.stage = "sent"
  BY DEF Free
<1>5. Calls'
  BY <1>2, <1>3, <1>4, CallsStay DEF AddressInv, CallRecords
<1>6. Tables'
  <2>1. row # None => Sound(row)'
    BY RowStays DEF AddressInv, Tables, still
  <2> QED BY <2>1 DEF AddressInv, Tables, still
<1> QED BY <1>5, <1>6 DEF AddressInv

\* A code that is new leaves the ones before it.
LEMMA Issues ==
  ASSUME AddressConstants, AddressInv, NEW c \in calls, NEW t, ch # "telegram" => t \in Targets,
         issueCode(c, t), UNCHANGED still
  PROVE  /\ Grows /\ sentTo' \in [Codes -> Targets \cup {"link", None}]
         /\ \E n \in Codes :
              /\ n \in 0 .. MaxCodes /\ n # 0 /\ sentTo'[n] = Holder(t)
              /\ calls' = (calls \ {c}) \cup {[c EXCEPT !.stage = "read", !.old = row, !.code = n]}
<1>1. PICK n \in Codes :
        /\ sentTo[n] = None
        /\ sentTo' = [sentTo EXCEPT ![n] = Holder(t)]
        /\ calls' = (calls \ {c}) \cup {[c EXCEPT !.stage = "read", !.old = row, !.code = n]}
  BY DEF issueCode, Holder
<1>2. Holder(t) \in Targets \cup {"link"}
  BY DEF Holder
<1>3. sentTo \in [Codes -> Targets \cup {"link", None}]
  BY DEF AddressInv, Tables
<1>4. n \in 0 .. MaxCodes /\ n # 0
  BY DEF Codes, AddressConstants
<1>5. sentTo'[n] = Holder(t)
  BY <1>1, <1>3
<1>6. Grows
  BY <1>1, <1>3 DEF Grows, still
<1>7. sentTo' \in [Codes -> Targets \cup {"link", None}]
  BY <1>1, <1>2, <1>3
<1> QED BY <1>1, <1>4, <1>5, <1>6, <1>7

\* A read that sends nothing leaves the call its code, which is none.
LEMMA Plain ==
  ASSUME AddressInv, NEW c \in calls, c.stage = "sent", Reads(c), UNCHANGED still
  PROVE  /\ Grows /\ sentTo' = sentTo
         /\ calls' = (calls \ {c}) \cup {[c EXCEPT !.stage = "read", !.old = row, !.code = 0]}
<1>1. c \in CallRecords /\ c.code = 0
  BY DEF AddressInv, Calls, InOrder
<1>2. [c EXCEPT !.stage = "read", !.old = row] = [c EXCEPT !.stage = "read", !.old = row, !.code = 0]
  BY <1>1 DEF CallRecords
<1> QED BY <1>2 DEF Reads, Grows, still

LEMMA SaveReadsStep ==
  ASSUME AddressConstants, ~Overlap, AddressInv, NEW c \in calls, SaveReads(c)
  PROVE  AddressInv'
<1> DEFINE t == SavedTarget(row, c.body)
           via == viaInstallation(c.body.own)
<1>1. c \in CallRecords /\ InOrder(c) /\ c.kind = "save" /\ c.stage = "sent" /\ Free
  BY DEF AddressInv, Calls, SaveReads
<1>2. c.body \in Bodies /\ NamesAddress(c)
  BY <1>1 DEF InOrder
<1>3. row = None \/ (row \in Rows /\ Sound(row))
  BY DEF AddressInv, Tables
<1>4. UNCHANGED still /\ ch' = ch /\ row' = row
  BY DEF SaveReads, still
<1>5. c.body.target # None \/ (ch = "telegram" /\ ~c.body.own) \/ row # None
  BY <1>1, <1>2 DEF NamesAddress, SaveReads
<1>6. ch # "telegram" => t \in Targets
  BY <1>2, <1>3, <1>5 DEF Bodies, SavedTarget, Sound
<1>7. t' = t /\ via' = via /\ KeepsProof(row, t, via)' = KeepsProof(row, t, via)
  BY <1>4 DEF SavedTarget, KeepsProof, viaInstallation
<1>8. ASSUME NEW n \in 0 .. MaxCodes, Grows,
             IF ~via \/ KeepsProof(row, t, via) THEN n = 0 ELSE n # 0 /\ sentTo'[n] = Holder(t),
             NEW r, r = [c EXCEPT !.stage = "read", !.old = row, !.code = n]
      PROVE  InOrder(r)'
  <2>1. /\ r.kind = "save" /\ r.stage = "read" /\ r.old = row /\ r.code = n /\ r.body = c.body
    BY <1>1, <1>8 DEF CallRecords
  <2>2. NamesAddress(r)'
    BY <1>4, <1>5, <2>1 DEF NamesAddress
  <2>3. r.old # None => Sound(r.old)'
    BY <1>3, <1>8, <2>1, SoundStays
  <2>4. CodeIsOut(r)'
    BY <1>4, <1>7, <1>8, <2>1 DEF CodeIsOut, Holder
  <2> QED BY <1>2, <2>1, <2>2, <2>3, <2>4 DEF InOrder
<1>9. \E n \in 0 .. MaxCodes :
        /\ IF ~via \/ KeepsProof(row, t, via) THEN n = 0 ELSE n # 0 /\ sentTo'[n] = Holder(t)
        /\ calls' = (calls \ {c}) \cup {[c EXCEPT !.stage = "read", !.old = row, !.code = n]}
        /\ Grows /\ sentTo' \in [Codes -> Targets \cup {"link", None}]
  <2>1. CASE ~via \/ KeepsProof(row, t, via)
    <3>1. Reads(c)
      BY <2>1 DEF SaveReads
    <3>2. 0 \in 0 .. MaxCodes
      BY DEF AddressConstants
    <3> QED BY <1>1, <1>4, <2>1, <3>1, <3>2, Plain DEF AddressInv, Tables
  <2>2. CASE ~(~via \/ KeepsProof(row, t, via))
    <3>1. issueCode(c, t)
      BY <2>2 DEF SaveReads
    <3> HIDE DEF t, via
    <3> QED BY <1>4, <1>6, <2>2, <3>1, Issues
  <2> QED BY <2>1, <2>2
<1> HIDE DEF t, via
<1> QED BY <1>1, <1>4, <1>8, <1>9, Reading

LEMMA ResendReadsStep ==
  ASSUME AddressConstants, ~Overlap, AddressInv, NEW c \in calls, ResendReads(c)
  PROVE  AddressInv'
<1>1. c \in CallRecords /\ c.kind = "resend" /\ c.stage = "sent" /\ Free
  BY DEF AddressInv, Calls, ResendReads
<1>2. row \in Rows /\ row # None /\ Sound(row)
  BY DEF AddressInv, Tables, ResendReads
<1>3. UNCHANGED still /\ ch' = ch /\ row' = row
  BY DEF ResendReads, still
<1>4. ch # "telegram" => row.target \in Targets
  BY <1>2 DEF Sound
<1>5. PICK n \in 0 .. MaxCodes :
        /\ n # 0 /\ sentTo'[n] = Holder(row.target)
        /\ calls' = (calls \ {c}) \cup {[c EXCEPT !.stage = "read", !.old = row, !.code = n]}
        /\ Grows /\ sentTo' \in [Codes -> Targets \cup {"link", None}]
  <2>1. issueCode(c, row.target)
    BY DEF ResendReads
  <2> QED BY <1>3, <1>4, <2>1, Issues
<1>6. PICK r : r = [c EXCEPT !.stage = "read", !.old = row, !.code = n]
  OBVIOUS
<1>7. /\ r.kind = "resend" /\ r.stage = "read" /\ r.old = row /\ r.code = n
  BY <1>1, <1>6 DEF CallRecords
<1>8. Sound(r.old)'
  BY <1>2, <1>5, <1>7, SoundStays
<1>9. Holder(r.old.target)' = Holder(row.target) /\ RowStands(r)'
  BY <1>3, <1>7 DEF Holder, RowStands
<1>10. InOrder(r)'
  BY <1>2, <1>5, <1>7, <1>8, <1>9 DEF InOrder
<1> QED BY <1>1, <1>3, <1>5, <1>6, <1>10, Reading

LEMMA ConfirmReadsStep ==
  ASSUME AddressConstants, ~Overlap, AddressInv, NEW c \in calls, ConfirmReads(c)
  PROVE  AddressInv'
<1>1. c \in CallRecords /\ InOrder(c) /\ c.kind = "confirm" /\ c.stage = "sent" /\ Free
  BY DEF AddressInv, Calls, ConfirmReads
<1>2. row \in Rows /\ row # None /\ Sound(row) /\ ~row.verified
  BY DEF AddressInv, Tables, ConfirmReads
<1>3. UNCHANGED still /\ ch' = ch /\ row' = row
  BY DEF ConfirmReads, still
<1>4. /\ Grows /\ sentTo' = sentTo
      /\ calls' = (calls \ {c}) \cup {[c EXCEPT !.stage = "read", !.old = row, !.code = 0]}
  BY <1>1, <1>3, Plain DEF ConfirmReads
<1>5. PICK r : r = [c EXCEPT !.stage = "read", !.old = row, !.code = 0]
  OBVIOUS
<1>6. /\ r.kind = "confirm" /\ r.stage = "read" /\ r.old = row /\ r.body = c.body
  BY <1>1, <1>5 DEF CallRecords
<1>7. Sound(r.old)' /\ RowStands(r)'
  BY <1>2, <1>3, <1>4, <1>6, SoundStays DEF RowStands
<1>8. InOrder(r)'
  BY <1>1, <1>2, <1>3, <1>6, <1>7 DEF InOrder
<1>9. 0 \in 0 .. MaxCodes /\ sentTo' \in [Codes -> Targets \cup {"link", None}]
  BY <1>4 DEF AddressConstants, AddressInv, Tables
<1> QED BY <1>1, <1>3, <1>4, <1>5, <1>8, <1>9, Reading

-----------------------------------------------------------------------------
\* What ends a request, and what happens to the row by itself.

\* A request that ends leaves the row it wrote, sound, and the others as they were.
LEMMA Ending ==
  ASSUME AddressConstants, AddressInv, Grows, UNCHANGED <<sentTo, seen, made>>,
         NEW D, calls' = calls \ D,
         form' \in {form, Untyped}, typed' \in {typed, None},
         row' \in Rows \cup {None}, row' # None => Sound(row)',
         \A c \in calls' : ch # "telegram" /\ c.stage # "sent" /\ c.kind \in {"resend", "confirm"}
                             => RowStands(c)'
  PROVE  AddressInv'
<1>1. Calls'
  <2>1. \A c, d \in calls' : c.stage # "sent" /\ d.stage # "sent" => c = d
    BY DEF AddressInv, Calls
  <2> QED BY <2>1, CallsStay DEF AddressInv
<1>2. Untyped \in [mode: BOOLEAN \cup {None}, target: Targets \cup {None}, secret: BOOLEAN]
  BY DEF Untyped
<1>3. Tables'
  BY <1>2 DEF AddressInv, Tables
<1> QED BY <1>1, <1>3 DEF AddressInv

LEMMA SaveWritesStep ==
  ASSUME AddressConstants, AddressInv, NEW c \in calls, SaveWrites(c)
  PROVE  AddressInv'
<1> DEFINE t == SavedTarget(c.old, c.body)
           via == viaInstallation(c.body.own)
           kept == KeepsProof(c.old, t, via)
<1>1. c \in CallRecords /\ InOrder(c) /\ c.kind = "save" /\ c.stage = "read"
  BY DEF AddressInv, Calls, SaveWrites
<1>2. c.body \in Bodies /\ NamesAddress(c) /\ CodeIsOut(c)
  BY <1>1 DEF InOrder
<1>3. c.old # None => c.old \in Rows /\ Sound(c.old)
  BY <1>1 DEF InOrder, CallRecords
<1>4. c.code \in 0 .. MaxCodes
  BY <1>1 DEF CallRecords
<1>5. Answer(c, TRUE) /\ UNCHANGED <<sentTo, proven>>
  BY DEF SaveWrites
<1>6. Grows /\ ch' = ch
  BY <1>5 DEF Answer, Grows
<1>7. t \in Targets \cup {None} /\ (ch # "telegram" => t \in Targets)
  BY <1>1, <1>2, <1>3 DEF Bodies, NamesAddress, SavedTarget, Rows, Sound
<1>8. kept => c.old # None /\ t = c.old.target /\ via = viaInstallation(c.old.own)
  BY DEF KeepsProof
<1>9. via \in BOOLEAN
  BY DEF viaInstallation
<1>10. IF ~via \/ kept THEN c.code = 0 ELSE c.code # 0 /\ sentTo[c.code] = Holder(t)
  BY <1>2 DEF CodeIsOut
<1>11. row' = [target |-> t, own |-> c.body.own, secret |-> SavedSecret(c.old, c.body),
               verified |-> IF kept THEN c.old.verified ELSE ~via,
               code |-> IF kept THEN c.old.code ELSE c.code,
               tries |-> IF kept THEN c.old.tries ELSE 0,
               late |-> kept /\ c.old.late]
  BY DEF SaveWrites
<1>12. SavedSecret(c.old, c.body) \in BOOLEAN /\ c.body.own \in BOOLEAN /\ kept \in BOOLEAN
  BY <1>2 DEF SavedSecret, Bodies, KeepsProof
<1>13. via = viaInstallation(c.body.own)
  OBVIOUS
<1> HIDE DEF t, via, kept
<1>14. row' \in Rows
  <2>1. CASE kept
    BY <1>3, <1>7, <1>8, <1>11, <1>12, <2>1 DEF Rows
  <2>2. CASE ~kept
    <3>1. 0 \in 0 .. codeTries
      BY DEF AddressConstants
    <3> QED BY <1>4, <1>7, <1>9, <1>11, <1>12, <2>2, <3>1 DEF Rows
  <2> QED BY <1>12, <2>1, <2>2
<1>15. Sound(row)'
  <2>1. CASE kept
    <3>1. Sound(c.old)
      BY <1>3, <1>8, <2>1
    <3>2. /\ row'.target = c.old.target /\ row'.verified = c.old.verified /\ row'.code = c.old.code
          /\ viaInstallation(row'.own) = viaInstallation(c.old.own)
      BY <1>8, <1>11, <1>13, <2>1
    <3> QED BY <1>5, <1>6, <3>1, <3>2 DEF Sound, Holder, viaInstallation
  <2>2. CASE ~kept
    <3>1. /\ row'.target = t /\ row'.verified = ~via /\ row'.code = c.code
          /\ viaInstallation(row'.own) = via
      BY <1>11, <1>13, <2>2
    <3> QED BY <1>5, <1>6, <1>7, <1>9, <1>10, <2>2, <3>1 DEF Sound, Holder, viaInstallation
  <2> QED BY <1>12, <2>1, <2>2
<1>16. \A d \in calls' : d.stage = "sent"
  BY <1>1, <1>5 DEF AddressInv, Calls, Answer
<1>17. /\ UNCHANGED <<sentTo, seen, made>> /\ calls' = calls \ {c}
       /\ form' \in {form, Untyped} /\ typed' \in {typed, None}
  BY <1>5 DEF Answer
<1> QED BY <1>6, <1>14, <1>15, <1>16, <1>17, Ending

LEMMA ResendWritesStep ==
  ASSUME AddressConstants, AddressInv, NEW c \in calls, ResendWrites(c)
  PROVE  AddressInv'
<1>1. c \in CallRecords /\ InOrder(c) /\ c.kind = "resend" /\ c.stage = "read"
  BY DEF AddressInv, Calls, ResendWrites
<1>2. /\ c.code # 0 /\ sentTo[c.code] = Holder(c.old.target)
      /\ ch # "telegram" => RowStands(c)
  BY <1>1 DEF InOrder
<1>3. row = None \/ (row \in Rows /\ Sound(row))
  BY DEF AddressInv, Tables
<1>4. Answer(c, TRUE) /\ UNCHANGED <<sentTo, proven>>
  BY DEF ResendWrites
<1>5. Grows /\ ch' = ch
  BY <1>4 DEF Answer, Grows
<1>6. CASE row = None \/ row.verified
  <2>1. row' = row
    BY <1>6 DEF ResendWrites
  <2>2. row' # None => Sound(row)'
    BY <1>3, <1>5, <2>1, RowStays
  <2>3. \A d \in calls' : d.stage = "sent"
    BY <1>1, <1>4 DEF AddressInv, Calls, Answer
  <2> QED BY <1>3, <1>4, <1>5, <2>1, <2>2, <2>3, Ending DEF Answer
<1>7. CASE ~(row = None \/ row.verified)
  <2>1. row' = [row EXCEPT !.code = c.code, !.tries = 0, !.late = FALSE]
    BY <1>7 DEF ResendWrites
  <2>2. row' \in Rows
    <3>1. c.code \in 0 .. MaxCodes /\ 0 \in 0 .. codeTries
      BY <1>1 DEF CallRecords, AddressConstants
    <3> QED BY <1>3, <1>7, <2>1, <3>1 DEF Rows
  <2>3. /\ row'.target = row.target /\ row'.verified = FALSE /\ row'.code = c.code
    BY <1>3, <1>7, <2>1 DEF Rows
  <2>4. sentTo[c.code] = Holder(row.target)
    BY <1>2, <1>7 DEF RowStands, Holder
  <2>5. Sound(row)'
    BY <1>2, <1>3, <1>4, <1>5, <1>7, <2>3, <2>4 DEF Sound, Holder
  <2>6. \A d \in calls' : d.stage = "sent"
    BY <1>1, <1>4 DEF AddressInv, Calls, Answer
  <2> QED BY <1>4, <1>5, <2>2, <2>5, <2>6, Ending DEF Answer
<1> QED BY <1>6, <1>7

\* Confirming writes a row that waits still: proved, at an address that was proven.
LEMMA Verifies ==
  ASSUME AddressConstants, AddressInv, Grows, UNCHANGED sentTo,
         NEW t \in Targets \cup {None}, ch # "telegram" => t \in Targets,
         row # None /\ ~row.verified => t \in proven', Verified(t)
  PROVE  row' \in Rows \cup {None} /\ (row' # None => Sound(row)')
<1>1. row = None \/ (row \in Rows /\ Sound(row))
  BY DEF AddressInv, Tables
<1>2. CASE row = None \/ row.verified
  <2>1. row' = row
    BY <1>2 DEF Verified
  <2> QED BY <1>1, <2>1, RowStays
<1>3. CASE ~(row = None \/ row.verified)
  <2>1. row' = [row EXCEPT !.verified = TRUE, !.code = 0, !.tries = 0, !.target = t]
    BY <1>3 DEF Verified
  <2>2. 0 \in 0 .. MaxCodes /\ 0 \in 0 .. codeTries
    BY DEF AddressConstants
  <2>3. row' \in Rows
    BY <1>1, <1>3, <2>1, <2>2 DEF Rows
  <2>4. row'.verified = TRUE /\ row'.code = 0 /\ row'.target = t
    BY <1>1, <1>3, <2>1 DEF Rows
  <2> QED BY <1>3, <2>3, <2>4 DEF Sound, Grows
<1> QED BY <1>2, <1>3

LEMMA ConfirmCountsStep ==
  ASSUME AddressConstants, AddressInv, NEW c \in calls, ConfirmCounts(c)
  PROVE  AddressInv'
<1>1. c \in CallRecords /\ InOrder(c) /\ c.kind = "confirm" /\ c.stage = "read"
  BY DEF AddressInv, Calls, ConfirmCounts
<1>2. row \in Rows /\ Sound(row) /\ row # None
  BY DEF AddressInv, Tables, ConfirmCounts
<1>3. row' = [row EXCEPT !.tries = @ + 1] /\ row.tries < codeTries
  BY DEF ConfirmCounts
<1>4. UNCHANGED <<ch, sentTo, proven, seen, form, typed, made>>
  BY DEF ConfirmCounts
<1>5. Grows
  BY <1>4 DEF Grows
<1>6. row' \in Rows
  <2>1. row.tries + 1 \in 0 .. codeTries
    BY <1>2, <1>3 DEF Rows, AddressConstants
  <2> QED BY <1>2, <1>3, <2>1 DEF Rows
<1>7. /\ row'.target = row.target /\ row'.own = row.own /\ row'.verified = row.verified
      /\ row'.code = row.code
  BY <1>2, <1>3 DEF Rows
<1>8. Sound(row)'
  BY <1>2, <1>4, <1>7 DEF Sound, Holder, viaInstallation
<1>9. Tables'
  BY <1>4, <1>6, <1>8 DEF AddressInv, Tables
<1>10. PICK r : r = [c EXCEPT !.stage = "counted"]
  OBVIOUS
<1>11. calls' = (calls \ {c}) \cup {r}
  BY <1>10 DEF ConfirmCounts
<1>12. r \in CallRecords
  BY <1>1, <1>10 DEF CallRecords
<1>13. /\ r.kind = "confirm" /\ r.stage = "counted" /\ r.old = c.old /\ r.body = c.body
  BY <1>1, <1>10 DEF CallRecords
<1>14. RowStands(r)' /\ r.old # None /\ ~r.old.verified /\ ch # "telegram" /\ r.body \in 0 .. MaxCodes
  BY <1>1, <1>2, <1>7, <1>13 DEF InOrder, RowStands
<1>15. Sound(r.old)'
  <2>1. r.old \in Rows /\ Sound(r.old)
    BY <1>1, <1>13, <1>14 DEF InOrder, CallRecords
  <2> QED BY <1>5, <2>1, SoundStays
<1>16. InOrder(r)'
  BY <1>4, <1>13, <1>14, <1>15 DEF InOrder
<1>17. \A d \in calls \ {c} : d.stage = "sent"
  BY <1>1 DEF AddressInv, Calls
<1>18. Calls'
  BY <1>5, <1>11, <1>12, <1>16, <1>17, CallsStay DEF AddressInv
<1> QED BY <1>9, <1>18 DEF AddressInv

LEMMA ConfirmEndsStep ==
  ASSUME AddressConstants, AddressInv, NEW c \in calls, ConfirmEnds(c)
  PROVE  AddressInv'
<1>1. c \in CallRecords /\ InOrder(c) /\ c.kind = "confirm" /\ c.stage = "counted"
  BY DEF AddressInv, Calls, ConfirmEnds
<1>2. /\ ch # "telegram" /\ c.old # None /\ ~c.old.verified /\ RowStands(c) /\ Sound(c.old)
  BY <1>1 DEF InOrder
<1>3. row = None \/ (row \in Rows /\ Sound(row))
  BY DEF AddressInv, Tables
<1>4. \E ok \in BOOLEAN : Answer(c, ok)
  BY DEF ConfirmEnds
<1>5. /\ UNCHANGED <<ch, sentTo, seen, made>> /\ calls' = calls \ {c}
      /\ form' \in {form, Untyped} /\ typed' \in {typed, None}
  BY <1>4 DEF ConfirmEnds, Answer
<1>6. Grows
  BY <1>5 DEF Grows, ConfirmEnds
<1>7. row' \in Rows \cup {None} /\ (row' # None => Sound(row)')
  <2>1. CASE c.body = c.old.code /\ ~c.old.late
    <3> DEFINE t == IF row = None THEN None ELSE row.target
    <3>1. Verified(t) /\ proven' = proven \cup {sentTo[c.body]}
      BY <2>1 DEF ConfirmEnds
    <3>2. sentTo[c.body] = c.old.target
      BY <1>2, <2>1 DEF Sound, Holder
    <3>3. CASE row = None
      BY <3>1, <3>3 DEF Verified
    <3>4. CASE row # None
      <4>1. t \in Targets /\ t = row.target
        BY <1>2, <1>3, <3>4 DEF Sound
      <4>2. t \in proven'
        BY <1>2, <3>1, <3>2, <3>4, <4>1 DEF RowStands
      <4> HIDE DEF t
      <4> QED BY <1>5, <1>6, <3>1, <4>1, <4>2, Verifies
    <3> QED BY <3>3, <3>4
  <2>2. CASE ~(c.body = c.old.code /\ ~c.old.late)
    <3>1. row' = row
      BY <2>2 DEF ConfirmEnds
    <3> QED BY <1>3, <1>6, <3>1, RowStays
  <2> QED BY <2>1, <2>2
<1>8. \A d \in calls' : d.stage = "sent"
  BY <1>1, <1>5 DEF AddressInv, Calls
<1> QED BY <1>5, <1>6, <1>7, <1>8, Ending

LEMMA LinkStep ==
  ASSUME AddressConstants, AddressInv, NEW t \in Targets, linkTelegram(t)
  PROVE  AddressInv'
<1>1. /\ ch = "telegram" /\ Verified(t) /\ proven' = proven \cup {t}
      /\ UNCHANGED <<ch, sentTo, calls, seen, form, typed, made>>
  BY DEF linkTelegram
<1>2. Grows
  BY <1>1 DEF Grows
<1>3. row' \in Rows \cup {None} /\ (row' # None => Sound(row)')
  BY <1>1, <1>2, Verifies
<1>4. PICK D : D = {}
  OBVIOUS
<1>5. calls' = calls \ D
  BY <1>1, <1>4
<1> QED BY <1>1, <1>2, <1>3, <1>5, Ending

LEMMA ExpireStep ==
  ASSUME AddressConstants, AddressInv, Expire
  PROVE  AddressInv'
<1>1. row \in Rows /\ Sound(row) /\ row # None /\ row' = [row EXCEPT !.late = TRUE]
  BY DEF AddressInv, Tables, Expire
<1>2. UNCHANGED <<ch, sentTo, proven, calls, seen, form, typed, made>>
  BY DEF Expire
<1>3. Grows
  BY <1>2 DEF Grows
<1>4. row' \in Rows
  BY <1>1 DEF Rows
<1>5. /\ row'.target = row.target /\ row'.own = row.own /\ row'.verified = row.verified
      /\ row'.code = row.code
  BY <1>1 DEF Rows
<1>6. Sound(row)'
  BY <1>1, <1>2, <1>5 DEF Sound, Holder, viaInstallation
<1>7. \A c \in calls' : ch # "telegram" /\ c.stage # "sent" /\ c.kind \in {"resend", "confirm"}
                          => RowStands(c)'
  BY <1>1, <1>2, <1>5, RowsStand DEF AddressInv, RowStands
<1>8. PICK D : D = {}
  OBVIOUS
<1>9. calls' = calls \ D
  BY <1>2, <1>8
<1> QED BY <1>2, <1>3, <1>4, <1>6, <1>7, <1>9, Ending

LEMMA DropStep ==
  ASSUME AddressConstants, AddressInv, NEW c \in calls, DeleteChannel(c) \/ Refused(c)
  PROVE  AddressInv'
<1>1. row = None \/ (row \in Rows /\ Sound(row))
  BY DEF AddressInv, Tables
<1>2. /\ UNCHANGED <<ch, sentTo, proven, seen, made>> /\ calls' = calls \ {c}
      /\ form' \in {form, Untyped} /\ typed' \in {typed, None} /\ row' \in {row, None}
  BY DEF DeleteChannel, Refused, Answer
<1>3. Grows
  BY <1>2 DEF Grows
<1>4. row' \in Rows \cup {None}
  BY <1>1, <1>2
<1>5. row' # None => Sound(row)'
  BY <1>1, <1>2, <1>3, RowStays
<1>6. \A d \in calls' : ch # "telegram" /\ d.stage # "sent" /\ d.kind \in {"resend", "confirm"}
                          => RowStands(d)'
  BY <1>2, RowsStand DEF AddressInv, RowStands
<1> QED BY <1>2, <1>3, <1>4, <1>5, <1>6, Ending

-----------------------------------------------------------------------------
LEMMA AddressInit == AddressConstants /\ Init => AddressInv
BY DEF AddressConstants, Init, AddressInv, Tables, Calls, Untyped

LEMMA AddressStep ==
  ASSUME AddressConstants, ~Overlap, AddressInv, [Next]_addressVars
  PROVE  AddressInv'
<1>1. CASE Card
  BY <1>1, CardStep
<1>2. CASE Expire
  BY <1>2, ExpireStep
<1>3. CASE \E t \in Targets : linkTelegram(t)
  BY <1>3, LinkStep
<1>4. CASE \E c \in calls : SaveReads(c) \/ SaveWrites(c) \/ ResendReads(c) \/ ResendWrites(c)
  BY <1>4, SaveReadsStep, SaveWritesStep, ResendReadsStep, ResendWritesStep
<1>5. CASE \E c \in calls : \/ ConfirmReads(c) \/ ConfirmCounts(c) \/ ConfirmEnds(c)
                            \/ DeleteChannel(c) \/ Refused(c)
  BY <1>5, ConfirmReadsStep, ConfirmCountsStep, ConfirmEndsStep, DropStep
<1>6. CASE UNCHANGED addressVars
  <2>1. Tables'
    BY <1>6 DEF addressVars, AddressInv, Tables, Sound, Holder, viaInstallation
  <2>2. Grows
    BY <1>6 DEF addressVars, Grows
  <2>3. \A c \in calls' : ch # "telegram" /\ c.stage # "sent" /\ c.kind \in {"resend", "confirm"}
                            => RowStands(c)'
    BY <1>6, RowsStand DEF addressVars, AddressInv, RowStands
  <2>4. Calls'
    BY <1>6, <2>2, <2>3, CallsStay DEF addressVars, AddressInv, Calls
  <2> QED BY <2>1, <2>4 DEF AddressInv
<1> QED BY <1>1, <1>2, <1>3, <1>4, <1>5, <1>6 DEF Next

\* While the requests about one address are served one at a time, the row and what a
\* request read of it are sound after any step.
THEOREM AddressInvariant ==
  ASSUME AddressConstants, ~Overlap
  PROVE  Spec => []AddressInv
<1>1. Init => AddressInv
  BY AddressInit
<1>2. AddressInv /\ [Next]_addressVars => AddressInv'
  BY AddressStep
<1> QED BY <1>1, <1>2, PTL DEF Spec

\* proof.go:23: an address of the installation's that sends is one whose code, or whose
\* link, came back, whatever was saved, sent again, confirmed, removed and refused.
THEOREM NothingGoesUnproven ==
  ASSUME AddressConstants, ~Overlap
  PROVE  Spec => [](TypeOK /\ SendsWhereProven /\ CodeIsOfTheAddress)
<1>1. AddressInv => SendsWhereProven /\ CodeIsOfTheAddress
  BY DEF AddressInv, Tables, Sound, SendsWhereProven, CodeIsOfTheAddress, Holder
<1>2. AddressInv => TypeOK
  BY DEF AddressInv, Tables, Sound, Rows, TypeOK
<1> QED BY <1>1, <1>2, AddressInvariant, PTL

-----------------------------------------------------------------------------
(***************************************************************************)
(* The sheet of a transfer, for any transfers, templates and contents.      *)
(***************************************************************************)
CONSTANTS Transfers, Templates, MaxWrites
VARIABLES kept, opened, query, seeded, fields, saving, writes, since

T == INSTANCE TransferSheet

\* While the sheet is open on a transfer, what is fetched of it was there since it was
\* opened; once it is closed nothing fetched is left.
SheetInv ==
  /\ kept \in [Transfers -> T!Contents] /\ writes \in 0 .. MaxWrites
  /\ opened \in Transfers \cup {"new", None} /\ seeded \in {None, opened}
  /\ fields \in [of: Transfers \cup {"new"}, contents: T!Contents, typed: BOOLEAN, ok: BOOLEAN]
  /\ saving # None => saving.contents \in T!Contents
  /\ opened \notin Transfers => query = None
  /\ opened \in Transfers => kept[opened] \in since
  /\ opened \in Transfers /\ query # None =>
       /\ query.of = opened
       /\ query.data \in since \cup {None} /\ query.asked \in since \cup {None}
  /\ since \subseteq T!Contents
  /\ T!SeededAfresh

\* What is done to the fields, or to what the server has of it, keeps them of this opening.
LEMMA RendersAfresh ==
  ASSUME T!SheetConstants, SheetInv, T!Render(opened, query'),
         opened \in Transfers, UNCHANGED <<kept, saving, writes, since>>,
         query'.of = opened, query'.data \in since \cup {None}, query'.asked \in since \cup {None}
  PROVE  SheetInv'
<1>1. opened' = opened /\ opened # "new"
  BY DEF T!Render, T!SheetConstants
<1>2. CASE query' = None \/ query'.data = None \/ seeded = opened
  <2>1. seeded' \in {None, opened} /\ fields' = fields /\ (seeded' = opened => seeded = opened)
    BY <1>1, <1>2 DEF T!Render, T!SeedKey, T!SheetConstants
  <2> QED BY <1>1, <2>1 DEF SheetInv, T!SeededAfresh, T!SheetConstants
<1>3. CASE query' # None /\ query'.data # None /\ seeded # opened
  <2>1. /\ seeded' = opened
        /\ fields' = [of |-> opened, contents |-> query'.data, typed |-> FALSE, ok |-> TRUE]
    BY <1>1, <1>3 DEF T!Render, T!SeedKey, T!SheetConstants
  <2> QED BY <1>1, <1>3, <2>1 DEF SheetInv, T!SeededAfresh
<1> QED BY <1>2, <1>3

LEMMA SheetOpens ==
  ASSUME T!SheetConstants, SheetInv, T!OpenNew \/ \E x \in Transfers : T!OpenEdit(x)
  PROVE  SheetInv'
<1>1. opened = None /\ query = None /\ seeded = None
  BY DEF SheetInv, T!OpenNew, T!OpenEdit, T!SheetConstants
<1>2. CASE T!OpenNew
  <2>1. /\ opened' = "new" /\ query' = None /\ seeded' = "new" /\ fields' = T!Blank
    BY <1>1, <1>2 DEF T!OpenNew, T!Render, T!SeedKey, T!SheetConstants
  <2>2. 0 \in T!Contents
    BY DEF T!Contents, T!SheetConstants
  <2> QED BY <1>2, <2>1, <2>2 DEF T!OpenNew, SheetInv, T!Blank, T!SeededAfresh, T!SheetConstants
<1>3. ASSUME NEW x \in Transfers, T!OpenEdit(x)
      PROVE  SheetInv'
  <2>1. /\ opened' = x /\ query' = [of |-> x, data |-> None, asked |-> None]
        /\ seeded' = None /\ fields' = fields /\ since' = {kept[x]}
        /\ UNCHANGED <<kept, saving, writes>>
    BY <1>1, <1>3 DEF T!OpenEdit, T!Render, T!SeedKey, T!Fetching, T!SheetConstants
  <2> QED BY <2>1 DEF SheetInv, T!SeededAfresh, T!SheetConstants
<1> QED BY <1>2, <1>3

LEMMA SheetLoads ==
  ASSUME T!SheetConstants, SheetInv, T!ServerReads \/ T!Loaded
  PROVE  SheetInv'
<1>1. query # None /\ opened \in Transfers /\ query.of = opened
  BY DEF SheetInv, T!ServerReads, T!Loaded
<1>2. CASE T!ServerReads
  <2>1. /\ query' = [query EXCEPT !.asked = kept[query.of]]
        /\ UNCHANGED <<kept, opened, seeded, fields, saving, writes, since>>
    BY <1>2 DEF T!ServerReads
  <2>2. query' # None => /\ query'.of = opened /\ query'.data \in since \cup {None}
                         /\ query'.asked \in since \cup {None}
    BY <1>1, <2>1 DEF SheetInv
  <2> QED BY <1>1, <2>1, <2>2 DEF SheetInv, T!SeededAfresh
<1>3. CASE T!Loaded
  <2>1. /\ query' = [query EXCEPT !.data = query.asked, !.asked = None]
        /\ T!Render(opened, query') /\ UNCHANGED <<kept, saving, writes, since>>
    BY <1>3 DEF T!Loaded, T!Render
  <2>2. /\ query'.of = opened /\ query'.data \in since \cup {None}
        /\ query'.asked \in since \cup {None}
    BY <1>1, <2>1 DEF SheetInv
  <2> QED BY <1>1, <2>1, <2>2, RendersAfresh
<1> QED BY <1>2, <1>3

\* Closing leaves nothing fetched.
LEMMA SheetCloses ==
  ASSUME T!SheetConstants, SheetInv, T!close, writes' = writes, kept' \in [Transfers -> T!Contents],
         since' \subseteq T!Contents, saving' \in {saving, None}
  PROVE  SheetInv'
<1>1. opened' = None /\ query' = None /\ seeded' = None /\ fields' = fields
  BY DEF T!close, T!Dropped, T!Render, T!SeedKey, T!SheetConstants
<1> QED BY <1>1 DEF SheetInv, T!SeededAfresh, T!SheetConstants

\* What the server takes of the transfer the sheet is open on is of this opening.
LEMMA PutIsAfresh ==
  ASSUME T!SheetConstants, SheetInv, NEW x, NEW contents \in T!Contents, T!Put(x, contents)
  PROVE  /\ kept' \in [Transfers -> T!Contents] /\ since' \subseteq T!Contents
         /\ since \subseteq since' /\ (opened \in Transfers => kept'[opened] \in since')
BY DEF T!Put, SheetInv

LEMMA SheetStep ==
  ASSUME T!SheetConstants, SheetInv, [T!Next]_(T!sheetVars)
  PROVE  SheetInv'
<1>1. CASE T!OpenNew \/ \E x \in Transfers : T!OpenEdit(x)
  BY <1>1, SheetOpens
<1>2. CASE T!ServerReads \/ T!Loaded
  BY <1>2, SheetLoads
<1>3. CASE T!Cancel
  BY <1>3, SheetCloses DEF T!Cancel, SheetInv
<1>4. CASE T!Save
  <2>1. saving' # None => saving'.contents \in T!Contents
    BY <1>4 DEF T!Save, SheetInv
  <2> QED BY <1>4, <2>1 DEF T!Save, SheetInv, T!SeededAfresh
<1>5. ASSUME NEW ok \in BOOLEAN, T!Type(ok)
      PROVE  SheetInv'
  <2>1. writes' \in 0 .. MaxWrites /\ writes' \in T!Contents
    BY <1>5 DEF T!Type, SheetInv, T!Contents, T!SheetConstants
  <2>2. fields' = [fields EXCEPT !.contents = writes', !.typed = TRUE, !.ok = ok]
    BY <1>5 DEF T!Type
  <2>3. /\ fields' \in [of: Transfers \cup {"new"}, contents: T!Contents, typed: BOOLEAN, ok: BOOLEAN]
        /\ fields'.typed
    BY <2>1, <2>2 DEF SheetInv
  <2> QED BY <1>5, <2>1, <2>3 DEF T!Type, SheetInv, T!SeededAfresh
<1>6. ASSUME NEW tpl \in Templates, T!applyTemplate(tpl)
      PROVE  SheetInv'
  <2>1. fields' = [fields EXCEPT !.contents = tpl, !.typed = TRUE, !.ok = TRUE]
    BY <1>6 DEF T!applyTemplate
  <2>2. /\ fields' \in [of: Transfers \cup {"new"}, contents: T!Contents, typed: BOOLEAN, ok: BOOLEAN]
        /\ fields'.typed
    BY <2>1 DEF SheetInv, T!SheetConstants
  <2> QED BY <1>6, <2>2 DEF T!applyTemplate, SheetInv, T!SeededAfresh
<1>7. CASE T!Saved
  <2>1. kept' \in [Transfers -> T!Contents] /\ since' \subseteq T!Contents
    BY <1>7, PutIsAfresh DEF T!Saved, SheetInv
  <2> QED BY <1>7, <2>1, SheetCloses DEF T!Saved
<1>8. CASE T!NotSaved
  <2>1. /\ kept' \in [Transfers -> T!Contents] /\ since' \subseteq T!Contents
        /\ since \subseteq since' /\ (opened \in Transfers => kept'[opened] \in since')
    BY <1>8, PutIsAfresh DEF T!NotSaved, SheetInv
  <2> QED BY <1>8, <2>1 DEF T!NotSaved, SheetInv, T!SeededAfresh
<1>9. ASSUME NEW x \in Transfers, T!Elsewhere(x)
      PROVE  SheetInv'
  <2>1. writes' \in 0 .. MaxWrites /\ writes' \in T!Contents
    BY <1>9 DEF T!Elsewhere, SheetInv, T!Contents, T!SheetConstants
  <2>2. PICK w \in T!Contents : w = writes'
    BY <2>1
  <2>3. /\ kept' \in [Transfers -> T!Contents] /\ since' \subseteq T!Contents
        /\ since \subseteq since' /\ (opened \in Transfers => kept'[opened] \in since')
    BY <1>9, <2>2, PutIsAfresh DEF T!Elsewhere
  <2> QED BY <1>9, <2>1, <2>3 DEF T!Elsewhere, SheetInv, T!SeededAfresh
<1>10. CASE UNCHANGED T!sheetVars
  BY <1>10 DEF T!sheetVars, SheetInv, T!SeededAfresh
<1> QED BY <1>1, <1>2, <1>3, <1>4, <1>5, <1>6, <1>7, <1>8, <1>9, <1>10 DEF T!Next, T!Sheet

\* TransferForm.tsx:52, "the next opening waits for a fresh copy": whatever fetches and saves
\* were on their way when the sheet last closed, once its fields are filled for a transfer
\* they hold what the server had of it since this opening, or what was typed since.
THEOREM FilledAfresh ==
  ASSUME T!SheetConstants
  PROVE  T!Spec => [](T!TypeOK /\ T!SeededAfresh)
<1>1. T!Init => SheetInv
  BY DEF T!Init, SheetInv, T!Blank, T!SeededAfresh, T!SheetConstants, T!Contents
<1>2. SheetInv /\ [T!Next]_(T!sheetVars) => SheetInv'
  BY SheetStep
<1>3. SheetInv => T!TypeOK /\ T!SeededAfresh
  BY DEF SheetInv, T!TypeOK, T!SheetConstants
<1> QED BY <1>1, <1>2, <1>3, PTL DEF T!Spec

-----------------------------------------------------------------------------
(***************************************************************************)
(* The choices of notifications, for any events, channels and wallets.      *)
(***************************************************************************)
CONSTANTS Kinds, Slots, Fields, Typeable, Wallets, Notes
VARIABLES prefs, ticks, fetch, stale, settings, shown, limits, saved, amounts, included, ticked,
          unread, bell, panel, wallet, zoneSent, push, changes, sends

P == INSTANCE NotifyPages WITH fields <- amounts, opened <- panel, calls <- changes, made <- sends

Pairs == Kinds \X Slots
Thresholds == [largeOver: Nat, lowUnder: Int]

\* What is asked of the server: no tick of the security events in the bell.
InItsKind(c) ==
  /\ c.kind = "tick" => c.arg.at \in Pairs \ {<<"security", "inapp">>}
  /\ c.kind = "threshold" => c.arg \in Thresholds
NoTicks == \A c \in changes : c.kind # "tick"

\* With no tick on its way the ticks shown are the server's, or will be when the fetch
\* arrives that is on its way or due.
Settles == NoTicks /\ ~stale => IF fetch = None THEN ticks = prefs ELSE fetch = prefs

ChoicesInv ==
  /\ limits \in Thresholds /\ saved \in Thresholds /\ amounts \in Thresholds
  /\ prefs \subseteq Pairs /\ ticks \subseteq Pairs /\ (fetch # None => fetch \subseteq Pairs)
  /\ "security" \in Kinds => <<"security", "inapp">> \in prefs
  /\ wallet \in Wallets /\ bell \subseteq DOMAIN Notes /\ unread \subseteq DOMAIN Notes
  /\ push \in [busy: BOOLEAN, subscribed: BOOLEAN, denied: BOOLEAN]
  /\ push.subscribed \/ push.busy => ~push.denied
  /\ \A c \in changes : InItsKind(c)
  /\ Settles

LEMMA Ticking ==
  ASSUME P!ChoicesConstants, ChoicesInv, NEW kind \in Kinds, NEW slot \in Slots,
         kind # "security" \/ slot # "inapp", P!Tick(kind, slot)
  PROVE  ChoicesInv'
<1>1. PICK v : /\ v.at = <<kind, slot>> /\ P!mutate("tick", v)
               /\ ticks' \in {ticks \cup {v.at}, ticks \ {v.at}} /\ fetch' = None
  <2>1. PICK v : v = [at |-> <<kind, slot>>, on |-> <<kind, slot>> \notin ticks]
    OBVIOUS
  <2>2. P!mutate("tick", v) /\ P!onMutate(v)
    BY <2>1 DEF P!Tick, P!mutate, P!onMutate
  <2>3. v.at = <<kind, slot>>
    BY <2>1
  <2> QED BY <2>2, <2>3 DEF P!onMutate
<1>2. PICK c : changes' = changes \cup {c} /\ c.kind = "tick" /\ c.arg = v
  <2>1. PICK c : c = [no |-> sends', kind |-> "tick", arg |-> v]
    OBVIOUS
  <2> QED BY <1>1, <2>1 DEF P!mutate
<1>3. v.at \in Pairs \ {<<"security", "inapp">>} /\ ticks' \subseteq Pairs
  BY <1>1 DEF Pairs, ChoicesInv
<1>4. \A d \in changes' : InItsKind(d)
  BY <1>2, <1>3 DEF ChoicesInv, InItsKind
<1>5. Settles'
  BY <1>2 DEF Settles, NoTicks
<1>6. UNCHANGED <<prefs, settings, limits, included, unread, shown, saved, amounts, ticked, bell, panel,
                  wallet, zoneSent, push>>
  BY DEF P!Tick, P!server, P!money, P!theBell
<1> QED BY <1>1, <1>3, <1>4, <1>5, <1>6 DEF ChoicesInv

\* A step that asks for something else, or for nothing, and leaves the ticks.
LEMMA AsksElse ==
  ASSUME ChoicesInv, UNCHANGED <<prefs, limits, unread, ticks, fetch, stale, saved>>,
         amounts' \in Thresholds, wallet' \in Wallets, bell' \subseteq DOMAIN Notes,
         push' \in [busy: BOOLEAN, subscribed: BOOLEAN, denied: BOOLEAN],
         push'.subscribed \/ push'.busy => ~push'.denied,
         \A c \in changes' : c \in changes \/ (c.kind # "tick" /\ InItsKind(c)),
         changes \subseteq changes'
  PROVE  ChoicesInv'
<1>1. NoTicks' => NoTicks
  BY DEF NoTicks
<1>2. Settles'
  BY <1>1 DEF Settles, ChoicesInv
<1>3. \A c \in changes' : InItsKind(c)
  BY DEF ChoicesInv
<1> QED BY <1>2, <1>3 DEF ChoicesInv

\* A call of the kind k leaves.
LEMMA OneMore ==
  ASSUME NEW k, NEW arg, P!mutate(k, arg), k # "tick", k = "threshold" => arg \in Thresholds
  PROVE  /\ \A c \in changes' : c \in changes \/ (c.kind # "tick" /\ InItsKind(c))
         /\ changes \subseteq changes'
BY DEF P!mutate, InItsKind

LEMMA Thresholding ==
  ASSUME P!ChoicesConstants, ChoicesInv, P!WalletThresholds
  PROVE  ChoicesInv'
<1>1. PICK field \in {"largeOver", "lowUnder"}, v \in Typeable : P!AmountField(field, v)
  BY DEF P!WalletThresholds, P!NoLimits
<1>2. amounts' \in Thresholds
  <2>1. v \in Int /\ (field = "largeOver" => P!Amount(field, v) \in Nat) /\ P!Amount(field, v) \in Int
    BY DEF P!ChoicesConstants, P!Amount
  <2>2. amounts' = [amounts EXCEPT ![field] = P!Amount(field, v)]
    BY <1>1 DEF P!AmountField
  <2> QED BY <2>1, <2>2 DEF ChoicesInv, Thresholds
<1>3. [saved EXCEPT ![field] = amounts'[field]] \in Thresholds
  BY <1>2 DEF ChoicesInv, Thresholds
<1>4. /\ \A c \in changes' : c \in changes \/ (c.kind # "tick" /\ InItsKind(c))
      /\ changes \subseteq changes'
  <2>1. CASE amounts'[field] = saved[field]
    BY <1>1, <2>1 DEF P!AmountField
  <2>2. CASE amounts'[field] # saved[field]
    <3>1. PICK arg \in Thresholds : arg = [saved EXCEPT ![field] = amounts'[field]]
      BY <1>3
    <3>2. P!mutate("threshold", arg)
      BY <1>1, <2>2, <3>1 DEF P!AmountField
    <3> QED BY <3>1, <3>2, OneMore
  <2> QED BY <2>1, <2>2
<1>5. UNCHANGED <<prefs, settings, limits, included, unread, ticks, fetch, stale, shown, saved,
                  ticked, bell, panel, wallet, zoneSent, push>>
  BY <1>1 DEF P!AmountField, P!server, P!events, P!theBell
<1> QED BY <1>2, <1>4, <1>5, AsksElse DEF ChoicesInv

LEMMA Opening ==
  ASSUME P!ChoicesConstants, ChoicesInv, P!Panel
  PROVE  ChoicesInv'
<1>1. CASE P!MarkAll
  <2>1. P!mutate("readAll", None)
    BY <1>1 DEF P!MarkAll
  <2>2. /\ \A c \in changes' : c \in changes \/ (c.kind # "tick" /\ InItsKind(c))
        /\ changes \subseteq changes'
    BY <2>1, OneMore
  <2> QED BY <1>1, <2>2, AsksElse DEF P!MarkAll, P!server, P!events, P!money, P!theBell, ChoicesInv
<1>2. ASSUME NEW n \in bell, P!Open(n)
      PROVE  ChoicesInv'
  <2>1. P!mutate("read", {n})
    BY <1>2 DEF P!Open
  <2>2. /\ \A c \in changes' : c \in changes \/ (c.kind # "tick" /\ InItsKind(c))
        /\ changes \subseteq changes'
    BY <2>1, OneMore
  <2>3. wallet' \in Wallets
    BY <1>2 DEF P!Open, P!ChoicesConstants, ChoicesInv
  <2> QED BY <1>2, <2>2, <2>3, AsksElse DEF P!Open, P!server, P!events, P!money, ChoicesInv
<1> QED BY <1>1, <1>2 DEF P!Panel

LEMMA Saving ==
  ASSUME ChoicesInv,
         \/ P!WhenCard \/ P!useSendTimeZone
         \/ \E w \in Wallets : P!TickWallet(w)
  PROVE  ChoicesInv'
<1> USE DEF P!server, P!events, P!money, P!theBell
<1>1. ASSUME NEW f, P!SaveField(f)
      PROVE  ChoicesInv'
  <2>1. P!mutate("settings", f)
    BY <1>1 DEF P!SaveField
  <2>2. /\ \A c \in changes' : c \in changes \/ (c.kind # "tick" /\ InItsKind(c))
        /\ changes \subseteq changes'
    BY <2>1, OneMore
  <2> QED BY <1>1, <2>2, AsksElse DEF P!SaveField, ChoicesInv
<1>2. ASSUME NEW w, P!TickWallet(w)
      PROVE  ChoicesInv'
  <2>1. PICK arg : P!mutate("wallet", arg)
    BY <1>2 DEF P!TickWallet
  <2>2. /\ \A c \in changes' : c \in changes \/ (c.kind # "tick" /\ InItsKind(c))
        /\ changes \subseteq changes'
    BY <2>1, OneMore
  <2> QED BY <1>2, <2>2, AsksElse DEF P!TickWallet, ChoicesInv
<1>3. CASE P!useSendTimeZone
  BY <1>1, <1>3, AsksElse DEF P!useSendTimeZone, ChoicesInv
<1> QED BY <1>1, <1>2, <1>3 DEF P!WhenCard

LEMMA Pushing ==
  ASSUME ChoicesInv, P!toggle \/ P!Toggled \/ P!NotificationBell \/ P!Poll
  PROVE  ChoicesInv'
<1> USE DEF P!server, P!events, P!money, P!theBell
<1>1. CASE P!toggle \/ P!Toggled
  <2>1. /\ push' \in [busy: BOOLEAN, subscribed: BOOLEAN, denied: BOOLEAN]
        /\ push'.subscribed \/ push'.busy => ~push'.denied
    BY <1>1 DEF P!toggle, P!Toggled, ChoicesInv
  <2> QED BY <1>1, <2>1, AsksElse DEF P!toggle, P!Toggled, ChoicesInv
<1>2. CASE P!NotificationBell
  BY <1>2, AsksElse DEF P!NotificationBell, ChoicesInv
<1>3. CASE P!Poll
  BY <1>3, AsksElse DEF P!Poll, ChoicesInv
<1> QED BY <1>1, <1>2, <1>3

\* A tick's answer, good or bad, has the ticks fetched again; no other answer writes them.
LEMMA Answering ==
  ASSUME ChoicesInv, NEW c \in changes, NEW ok \in BOOLEAN, P!Answer(c, ok)
  PROVE  ChoicesInv'
<1>1. InItsKind(c)
  BY DEF ChoicesInv
<1>2. /\ changes' = changes \ {c} /\ UNCHANGED <<ticks, fetch, amounts, wallet, push>>
      /\ stale' = (stale \/ c.kind = "tick")
      /\ saved' = IF c.kind = "threshold" THEN limits' ELSE saved
      /\ bell' = IF c.kind \in {"read", "readAll"} THEN unread' ELSE bell
  BY DEF P!Answer, P!onSettled
<1>3. /\ limits' \in Thresholds /\ unread' \subseteq DOMAIN Notes
      /\ IF c.kind = "tick"
         THEN /\ prefs' \in {prefs, prefs \cup {c.arg.at}, prefs \ {c.arg.at}}
         ELSE prefs' = prefs
  <2>1. CASE ok
    <3>1. P!Served(c)
      BY <2>1 DEF P!Answer
    <3>2. CASE c.kind = "tick"
      BY <3>1, <3>2 DEF P!Served, ChoicesInv
    <3>3. CASE c.kind = "threshold"
      BY <1>1, <3>1, <3>3 DEF P!Served, ChoicesInv, InItsKind
    <3>4. CASE c.kind \in {"settings", "wallet"}
      BY <3>1, <3>4 DEF P!Served, ChoicesInv
    <3>5. CASE c.kind \notin {"tick", "threshold", "settings", "wallet"}
      BY <3>1, <3>5 DEF P!Served, ChoicesInv
    <3> QED BY <3>2, <3>3, <3>4, <3>5
  <2>2. CASE ~ok
    BY <2>2 DEF P!Answer, P!server, ChoicesInv
  <2> QED BY <2>1, <2>2
<1>4. prefs' \subseteq Pairs /\ ("security" \in Kinds => <<"security", "inapp">> \in prefs')
  BY <1>1, <1>3 DEF ChoicesInv, InItsKind
<1>5. Settles'
  <2>1. CASE c.kind = "tick"
    BY <1>2, <2>1 DEF Settles
  <2>2. CASE c.kind # "tick"
    <3>1. NoTicks' => NoTicks
      BY <1>2, <2>2 DEF NoTicks
    <3> QED BY <1>2, <1>3, <2>2, <3>1 DEF Settles, ChoicesInv
  <2> QED BY <2>1, <2>2
<1> QED BY <1>2, <1>3, <1>4, <1>5 DEF ChoicesInv

LEMMA Fetching ==
  ASSUME P!ChoicesConstants, ChoicesInv,
         \/ P!usePreferences \/ P!Fetched \/ P!Focused
         \/ \E n \in DOMAIN Notes : P!Told(n)
  PROVE  ChoicesInv'
<1> USE DEF P!server, P!events, P!money, P!theBell
<1>1. CASE P!usePreferences
  <2>1. prefs # None
    BY DEF P!ChoicesConstants, ChoicesInv, Pairs
  <2> QED BY <1>1, <2>1 DEF P!usePreferences, ChoicesInv, Settles, InItsKind
<1>2. CASE P!Fetched
  BY <1>2 DEF P!Fetched, ChoicesInv, Settles, NoTicks, InItsKind
<1>3. CASE P!Focused
  BY <1>3 DEF P!Focused, ChoicesInv, Settles, InItsKind
<1>4. CASE \E n \in DOMAIN Notes : P!Told(n)
  BY <1>4 DEF P!Told, ChoicesInv, Settles, NoTicks, InItsKind
<1> QED BY <1>1, <1>2, <1>3, <1>4

LEMMA ChoicesStep ==
  ASSUME P!ChoicesConstants, ChoicesInv, [P!Next]_(P!pageVars)
  PROVE  ChoicesInv'
<1>1. CASE P!ChannelEvents
  BY <1>1, Ticking DEF P!ChannelEvents
<1>2. CASE P!ModeList
  BY <1>2, Ticking DEF P!ModeList, P!ChoicesConstants
<1>3. CASE UNCHANGED P!pageVars
  BY <1>3 DEF P!pageVars, ChoicesInv, Settles, NoTicks, InItsKind
<1> QED BY <1>1, <1>2, <1>3, Thresholding, Opening, Saving, Pushing, Answering, Fetching DEF P!Next

\* NotificationsPages.tsx:200, "tick at once; the server's answer settles it": when nothing is on
\* its way the ticks are the server's, whatever was ticked, refused, called off and fetched in
\* between; and the security events are always in the bell.
THEOREM TicksComeToRest ==
  ASSUME P!ChoicesConstants
  PROVE  P!Spec => [](P!TypeOK /\ P!TicksSettle)
<1>1. P!Init => ChoicesInv
  BY DEF P!Init, P!ChoicesConstants, P!NoLimits, ChoicesInv, Settles, Thresholds, Pairs
<1>2. ChoicesInv /\ [P!Next]_(P!pageVars) => ChoicesInv'
  BY ChoicesStep
<1>3. ChoicesInv => P!TypeOK /\ P!TicksSettle
  BY DEF ChoicesInv, P!TypeOK, P!TicksSettle, Settles, NoTicks, Thresholds, Pairs
<1> QED BY <1>1, <1>2, <1>3, PTL DEF P!Spec

-----------------------------------------------------------------------------
(***************************************************************************)
(* Connecting a bank, for any texts, countries and banks.                   *)
(***************************************************************************)
CONSTANTS Texts, Countries, Banks, MaxSteps
VARIABLES apps, cfg, consents, connected, modal, token, config, item, consent, sending, page,
          callback, inflight, steps, begun, completions, used, established, doubtful

C == INSTANCE BankConnect

Applications == [id: Texts, secret: Texts]
OrBlank == Texts \cup {None}

\* The calls there are, and what one that writes an application says of it.
SaysWhich(c) == /\ c.kind \in {"remove", "pluggyConfig", "ebConfig", "simplefin", "demo", "pluggy", "start", "reauth"}
                /\ c.kind = "pluggyConfig" => c.arg \in Applications
                /\ c.kind = "ebConfig" => c.arg \in [id: Texts, secret: OrBlank]

FormsInv ==
  /\ apps \in [C!Providers -> Applications \cup {None}]
  /\ cfg \in [C!Providers -> OrBlank]
  /\ token \in OrBlank /\ config \in [id: OrBlank, secret: OrBlank]
  /\ page \in {"settings", "bank", "callback"}
  /\ \A c \in sending : SaysWhich(c)
  /\ begun \in Nat /\ 1..begun \subseteq C!States

\* A completion is numbered, and no two have one number.
IsCompletion(c) ==
  /\ c = [no |-> c.no, state |-> c.state, step |-> c.step, again |-> c.again, answer |-> c.answer]
  /\ c.no \in Nat /\ c.state \in C!States /\ c.answer \in {None, "ok", "failed"}
  /\ c.step \in {"sent", "read", "exchanged", "written", "over"}
Completions ==
  /\ IsFiniteSet(completions) /\ \A c \in completions : IsCompletion(c) /\ c.no <= Cardinality(completions)
  /\ \A c, d \in completions : c.no = d.no => c = d

\* A load remembers the completion it sent, and a state that is not doubtful has that one alone.
InFlight ==
  /\ inflight \in [C!States -> Nat \cup {None}]
  /\ \A s \in C!States : inflight[s] # None => inflight[s] <= Cardinality(completions)
  /\ \A c \in completions : \A s \in C!States : c.no = inflight[s] => c.state = s
  /\ \A c \in completions : c.state \notin doubtful => inflight[c.state] = c.no

\* The one that exchanged the code writes the connection, or nobody does.
WroteIt(c) == c.step = "written" \/ c.answer = "ok"
WrittenOnce ==
  /\ established \in [C!States -> {0, 1}]
  /\ \A c \in completions : c.step = "exchanged" => established[c.state] = 0 /\ c.state \in used
  /\ \A c, d \in completions : c.step = "exchanged" /\ d.step = "exchanged" /\ c.state = d.state => c = d
  /\ \A c \in completions : WroteIt(c) => established[c.state] = 1
  /\ \A s \in C!States : established[s] = 1 =>
       s \in used /\ (s \notin doubtful => \E c \in completions : c.state = s /\ WroteIt(c))

\* An answer is of a call that is over and tells of it, if nothing makes it doubtful.
AnswersHold ==
  \A c \in completions :
    /\ c.answer = "ok" => c.step = "over"
    /\ c.answer = "failed" /\ c.state \notin doubtful => c.step = "over" /\ established[c.state] = 0

\* What the page shows is the answer of the completion it remembers.
ShowsTheAnswer ==
  /\ callback = [state |-> callback.state, code |-> callback.code, status |-> callback.status]
  /\ callback.code \in BOOLEAN /\ (callback.code => callback.state \in C!States)
  /\ callback.code /\ callback.status = "done" => established[callback.state] = 1
  /\ callback.code /\ callback.status = "error" /\ callback.state \notin doubtful =>
       \E c \in completions : c.no = inflight[callback.state] /\ c.answer = "failed"

ConsentInv == Completions /\ InFlight /\ WrittenOnce /\ AnswersHold /\ ShowsTheAnswer

LEMMA ReaderStep ==
  ASSUME C!ConnectConstants, FormsInv, C!Reader
  PROVE  FormsInv'
<1>1. UNCHANGED <<apps, cfg, page, begun>>
  BY DEF C!Reader, C!Does, C!server, C!away
<1> DEFINE Kept == /\ token' \in OrBlank /\ config' \in [id: OrBlank, secret: OrBlank]
                   /\ \A c \in sending' : c \in sending \/ SaysWhich(c)
<1>2. Kept
  <2> USE DEF C!forms, C!mutate, C!Closed, FormsInv
  <2>1. CASE C!BankSyncSettings
    BY <2>1 DEF C!BankSyncSettings, C!Open
  <2>2. ASSUME NEW p \in C!Providers, C!Panel(p)
        PROVE  Kept
    <3>1. ASSUME NEW m, m.of = p, C!Open(m)
          PROVE  Kept
      <4>1. cfg[p] \in OrBlank /\ None \in OrBlank
        BY DEF OrBlank
      <4> QED BY <3>1, <4>1 DEF C!Open
    <3> QED BY <2>2, <3>1 DEF C!Panel, SaysWhich
  <2>3. CASE C!DemoBankPanel
    BY <2>3 DEF C!DemoBankPanel, SaysWhich
  <2>9. CASE C!ConnectionCard
    BY <2>9 DEF C!ConnectionCard, SaysWhich
  <2>4. CASE C!ConnectModal
    BY <2>4 DEF C!ConnectModal, SaysWhich, OrBlank
  <2>5. CASE C!PluggyConfigForm
    <3>1. CASE \E x \in Texts : config' \in {[config EXCEPT !.id = x], [config EXCEPT !.secret = x]}
      BY <2>5, <3>1 DEF C!PluggyConfigForm, OrBlank, SaysWhich, Applications
    <3>2. CASE config' = config
      <4>1. config.id # None /\ config.secret # None => config \in Applications
        BY DEF OrBlank, Applications
      <4> QED BY <2>5, <3>2, <4>1 DEF C!PluggyConfigForm, SaysWhich
    <3> QED BY <2>5, <3>1, <3>2 DEF C!PluggyConfigForm
  <2>6. CASE C!PluggyConnectForm
    BY <2>6 DEF C!PluggyConnectForm, SaysWhich
  <2>7. CASE C!EnableBankingConfigModal
    <3>1. CASE \E x \in Texts : config' \in {[config EXCEPT !.id = x], [config EXCEPT !.secret = x]}
      BY <2>7, <3>1 DEF C!EnableBankingConfigModal, OrBlank, SaysWhich
    <3>2. CASE config' = config
      <4>1. config.id # None => config \in [id: Texts, secret: OrBlank]
        BY DEF OrBlank
      <4> QED BY <2>7, <3>2, <4>1 DEF C!EnableBankingConfigModal, SaysWhich
    <3> QED BY <2>7, <3>1, <3>2 DEF C!EnableBankingConfigModal
  <2>8. CASE C!EnableBankingConnectModal
    BY <2>8 DEF C!EnableBankingConnectModal, SaysWhich
  <2> QED BY <2>1, <2>2, <2>3, <2>4, <2>5, <2>6, <2>7, <2>8, <2>9
          DEF C!Reader, C!PluggyPanel, C!EnableBankingPanel, C!Providers
<1> QED BY <1>1, <1>2 DEF FormsInv

\* Authorizations are numbered up to their bound.
LEMMA ServedBegins ==
  ASSUME C!ConnectConstants, FormsInv, NEW c \in sending, C!Served(c)
  PROVE  begun' \in Nat /\ 1..begun' \subseteq C!States
<1>1. /\ begun \in Nat /\ 1..begun \subseteq C!States
      /\ begun' = begun \/ (begun' = begun + 1 /\ begun' \in C!States)
  BY DEF FormsInv, C!Served, C!ebStartAuth, C!SetEBankingConfig, C!Connected, SaysWhich
<1> QED BY <1>1 DEF C!States, C!ConnectConstants

\* What the server does for a call: an application that is written has its secret, the one
\* it had when none came.
LEMMA ServedApps ==
  ASSUME C!ConnectConstants, FormsInv, NEW c \in sending, C!Served(c)
  PROVE  apps' \in [C!Providers -> Applications \cup {None}]
<1>1. SaysWhich(c) /\ apps \in [C!Providers -> Applications \cup {None}]
  BY DEF FormsInv
<1>2. CASE c.kind = "remove"
  BY <1>1, <1>2 DEF C!Served
<1>3. CASE c.kind = "pluggyConfig"
  BY <1>1, <1>3 DEF C!Served, SaysWhich
<1>4. CASE c.kind = "ebConfig"
  <2>1. C!SetEBankingConfig(c.arg)
    BY <1>4 DEF C!Served
  <2>2. c.arg.id \in Texts /\ c.arg.secret \in OrBlank
    BY <1>1, <1>4 DEF SaysWhich
  <2>3. apps["enablebanking"] \in Applications \cup {None}
    BY <1>1 DEF C!Providers
  <2>4. (IF c.arg.secret = None THEN apps["enablebanking"].secret ELSE c.arg.secret) \in Texts
    BY <2>1, <2>2, <2>3 DEF C!SetEBankingConfig, OrBlank, Applications
  <2> QED BY <1>1, <2>1, <2>2, <2>4 DEF C!SetEBankingConfig, Applications
<1>5. CASE c.kind \in {"simplefin", "demo", "pluggy", "start", "reauth"}
  BY <1>1, <1>5 DEF C!Served, C!ebStartAuth
<1> QED BY <1>1, <1>2, <1>3, <1>4, <1>5 DEF SaysWhich

LEMMA AnswerStep ==
  ASSUME C!ConnectConstants, FormsInv, NEW c \in sending, C!Succeed(c) \/ C!Fail(c)
  PROVE  FormsInv'
<1>1. CASE C!Succeed(c)
  <2>1. /\ apps' \in [C!Providers -> Applications \cup {None}]
        /\ begun' \in Nat /\ 1..begun' \subseteq C!States
    BY <1>1, ServedApps, ServedBegins DEF C!Succeed
  <2>2. token' \in OrBlank /\ config' \in [id: OrBlank, secret: OrBlank]
    BY <1>1 DEF C!Succeed, FormsInv, OrBlank
  <2>3. page' \in {"settings", "bank", "callback"}
    BY <1>1 DEF C!Succeed, FormsInv
  <2> QED BY <1>1, <2>1, <2>2, <2>3 DEF C!Succeed, FormsInv
<1>2. CASE C!Fail(c)
  <2>1. /\ apps' \in [C!Providers -> Applications \cup {None}]
        /\ begun' \in Nat /\ 1..begun' \subseteq C!States
    <3>1. CASE UNCHANGED C!server
      BY <3>1 DEF C!server, FormsInv
    <3>2. CASE C!Served(c)
      BY <3>2, ServedApps, ServedBegins
    <3> QED BY <1>2, <3>1, <3>2 DEF C!Fail
  <2> QED BY <1>2, <2>1 DEF C!Fail, C!forms, C!away, FormsInv
<1> QED BY <1>1, <1>2

\* Away from the settings the applications stay, and a new load begins with blank forms.
Returns == \/ C!Mount \/ C!Told \/ C!Back \/ C!Reload
           \/ \E s \in 1..begun, code \in BOOLEAN : C!Redirect(s, code)
           \/ \E c \in completions : C!EBankingCompleteAuth(c)
LEMMA ReturnsKeepForms ==
  ASSUME FormsInv, Returns
  PROVE  FormsInv'
<1> USE DEF C!server, C!forms
<1>1. CASE C!Mount \/ C!Told \/ C!Back
  BY <1>1 DEF C!Mount, C!Told, C!Back, FormsInv
<1>2. ASSUME C!NewLoad, page' = "callback"
      PROVE  FormsInv'
  BY <1>2 DEF C!NewLoad, FormsInv, OrBlank
<1>3. CASE C!Reload \/ \E s \in 1..begun, code \in BOOLEAN : C!Redirect(s, code)
  BY <1>2, <1>3 DEF C!Reload, C!Redirect, C!Opens
<1>4. CASE \E c \in completions : C!EBankingCompleteAuth(c)
  BY <1>4 DEF C!EBankingCompleteAuth, FormsInv
<1> QED BY <1>1, <1>3, <1>4 DEF Returns

\* A completion that gets on is still the one of its number, with the others.
GetsOn(c, d) ==
  /\ d = [no |-> c.no, state |-> c.state, step |-> d.step, again |-> d.again, answer |-> d.answer]
  /\ d.step \in {"sent", "read", "exchanged", "written", "over"}
  /\ d.answer \in {None, "ok", "failed"} /\ (c.answer # None => d.answer = c.answer)
  /\ c.step # "over" /\ completions' = (completions \ {c}) \cup {d}
LEMMA GettingOn ==
  ASSUME Completions, InFlight, NEW c \in completions, NEW d, GetsOn(c, d),
         doubtful \subseteq doubtful', inflight' = inflight
  PROVE  Completions' /\ InFlight'
<1>1. /\ IsFiniteSet(completions') /\ Cardinality(completions') = Cardinality(completions)
  <2>1. /\ IsFiniteSet(completions \ {c}) /\ Cardinality(completions \ {c}) = Cardinality(completions) - 1
        /\ Cardinality(completions) \in Nat
    BY FS_RemoveElement, FS_CardinalityType DEF Completions
  <2>2. d \notin completions \ {c}
    BY DEF GetsOn, Completions
  <2>3. /\ IsFiniteSet((completions \ {c}) \cup {d})
        /\ Cardinality((completions \ {c}) \cup {d}) = Cardinality(completions \ {c}) + 1
    BY <2>1, <2>2, FS_AddElement
  <2> QED BY <2>1, <2>3 DEF GetsOn
<1>2. IsCompletion(d) /\ d.no <= Cardinality(completions)
  BY DEF GetsOn, Completions, IsCompletion
<1>3. \A x \in completions' : x = d \/ (x \in completions /\ x # c)
  BY DEF GetsOn
<1>4. d.no = c.no /\ d.state = c.state
  BY DEF GetsOn
<1>5. Completions'
  <2>1. \A x \in completions' : IsCompletion(x)' /\ x.no <= Cardinality(completions)
    BY <1>2, <1>3 DEF Completions, IsCompletion
  <2>2. \A x, y \in completions' : x.no = y.no => x = y
    BY <1>3, <1>4 DEF Completions
  <2> QED BY <1>1, <2>1, <2>2 DEF Completions
<1>6. InFlight'
  <2>1. \A s \in C!States : inflight'[s] # None => inflight'[s] <= Cardinality(completions')
    BY <1>1 DEF InFlight
  <2>2. \A x \in completions' : \A s \in C!States : x.no = inflight'[s] => x.state = s
    BY <1>3, <1>4 DEF InFlight
  <2>3. \A x \in completions' : x.state \notin doubtful' => inflight'[x.state] = x.no
    BY <1>3, <1>4 DEF InFlight
  <2> QED BY <2>1, <2>2, <2>3 DEF InFlight
<1> QED BY <1>5, <1>6

\* A state that is not doubtful has one completion.
LEMMA OneEach ==
  ASSUME Completions, InFlight, NEW c \in completions, NEW d \in completions,
         c.state = d.state, c.state \notin doubtful
  PROVE  c = d
BY DEF Completions, InFlight

LEMMA CompletionStep ==
  ASSUME C!ConnectConstants, ConsentInv, NEW c \in completions, C!EBankingCompleteAuth(c)
  PROVE  ConsentInv'
<1> USE DEF ConsentInv
<1>0. /\ c = [no |-> c.no, state |-> c.state, step |-> c.step, again |-> c.again, answer |-> c.answer]
      /\ c.state \in C!States /\ c.answer \in {None, "ok", "failed"}
      /\ UNCHANGED <<inflight, callback>>
      /\ established \in [C!States -> {0, 1}]
      /\ None \notin {"ok", "failed"}
  BY DEF Completions, IsCompletion, C!EBankingCompleteAuth, WrittenOnce, C!ConnectConstants
\* What is left to show once the step, and what it makes of c, are known.
<1>1. ASSUME NEW d, GetsOn(c, d), established' \in [C!States -> {0, 1}],
             doubtful \subseteq doubtful', used \subseteq used',
             \A s \in C!States : established'[s] = established[s] \/ (s = c.state /\ WroteIt(d) /\ established'[s] = 1),
             established'[c.state] # established[c.state] => c.step = "exchanged",
             d.step = "exchanged" => /\ established[c.state] = 0 /\ c.state \in used'
                                     /\ c.step = "exchanged" \/ c.state \notin used,
             WroteIt(d) => established'[c.state] = 1,
             c.state \notin doubtful' /\ WroteIt(c) => WroteIt(d),
             d.answer = "ok" => d.step = "over",
             d.answer = "failed" /\ c.state \notin doubtful' => d.step = "over" /\ established'[c.state] = 0
      PROVE  ConsentInv'
  <2>0. /\ \A x \in completions' : x = d \/ (x \in completions /\ x # c)
        /\ d.no = c.no /\ d.state = c.state /\ d \in completions'
        /\ \A x \in completions : x = c \/ x \in completions'
        /\ c.step # "over" /\ (c.answer # None => d.answer = c.answer)
    BY <1>1 DEF GetsOn
  <2>1. Completions' /\ InFlight'
    BY <1>0, <1>1, GettingOn
  <2>2. \A x \in completions : x.step = "exchanged" => established[x.state] = 0 /\ x.state \in used
    BY DEF WrittenOnce
  <2>3. \A x \in completions : x.state \in C!States
    BY DEF Completions, IsCompletion
  <2>4. WrittenOnce'
    <3>1. \A x \in completions' : x.step = "exchanged" => established'[x.state] = 0 /\ x.state \in used'
      <4> SUFFICES ASSUME NEW x \in completions', x.step = "exchanged"
                   PROVE  established'[x.state] = 0 /\ x.state \in used'
        OBVIOUS
      <4>1. CASE x = d
        BY <1>0, <1>1, <2>0, <2>2, <4>1 DEF WroteIt
      <4>2. CASE x \in completions /\ x # c
        <5>1. established[x.state] = 0 /\ x.state \in used /\ x.state \in C!States
          BY <2>2, <2>3, <4>2
        <5>2. established'[x.state] = established[x.state]
          <6>1. CASE x.state = c.state
            BY <1>1, <4>2, <6>1 DEF WrittenOnce
          <6> QED BY <1>1, <5>1, <6>1
        <5> QED BY <1>1, <5>1, <5>2
      <4> QED BY <2>0, <4>1, <4>2
    <3>2. \A x, y \in completions' : x.step = "exchanged" /\ y.step = "exchanged" /\ x.state = y.state => x = y
      BY <1>1, <2>0, <2>2 DEF WrittenOnce
    <3>3. \A x \in completions' : WroteIt(x) => established'[x.state] = 1
      BY <1>1, <2>0, <2>3 DEF WrittenOnce
    <3>4. ASSUME NEW s \in C!States, established'[s] = 1
          PROVE  s \in used' /\ (s \notin doubtful' => \E x \in completions' : x.state = s /\ WroteIt(x))
      <4>1. CASE established[s] = 1
        <5>1. s \in used
          BY <4>1 DEF WrittenOnce
        <5>2. ASSUME s \notin doubtful' PROVE \E x \in completions' : x.state = s /\ WroteIt(x)
          <6>1. PICK x \in completions : x.state = s /\ WroteIt(x)
            BY <1>1, <4>1, <5>2 DEF WrittenOnce
          <6>2. CASE x = c
            BY <1>1, <2>0, <5>2, <6>1, <6>2
          <6> QED BY <2>0, <6>1, <6>2
        <5> QED BY <1>1, <5>1, <5>2
      <4>2. CASE established[s] # 1
        <5>1. s = c.state /\ WroteIt(d) /\ c.step = "exchanged"
          BY <1>1, <3>4, <4>2
        <5> QED BY <1>1, <2>0, <2>2, <5>1
      <4> QED BY <4>1, <4>2
    <3> QED BY <1>1, <3>1, <3>2, <3>3, <3>4 DEF WrittenOnce, WroteIt
  <2>5. AnswersHold'
    <3> SUFFICES ASSUME NEW x \in completions'
                 PROVE  /\ x.answer = "ok" => x.step = "over"
                        /\ x.answer = "failed" /\ x.state \notin doubtful' => x.step = "over" /\ established'[x.state] = 0
      BY DEF AnswersHold
    <3>1. CASE x = d
      BY <1>1, <2>0, <3>1
    <3>2. CASE x \in completions /\ x # c
      <4>1. ASSUME x.state \notin doubtful'
            PROVE  x.state # c.state
        BY <1>1, <3>2, <4>1, OneEach
      <4> QED BY <1>1, <2>3, <3>2, <4>1 DEF AnswersHold
    <3> QED BY <2>0, <3>1, <3>2
  <2>6. ShowsTheAnswer'
    <3>1. callback.code /\ callback.status = "done" => established'[callback.state] = 1
      BY <1>1 DEF ShowsTheAnswer
    <3>2. ASSUME callback.code, callback.status = "error", callback.state \notin doubtful'
          PROVE  \E x \in completions' : x.no = inflight[callback.state] /\ x.answer = "failed"
      <4>1. PICK x \in completions : x.no = inflight[callback.state] /\ x.answer = "failed"
        BY <1>1, <3>2 DEF ShowsTheAnswer
      <4>2. CASE x = c
        BY <1>0, <2>0, <4>1, <4>2
      <4> QED BY <2>0, <4>1, <4>2
    <3> QED BY <1>0, <3>1, <3>2 DEF ShowsTheAnswer
  <2> QED BY <2>1, <2>4, <2>5, <2>6
<1>2. /\ c.answer # "ok" \/ c.step = "over"
      /\ c.answer = "failed" /\ c.step # "over" => c.state \in doubtful
  BY DEF AnswersHold
<1>3. ASSUME c.state \notin doubtful, c.step # "written", c.step # "over"
      PROVE  established[c.state] = 0
  <2>1. ASSUME established[c.state] = 1 PROVE FALSE
    <3>1. PICK x \in completions : x.state = c.state /\ WroteIt(x)
      BY <1>0, <1>3, <2>1 DEF WrittenOnce
    <3>2. x = c
      BY <1>3, <3>1, OneEach
    <3> QED BY <1>2, <1>3, <3>1, <3>2 DEF WroteIt
  <2>2. established[c.state] \in {0, 1}
    BY <1>0
  <2> QED BY <2>1, <2>2
\* It goes on to a step that writes nothing.
<1>4. ASSUME NEW d, GetsOn(c, d), UNCHANGED <<established, used>>, doubtful \subseteq doubtful',
             c.step # "over", d.step # "exchanged", WroteIt(d) => c.step = "written",
             c.step = "written" /\ c.state \notin doubtful' => WroteIt(d),
             d.answer = "ok" => d.step = "over",
             d.answer = "failed" /\ c.state \notin doubtful' => d.step = "over" /\ c.step # "written"
      PROVE  ConsentInv'
  <2>1. c.step = "written" => established[c.state] = 1
    BY DEF WrittenOnce, WroteIt
  <2>2. c.state \notin doubtful' /\ WroteIt(c) => WroteIt(d)
    BY <1>2, <1>4 DEF WroteIt
  <2>3. d.answer = "failed" /\ c.state \notin doubtful' => d.step = "over" /\ established[c.state] = 0
    BY <1>3, <1>4
  <2> QED BY <1>0, <1>1, <1>4, <2>1, <2>2, <2>3
\* It ends.
<1>5. ASSUME NEW answer \in {"ok", "failed"}, C!Ends(c, answer), c.step # "over"
      PROVE  \E d : /\ GetsOn(c, d) /\ d.step = "over"
                    /\ d.answer = IF c.answer = None THEN answer ELSE c.answer
  <2> DEFINE d == [no |-> c.no, state |-> c.state, step |-> "over", again |-> c.again,
                   answer |-> IF c.answer = None THEN answer ELSE c.answer]
  <2>1. completions' = (completions \ {c}) \cup {d}
    BY <1>0, <1>5 DEF C!Ends, C!Takes
  <2>2. GetsOn(c, d)
    BY <1>0, <1>5, <2>1 DEF GetsOn
  <2> QED BY <2>2
<1>6. CASE C!Reads(c)
  <2>1. c.step = "sent" /\ UNCHANGED <<established, used, doubtful>>
    BY <1>6 DEF C!Reads
  <2>2. CASE C!Ends(c, "failed")
    BY <1>2, <1>4, <1>5, <2>1, <2>2 DEF WroteIt
  <2>3. ASSUME NEW t \in consents, C!Takes(c, "read", t.again, c.answer)
        PROVE  ConsentInv'
    <3> DEFINE d == [no |-> c.no, state |-> c.state, step |-> "read", again |-> t.again, answer |-> c.answer]
    <3>1. completions' = (completions \ {c}) \cup {d}
      BY <1>0, <2>3 DEF C!Takes
    <3>2. GetsOn(c, d) /\ d.step = "read" /\ d.answer = c.answer
      BY <1>0, <2>1, <3>1 DEF GetsOn
    <3> HIDE DEF d
    <3> QED BY <1>2, <1>4, <2>1, <3>2 DEF WroteIt
  <2> QED BY <1>6, <2>2, <2>3 DEF C!Reads
<1>7. CASE C!createSession(c)
  <2>1. c.step = "read" /\ UNCHANGED <<established, doubtful>>
    BY <1>7 DEF C!createSession
  <2>2. CASE UNCHANGED used /\ C!Ends(c, "failed")
    BY <1>2, <1>4, <1>5, <2>1, <2>2 DEF WroteIt
  <2>3. CASE c.state \notin used /\ used' = used \cup {c.state} /\ C!Takes(c, "exchanged", c.again, c.answer)
    <3> DEFINE d == [no |-> c.no, state |-> c.state, step |-> "exchanged", again |-> c.again, answer |-> c.answer]
    <3>1. completions' = (completions \ {c}) \cup {d}
      BY <1>0, <2>3 DEF C!Takes
    <3>2. GetsOn(c, d) /\ d.step = "exchanged" /\ d.answer = c.answer
      BY <1>0, <2>1, <3>1 DEF GetsOn
    <3> HIDE DEF d
    <3>3. established[c.state] = 0
      BY <1>0, <2>3 DEF WrittenOnce
    <3> QED BY <1>0, <1>1, <1>2, <2>1, <2>3, <3>2, <3>3 DEF WroteIt
  <2> QED BY <1>7, <2>2, <2>3 DEF C!createSession
<1>8. CASE C!Writes(c)
  <2> DEFINE d == [no |-> c.no, state |-> c.state, step |-> "written", again |-> c.again, answer |-> c.answer]
  <2>1. /\ c.step = "exchanged" /\ UNCHANGED <<used, doubtful>>
        /\ established' = [established EXCEPT ![c.state] = established[c.state] + 1]
    BY <1>8 DEF C!Writes
  <2>2. established[c.state] = 0
    BY <2>1 DEF WrittenOnce
  <2>3. established' = [established EXCEPT ![c.state] = 1]
    BY <2>1, <2>2
  <2>4. completions' = (completions \ {c}) \cup {d}
    BY <1>0, <1>8 DEF C!Writes, C!Takes
  <2>5. GetsOn(c, d) /\ d.step = "written" /\ d.answer = c.answer
    BY <1>0, <2>1, <2>4 DEF GetsOn
  <2> HIDE DEF d
  <2>6. established' \in [C!States -> {0, 1}] /\ established'[c.state] = 1
    BY <1>0, <2>3
  <2>7. \A s \in C!States : established'[s] = established[s] \/ (s = c.state /\ WroteIt(d) /\ established'[s] = 1)
    BY <1>0, <2>3, <2>5 DEF WroteIt
  <2> QED BY <1>1, <1>2, <2>1, <2>5, <2>6, <2>7 DEF WroteIt
<1>9. CASE C!Forgets(c)
  <2>1. c.step = "written" /\ UNCHANGED <<established, used, doubtful>> /\ C!Ends(c, "ok")
    BY <1>9 DEF C!Forgets
  <2> QED BY <1>0, <1>2, <1>4, <1>5, <2>1 DEF WroteIt
<1>10. CASE C!Stops(c)
  <2>1. /\ c.step # "over" /\ UNCHANGED <<established, used>> /\ C!Ends(c, "failed")
        /\ doubtful \subseteq doubtful' /\ (c.step = "written" => c.state \in doubtful')
    BY <1>10 DEF C!Stops
  <2> QED BY <1>2, <1>4, <1>5, <2>1 DEF WroteIt
<1>11. CASE C!IsLost(c)
  <2> DEFINE d == [no |-> c.no, state |-> c.state, step |-> c.step, again |-> c.again, answer |-> "failed"]
  <2>1. /\ c.step # "over" /\ c.answer = None /\ UNCHANGED <<established, used>>
        /\ doubtful \subseteq doubtful' /\ c.state \in doubtful'
    BY <1>11 DEF C!IsLost
  <2>2. completions' = (completions \ {c}) \cup {d}
    BY <1>0, <1>11 DEF C!IsLost, C!Takes
  <2>3. GetsOn(c, d) /\ d.step = c.step /\ d.answer = "failed"
    BY <1>0, <2>1, <2>2 DEF GetsOn, Completions, IsCompletion
  <2> HIDE DEF d
  <2>4. WroteIt(d) => established[c.state] = 1
    BY <2>3 DEF WroteIt, WrittenOnce
  <2>5. WroteIt(c) => WroteIt(d)
    BY <1>0, <2>1, <2>3 DEF WroteIt
  <2>6. d.step = "exchanged" => established[c.state] = 0 /\ c.state \in used
    BY <2>3 DEF WrittenOnce
  <2> QED BY <1>0, <1>1, <2>1, <2>3, <2>4, <2>5, <2>6
<1> QED BY <1>6, <1>7, <1>8, <1>9, <1>10, <1>11 DEF C!EBankingCompleteAuth

LEMMA CardinalityOfConsents == \A S : C!Cardinality(S) = Cardinality(S)
BY DEF C!Cardinality, Cardinality, C!IsFiniteSet, IsFiniteSet

\* A mount sends the only completion a state that is not doubtful has, under a new number.
LEMMA MountStep ==
  ASSUME C!ConnectConstants, ConsentInv, C!Mount
  PROVE  ConsentInv'
<1> DEFINE s == callback.state
           no == Cardinality(completions) + 1
           d == [no |-> no, state |-> s, step |-> "sent", again |-> FALSE, answer |-> None]
<1> USE DEF ConsentInv
<1>1. /\ s \in C!States /\ inflight[s] = None /\ callback.status = "working"
      /\ inflight' = [inflight EXCEPT ![s] = no] /\ completions' = completions \cup {d}
      /\ UNCHANGED <<callback, used, established, doubtful>>
  <2>1. callback.code /\ callback.status = "working" /\ inflight[s] = None
    BY DEF C!Mount, C!Completion
  <2>2. C!Cardinality(completions) = Cardinality(completions)
    BY CardinalityOfConsents
  <2>4. inflight' = [inflight EXCEPT ![s] = no] /\ completions' = completions \cup {d}
    BY <2>2 DEF C!Mount
  <2>3. UNCHANGED <<callback, used, established, doubtful>>
    BY DEF C!Mount
  <2> QED BY <2>1, <2>2, <2>3, <2>4 DEF ShowsTheAnswer
<1>2. /\ Cardinality(completions) \in Nat /\ no \in Nat /\ no # None /\ Cardinality(completions) < no
      /\ d \notin completions /\ IsFiniteSet(completions')
      /\ Cardinality(completions') = no
  <2>1. Cardinality(completions) \in Nat /\ no \in Nat /\ no # None
    BY FS_CardinalityType DEF Completions, C!ConnectConstants
  <2>2. d \notin completions
    BY <2>1 DEF Completions
  <2>3. IsFiniteSet(completions \cup {d}) /\ Cardinality(completions \cup {d}) = Cardinality(completions) + 1
    BY <2>2, FS_AddElement DEF Completions
  <2>4. Cardinality(completions) < no
    BY <2>1
  <2> HIDE DEF d
  <2> QED BY <1>1, <2>1, <2>2, <2>3, <2>4
<1>3. \A x \in completions' : x = d \/ (x \in completions /\ x.no < no)
  BY <1>1, <1>2 DEF Completions, IsCompletion
<1>4. d.no = no /\ d.state = s /\ d.step = "sent" /\ d.answer = None /\ IsCompletion(d)
  BY <1>1, <1>2 DEF IsCompletion
<1>5. None \notin {"ok", "failed"}
  BY DEF C!ConnectConstants
<1>6. \A x \in completions : x.state \in C!States /\ (x.state = s => s \in doubtful)
  BY <1>1 DEF InFlight, Completions, IsCompletion, C!ConnectConstants
<1> HIDE DEF d, no
<1>7. Completions'
  <2>1. \A x \in completions' : IsCompletion(x)' /\ x.no <= no
    BY <1>2, <1>3, <1>4 DEF Completions, IsCompletion
  <2>2. \A x, y \in completions' : x.no = y.no => x = y
    BY <1>3, <1>4, <1>2 DEF Completions
  <2> QED BY <1>2, <2>1, <2>2 DEF Completions
<1> HIDE DEF s
<1>8. InFlight'
  <2>1. inflight' \in [C!States -> Nat \cup {None}] /\ inflight'[s] = no
    BY <1>1, <1>2 DEF InFlight
  <2>2. \A t \in C!States : t # s => inflight'[t] = inflight[t]
    BY <1>1 DEF InFlight
  <2>3. \A t \in C!States : inflight'[t] # None => inflight'[t] <= no
    BY <1>2, <2>1, <2>2 DEF InFlight
  <2>4. \A t \in C!States : t # s => inflight'[t] # no
    BY <1>2, <2>2 DEF InFlight
  <2>5. \A x \in completions' : \A t \in C!States : x.no = inflight'[t] => x.state = t
    BY <1>2, <1>3, <1>4, <2>1, <2>2, <2>4 DEF InFlight, Completions, IsCompletion
  <2>6. \A x \in completions' : x.state \notin doubtful' => inflight'[x.state] = x.no
    BY <1>1, <1>3, <1>4, <1>6, <2>1, <2>2 DEF InFlight
  <2> QED BY <1>2, <2>1, <2>3, <2>5, <2>6 DEF InFlight
<1>9. WrittenOnce'
  <2>1. ~WroteIt(d)
    BY <1>4, <1>5 DEF WroteIt
  <2>2. \A t \in C!States : established[t] = 1 => t \in used' /\ (t \notin doubtful' => \E x \in completions' : x.state = t /\ WroteIt(x))
    BY <1>1 DEF WrittenOnce
  <2> QED BY <1>1, <1>3, <1>4, <2>1, <2>2 DEF WrittenOnce, WroteIt
<1>10. AnswersHold'
  BY <1>1, <1>3, <1>4, <1>5 DEF AnswersHold
<1>11. ShowsTheAnswer'
  BY <1>1 DEF ShowsTheAnswer
<1> QED BY <1>7, <1>8, <1>9, <1>10, <1>11

\* A new load remembers nothing, and every completion sent makes its state doubtful.
LEMMA LoadStep ==
  ASSUME C!ConnectConstants, ConsentInv, C!NewLoad, NEW s, NEW code \in BOOLEAN,
         C!Opens(s, code), code => s \in C!States
  PROVE  ConsentInv'
<1> USE DEF ConsentInv
<1>1. /\ UNCHANGED <<completions, used, established>>
      /\ inflight' = [t \in C!States |-> None] /\ doubtful' = doubtful \cup {c.state : c \in completions}
      /\ callback' = [state |-> s, code |-> code, status |-> IF code THEN "working" ELSE "error"]
  BY DEF C!NewLoad, C!Opens
<1>2. \A c \in completions : c.state \in doubtful' /\ c.no \in Nat /\ c.no # None
  BY <1>1 DEF Completions, IsCompletion, C!ConnectConstants
<1>3. Completions'
  BY <1>1 DEF Completions, IsCompletion
<1>4. InFlight'
  BY <1>1, <1>2 DEF InFlight
<1>5. WrittenOnce'
  BY <1>1 DEF WrittenOnce, WroteIt
<1>6. AnswersHold'
  BY <1>1, <1>2 DEF AnswersHold
<1>7. ShowsTheAnswer'
  BY <1>1 DEF ShowsTheAnswer
<1> QED BY <1>3, <1>4, <1>5, <1>6, <1>7

\* Whatever else happens leaves the completions, and what the page says of them.
Aside == UNCHANGED <<callback, inflight, completions, used, established, doubtful>>
LEMMA AsideKeeps ==
  ASSUME ConsentInv, Aside
  PROVE  ConsentInv'
BY DEF Aside, ConsentInv, Completions, IsCompletion, InFlight, WrittenOnce, WroteIt, AnswersHold, ShowsTheAnswer

\* What is shown is the answer that came.
LEMMA ToldStep ==
  ASSUME C!ConnectConstants, ConsentInv, C!Told \/ C!Back
  PROVE  ConsentInv'
<1> USE DEF ConsentInv
<1>1. UNCHANGED <<inflight, completions, used, established, doubtful>>
  BY DEF C!Told, C!Back, C!completing
<1>2. Completions' /\ InFlight' /\ WrittenOnce' /\ AnswersHold'
  BY <1>1 DEF Completions, IsCompletion, InFlight, WrittenOnce, WroteIt, AnswersHold
<1>3. CASE C!Back
  <2>1. callback' = [state |-> None, code |-> FALSE, status |-> "error"]
    BY <1>3 DEF C!Back, C!NoCallback
  <2> QED BY <1>2, <2>1 DEF ShowsTheAnswer
<1>4. CASE C!Told
  <2>1. PICK c \in completions : /\ c.no = inflight[callback.state] /\ c.answer # None
                                 /\ callback' = [callback EXCEPT !.status = IF c.answer = "ok" THEN "done" ELSE "error"]
    BY <1>4 DEF C!Told
  <2>2. callback' = [state |-> callback.state, code |-> callback.code, status |-> IF c.answer = "ok" THEN "done" ELSE "error"]
    BY <2>1 DEF ShowsTheAnswer
  <2>3. c.answer \in {"ok", "failed"}
    BY <2>1 DEF Completions, IsCompletion
  <2>4. callback.code => callback.state \in C!States /\ c.state = callback.state
    BY <2>1 DEF ShowsTheAnswer, InFlight
  <2>5. c.answer = "ok" => established[c.state] = 1
    BY DEF WrittenOnce, WroteIt
  <2>6. ShowsTheAnswer'
    BY <1>1, <2>1, <2>2, <2>3, <2>4, <2>5 DEF ShowsTheAnswer
  <2> QED BY <1>2, <2>6
<1> QED BY <1>3, <1>4

LEMMA ConnectStep ==
  ASSUME C!ConnectConstants, FormsInv, ConsentInv, [C!Next]_(C!connectVars)
  PROVE  FormsInv' /\ ConsentInv'
<1>1. CASE C!Refetch
  <2>1. cfg' \in [C!Providers -> OrBlank]
    BY <1>1 DEF C!Refetch, FormsInv, Applications, OrBlank
  <2>2. Aside
    BY <1>1 DEF C!Refetch, C!away, C!completing, Aside
  <2> QED BY <1>1, <2>1, <2>2, AsideKeeps DEF C!Refetch, C!server, C!forms, C!away, FormsInv
<1>2. CASE UNCHANGED C!connectVars
  <2>1. Aside
    BY <1>2 DEF C!connectVars, C!completing, Aside
  <2> QED BY <1>2, <2>1, AsideKeeps DEF C!connectVars, FormsInv
<1>3. CASE C!Reader
  <2>1. Aside
    BY <1>3 DEF C!Reader, C!Does, C!away, C!completing, Aside
  <2> QED BY <1>3, <2>1, ReaderStep, AsideKeeps
<1>4. CASE \E c \in sending : C!Succeed(c) \/ C!Fail(c)
  <2>1. Aside
    BY <1>4 DEF C!Succeed, C!Fail, C!away, C!completing, Aside
  <2> QED BY <1>4, <2>1, AnswerStep, AsideKeeps
<1>5. CASE C!Reload
  <2>1. /\ C!NewLoad /\ C!Opens(callback.state, callback.code) /\ callback.code \in BOOLEAN
        /\ callback.code => callback.state \in C!States
    BY <1>5 DEF C!Reload, ConsentInv, ShowsTheAnswer
  <2> QED BY <1>5, <2>1, ReturnsKeepForms, LoadStep DEF Returns
<1>6. CASE \E s \in 1..begun, code \in BOOLEAN : C!Redirect(s, code)
  <2>1. \E s \in C!States, code \in BOOLEAN : C!NewLoad /\ C!Opens(s, code)
    BY <1>6 DEF C!Redirect, FormsInv
  <2> QED BY <1>6, <2>1, ReturnsKeepForms, LoadStep DEF Returns
<1>7. CASE \E c \in completions : C!EBankingCompleteAuth(c)
  BY <1>7, ReturnsKeepForms, CompletionStep DEF Returns
<1>8. CASE C!Mount \/ C!Told \/ C!Back
  BY <1>8, ReturnsKeepForms, MountStep, ToldStep DEF Returns
<1> QED BY <1>1, <1>2, <1>3, <1>4, <1>5, <1>6, <1>7, <1>8 DEF C!Next

\* A consent makes one connection, however often its callback page mounts and is loaded again
\* and wherever its completion stops or its answer is lost; the page says it is done when there
\* is one, and that it failed when there is none, unless the call was cut off or an earlier load
\* had sent one (BankSyncCallback.tsx:13, "rather than firing a second one against an
\* already-consumed state"; enablebanking_service.go EBankingCompleteAuth).  An application the
\* server has is never left without its secret (SetEBankingConfig).
THEOREM ConsentsMakeOneConnection ==
  ASSUME C!ConnectConstants
  PROVE  C!Spec => [](C!TypeOK /\ C!ConsentsAreToldAsTheyWent)
<1>1. C!Init => FormsInv /\ ConsentInv
  <2> SUFFICES ASSUME C!Init PROVE FormsInv /\ ConsentInv
    OBVIOUS
  <2>1. FormsInv
    BY DEF C!Init, C!Providers, FormsInv, OrBlank
  <2>2. Completions /\ InFlight /\ WrittenOnce /\ AnswersHold
    BY FS_EmptySet DEF C!Init, Completions, InFlight, WrittenOnce, AnswersHold
  <2>3. ShowsTheAnswer
    BY DEF C!Init, C!NoCallback, ShowsTheAnswer
  <2> QED BY <2>1, <2>2, <2>3 DEF ConsentInv
<1>2. (FormsInv /\ ConsentInv) /\ [C!Next]_(C!connectVars) => (FormsInv /\ ConsentInv)'
  BY ConnectStep
<1>3. FormsInv /\ ConsentInv => C!TypeOK /\ C!ConsentsAreToldAsTheyWent
  <2> SUFFICES ASSUME FormsInv, ConsentInv PROVE C!TypeOK /\ C!ConsentsAreToldAsTheyWent
    OBVIOUS
  <2>1. C!TypeOK
    BY DEF FormsInv, C!TypeOK, Applications, OrBlank
  <2>2. \A s \in C!States : established[s] <= 1
    BY DEF ConsentInv, WrittenOnce
  <2>3. /\ callback.code /\ callback.status = "done" => established[callback.state] = 1
        /\ callback.code /\ callback.status = "error" /\ callback.state \notin doubtful =>
             established[callback.state] = 0
    <3>1. ASSUME callback.code, callback.status = "error", callback.state \notin doubtful
          PROVE  established[callback.state] = 0
      <4>1. callback.state \in C!States
        BY <3>1 DEF ConsentInv, ShowsTheAnswer
      <4>2. PICK c \in completions : c.no = inflight[callback.state] /\ c.answer = "failed"
        BY <3>1 DEF ConsentInv, ShowsTheAnswer
      <4> QED BY <3>1, <4>1, <4>2 DEF ConsentInv, InFlight, AnswersHold
    <3> QED BY <3>1 DEF ConsentInv, ShowsTheAnswer
  <2> QED BY <2>1, <2>2, <2>3 DEF C!ConsentsAreToldAsTheyWent
<1> QED BY <1>1, <1>2, <1>3, PTL DEF C!Spec

-----------------------------------------------------------------------------
(***************************************************************************)
(* The import wizard, for any files, accounts, formats and fields, however  *)
(* often it previews and commits.                                           *)
(***************************************************************************)
CONSTANTS Files, Accounts, Formats, Remembered, Proposed
VARIABLES phase, format, account, content, reading, rules, mapping, previews, proposing, rows,
          committing

W == INSTANCE ImportWizard

ChosenMapping == IF W!showMapping THEN mapping ELSE W!NoMapping
Chosen(r) == W!Asked(ChosenMapping, r)

\* A preview that nothing crossed is alone on its way and is of what is chosen; one that
\* asks for the columns is alone too, and the reader waits for it at the source.
PreviewsInTime ==
  \A p \in previews : /\ ~p.crossed \/ p.to = "map" => previews = {p}
                      /\ ~p.crossed /\ p.to = "review" => p.asked = Chosen(rules)
                      /\ p.to = "map" => phase \in {"source", "done"} /\ p.asked.content \in DOMAIN Files

\* What is reviewed differs from what is chosen in the rules at most, while they are asked for.
ReviewInTime ==
  phase = "review" /\ ~rows.crossed => /\ rows.asked = Chosen(rows.asked.rules)
                                       /\ previews = {} => rows.asked.rules = rules

\* What is committed is what is still under review.
CommitInTime ==
  committing # None /\ ~committing.crossed =>
    /\ phase = "review"
    /\ committing.account = account /\ committing.asked.account = account
    /\ committing.asked.format = format
    /\ format = "generic" => committing.asked.mapping = mapping

WizardTypes ==
  /\ phase \in {"source", "map", "review", "done"} /\ format \in Formats
  /\ account \in Accounts \cup {None} /\ content \in DOMAIN Files \cup {None}
  /\ reading \subseteq DOMAIN Files /\ rules \in BOOLEAN /\ mapping \in W!Mappings
  /\ proposing \in DOMAIN Files \cup {None}
  /\ previews \subseteq W!Previews
  /\ rows \in W!Reviews \cup {None} /\ (phase = "review" => rows # None)
  /\ committing \in W!Commits \cup {None}

KeptAsRead == \A k \in kept : ~k.of.crossed /\ k.of.asked.format = "generic" => k.mapping = k.of.asked.mapping

WizardInv == WizardTypes /\ PreviewsInTime /\ ReviewInTime /\ CommitInTime /\ KeptAsRead

LEMMA NoMappingIsOne == W!NoMapping \in W!Mappings
<1>1. W!NoMapping \in [{} -> W!Columns] /\ W!IsInjective(W!NoMapping)
  BY DEF W!NoMapping, W!IsInjective
<1> QED BY <1>1 DEF W!Mappings

LEMMA AskedIsAQuestion ==
  ASSUME WizardTypes, NEW m \in W!Mappings, NEW r \in BOOLEAN
  PROVE  W!Asked(m, r) \in W!Questions
BY DEF WizardTypes, W!Asked, W!Questions

\* Every preview on its way is crossed; one for the columns is alone, as before.
AllCrossed ==
  \A p \in previews : /\ p.crossed
                      /\ p.to = "map" => previews = {p} /\ p.asked.content \in DOMAIN Files
SomeForTheColumns == \E p \in previews : p.to = "map"

\* A choice that crosses what is on its way.
LEMMA Crossing ==
  ASSUME W!WizardConstants, WizardInv, W!Cross
  PROVE  /\ previews' \subseteq W!Previews
         /\ AllCrossed' /\ (SomeForTheColumns' => phase \in {"source", "done"})
         /\ committing' \in W!Commits \cup {None}
         /\ committing' # None => committing'.crossed
<1>1. previews' = {W!Crossed(p) : p \in previews} /\ committing' = W!Crossed(committing)
  BY DEF W!Cross
<1>2. ASSUME NEW q \in previews
      PROVE  /\ W!Crossed(q) \in W!Previews /\ W!Crossed(q).crossed
             /\ W!Crossed(q).to = q.to /\ W!Crossed(q).asked = q.asked
  <2>1. q \in W!Previews /\ q # None
    BY DEF WizardInv, WizardTypes, W!WizardConstants
  <2> QED BY <2>1 DEF W!Crossed, W!Previews
<1>3. ASSUME NEW p \in previews'
      PROVE  /\ p \in W!Previews /\ p.crossed
             /\ p.to = "map" => previews' = {p} /\ p.asked.content \in DOMAIN Files
                                /\ phase \in {"source", "done"}
  <2>1. PICK q \in previews : p = W!Crossed(q)
    BY <1>1
  <2>2. q.to = "map" => previews = {q} /\ q.asked.content \in DOMAIN Files /\ phase \in {"source", "done"}
    BY DEF WizardInv, PreviewsInTime
  <2>3. previews = {q} => previews' = {p}
    BY <1>1, <2>1
  <2> QED BY <1>2, <2>1, <2>2, <2>3
<1>4. /\ committing' \in W!Commits \cup {None}
      /\ committing' # None => committing'.crossed
  BY <1>1 DEF W!Crossed, W!Commits, WizardInv, WizardTypes
<1> QED BY <1>3, <1>4 DEF AllCrossed, SomeForTheColumns

\* What crosses leaves nothing to be reviewed as it was: the reader is elsewhere, or the
\* preview under review is crossed too.
LEMMA CrossKeeps ==
  ASSUME W!WizardConstants, WizardInv, W!Cross,
         phase' \in {"source", "map", "review", "done"}, format' \in Formats,
         account' \in Accounts \cup {None}, content' \in DOMAIN Files \cup {None},
         reading' \subseteq DOMAIN Files, rules' \in BOOLEAN, mapping' \in W!Mappings,
         proposing' \in DOMAIN Files \cup {None},
         phase \in {"source", "done"} => phase' \in {"source", "done"},
         \/ rows' \in {rows, None} /\ phase' # "review"
         \/ rows' = W!Crossed(rows) /\ phase' = phase,
         kept' = kept
  PROVE  WizardInv'
<1>1. /\ rows' \in W!Reviews \cup {None}
      /\ phase' = "review" => rows' # None /\ rows'.crossed
  <2>1. rows \in W!Reviews \cup {None} /\ (phase = "review" => rows # None) /\ None \notin W!Reviews
    BY DEF WizardInv, WizardTypes, W!WizardConstants
  <2>2. rows \in W!Reviews => W!Crossed(rows) \in W!Reviews /\ W!Crossed(rows).crossed
    BY <2>1 DEF W!Crossed, W!Reviews
  <2>3. W!Crossed(None) = None
    BY DEF W!Crossed
  <2>4. CASE rows' \in {rows, None} /\ phase' # "review"
    BY <2>1, <2>4
  <2>5. CASE rows' = W!Crossed(rows) /\ phase' = phase
    BY <2>1, <2>2, <2>3, <2>5
  <2> QED BY <2>4, <2>5
<1>2. WizardTypes'
  BY <1>1, Crossing DEF WizardTypes
<1>3. PreviewsInTime'
  <2>1. AllCrossed' /\ (SomeForTheColumns' => phase' \in {"source", "done"})
    BY Crossing
  <2> QED BY <2>1 DEF PreviewsInTime, AllCrossed, SomeForTheColumns
<1>4. ReviewInTime' /\ CommitInTime'
  BY <1>1, Crossing DEF ReviewInTime, CommitInTime
<1>5. KeptAsRead'
  BY DEF WizardInv, KeptAsRead
<1> QED BY <1>2, <1>3, <1>4, <1>5 DEF WizardInv

\* A preview is asked for: it crosses those on their way, and one on its way crosses it.
LEMMA Asking ==
  ASSUME W!WizardConstants, WizardInv, NEW m \in W!Mappings, NEW r \in BOOLEAN,
         NEW to \in {"map", "review"},
         previews' = {W!Crossed(p) : p \in previews} \cup
                       {[asked |-> W!Asked(m, r), to |-> to, crossed |-> previews # {}]},
         to = "map" => previews = {} /\ phase = "source" /\ content # None,
         to = "review" => m = ChosenMapping,
         rules' = r, rules' = rules \/ phase = "review",
         UNCHANGED <<phase, format, account, content, reading, mapping, proposing, rows,
                     committing, kept>>,
         previews # {} => phase = "review"
  PROVE  WizardInv'
<1>1. PICK new : new = [asked |-> W!Asked(m, r), to |-> to, crossed |-> previews # {}]
  OBVIOUS
<1>2. previews' = {W!Crossed(p) : p \in previews} \cup {new}
  BY <1>1
<1>3. new \in W!Previews
  BY <1>1, AskedIsAQuestion DEF WizardInv, W!Previews
<1>4. ASSUME NEW q \in previews
      PROVE  W!Crossed(q) \in W!Previews /\ W!Crossed(q).crossed /\ W!Crossed(q).to = "review"
  <2>1. q \in W!Previews /\ q # None
    BY DEF WizardInv, WizardTypes, W!WizardConstants
  <2>2. q.to = "review"
    BY <2>1 DEF WizardInv, PreviewsInTime, W!Previews
  <2> QED BY <2>1, <2>2 DEF W!Crossed, W!Previews
<1>5. WizardTypes'
  <2>1. previews' \subseteq W!Previews
    BY <1>2, <1>3, <1>4
  <2>2. rules' \in BOOLEAN
    BY DEF WizardInv, WizardTypes
  <2> QED BY <2>1, <2>2 DEF WizardInv, WizardTypes
<1>6. UNCHANGED ChosenMapping
  BY DEF ChosenMapping, W!showMapping, W!NoMapping
<1>7. PreviewsInTime'
  <2>1. ASSUME NEW p \in previews', p # new
        PROVE  p.crossed /\ p.to = "review" /\ p \in W!Previews
    BY <1>2, <1>4, <2>1
  <2>2. previews = {} => previews' = {new}
    BY <1>2
  <2>3. to = "review" /\ ~new.crossed => new.asked = Chosen(rules)'
    <3>1. to = "review" => W!Asked(m, r) = Chosen(r)
      BY DEF Chosen
    <3>2. Chosen(rules)' = Chosen(r)
      BY <1>6 DEF Chosen, W!Asked
    <3> QED BY <1>1, <3>1, <3>2
  <2>4. /\ new.to = to /\ (~new.crossed => previews = {})
        /\ new.asked.content = content
    BY <1>1 DEF W!Asked
  <2>5. to = "map" => content \in DOMAIN Files
    BY DEF WizardInv, WizardTypes
  <2> QED BY <2>1, <2>2, <2>3, <2>4, <2>5 DEF PreviewsInTime
<1>8. ReviewInTime'
  <2>1. previews' # {}
    BY <1>2
  <2>2. UNCHANGED <<phase, rows>> /\ UNCHANGED Chosen(rows.asked.rules)
    BY <1>6 DEF Chosen, W!Asked
  <2> QED BY <2>1, <2>2 DEF WizardInv, ReviewInTime
<1>9. CommitInTime' /\ KeptAsRead'
  BY DEF WizardInv, CommitInTime, KeptAsRead
<1> QED BY <1>5, <1>7, <1>8, <1>9 DEF WizardInv

\* A column has one field, and a field one column, after a choice.
LEMMA PickedIsAMapping ==
  ASSUME WizardTypes, NEW i \in 1 .. (IF content = None THEN 0 ELSE Files[content]),
         NEW field \in Fields \cup {None}
  PROVE  W!pick(mapping, i, field) \in W!Mappings
<1> DEFINE rest == W!Restrict(mapping, {f \in DOMAIN mapping : mapping[f] # i /\ f # field})
<1>1. i \in W!Columns
  <2>1. content # None /\ content \in DOMAIN Files
    BY DEF WizardTypes
  <2> QED BY <2>1 DEF W!Columns
<1>2. /\ mapping \in [DOMAIN mapping -> W!Columns] /\ DOMAIN mapping \subseteq Fields
      /\ \A f, g \in DOMAIN mapping : mapping[f] = mapping[g] => f = g
  BY DEF WizardTypes, W!Mappings, W!IsInjective
<1>3. /\ rest \in [DOMAIN rest -> W!Columns] /\ DOMAIN rest \subseteq Fields \ {field}
      /\ \A f, g \in DOMAIN rest : rest[f] = rest[g] => f = g
      /\ \A f \in DOMAIN rest : rest[f] # i
  BY <1>2 DEF W!Restrict
<1> HIDE DEF rest
<1>4. CASE field = None
  <2>1. W!pick(mapping, i, field) = rest
    BY <1>4 DEF W!pick, rest
  <2> QED BY <1>3, <2>1 DEF W!Mappings, W!IsInjective
<1>5. CASE field # None
  <2>1. PICK m : m = [f \in DOMAIN rest \cup {field} |-> IF f = field THEN i ELSE rest[f]]
    OBVIOUS
  <2>2. m \in [DOMAIN rest \cup {field} -> W!Columns] /\ DOMAIN rest \cup {field} \subseteq Fields
    BY <1>1, <1>3, <1>5, <2>1
  <2>3. W!IsInjective(m)
    BY <1>3, <2>1 DEF W!IsInjective
  <2>4. W!pick(mapping, i, field) = m
    BY <1>5, <2>1 DEF W!pick, rest
  <2> QED BY <2>2, <2>3, <2>4 DEF W!Mappings
<1> QED BY <1>4, <1>5

LEMMA SourceAsks ==
  ASSUME W!WizardConstants, WizardInv, phase = "source", UNCHANGED <<phase, proposing, rows, kept>>,
         W!startFromSource
  PROVE  WizardInv'
<1>1. PICK to \in {"map", "review"} :
        /\ previews' = {W!Crossed(p) : p \in previews} \cup
                         {[asked |-> W!Asked(W!NoMapping, rules), to |-> to, crossed |-> previews # {}]}
        /\ to = "review" => ~W!showMapping
  BY DEF W!startFromSource, W!Ask
<1>2. /\ content # None /\ previews = {}
      /\ UNCHANGED <<format, account, content, rules, mapping, reading, committing>>
  BY DEF W!startFromSource, W!choices
<1>3. rules \in BOOLEAN
  BY DEF WizardInv, WizardTypes
<1>4. to = "review" => W!NoMapping = ChosenMapping
  BY <1>1 DEF ChosenMapping
<1>5. to = "map" => previews = {} /\ phase = "source" /\ content # None
  BY <1>2
<1> QED BY <1>1, <1>2, <1>3, <1>4, <1>5, NoMappingIsOne, Asking

LEMMA SourceStep ==
  ASSUME W!WizardConstants, WizardInv, W!Source
  PROVE  WizardInv'
<1>1. phase = "source" /\ UNCHANGED <<phase, proposing, rows, kept>>
  BY DEF W!Source
<1>2. CASE W!Cross
  <2>1. CASE \E f \in Formats \ {format} : W!ChooseFormat(f)
    <3>1. /\ format' \in Formats /\ content' = None
          /\ UNCHANGED <<account, reading, rules, mapping>>
      BY <2>1 DEF W!ChooseFormat
    <3> QED BY <1>1, <1>2, <3>1, CrossKeeps DEF WizardInv, WizardTypes
  <2>2. CASE \E a \in Accounts \ {account} : W!ChooseAccount(a)
    <3>1. /\ account' \in Accounts
          /\ UNCHANGED <<format, content, reading, rules, mapping>>
      BY <2>2 DEF W!ChooseAccount
    <3> QED BY <1>1, <1>2, <3>1, CrossKeeps DEF WizardInv, WizardTypes
  <2>3. CASE \E f \in DOMAIN Files \cup {None} : W!onPickFile(f)
    <3>1. /\ content' \in {content, None} /\ reading' \subseteq DOMAIN Files
          /\ UNCHANGED <<format, account, rules, mapping>>
      BY <2>3 DEF W!onPickFile, WizardInv, WizardTypes
    <3> QED BY <1>1, <1>2, <3>1, CrossKeeps DEF WizardInv, WizardTypes
  <2>4. CASE W!startFromSource
    BY <1>1, <2>4, SourceAsks
  <2> QED BY <2>1, <2>2, <2>3, <2>4 DEF W!Source
<1>3. CASE W!startFromSource
  BY <1>1, <1>3, SourceAsks
<1> QED BY <1>2, <1>3 DEF W!Source

\* What was read or proposed late crosses all there is.
LEMMA LateStep ==
  ASSUME W!WizardConstants, WizardInv, W!FileRead \/ W!ProposalArrives
  PROVE  WizardInv'
<1>1. CASE W!FileRead
  <2>1. content' \in DOMAIN Files /\ reading' \subseteq DOMAIN Files
    BY <1>1 DEF W!FileRead, WizardInv, WizardTypes
  <2> QED BY <1>1, <2>1, CrossKeeps DEF W!FileRead, W!Late, WizardInv, WizardTypes
<1>2. CASE W!ProposalArrives
  <2>1. mapping' \in W!Mappings /\ proposing' = None
    BY <1>2 DEF W!ProposalArrives, W!WizardConstants, WizardInv, WizardTypes
  <2>2. UNCHANGED <<phase, format, account, content, reading, rules, kept>>
    BY <1>2 DEF W!ProposalArrives
  <2> QED BY <1>2, <2>1, <2>2, CrossKeeps DEF W!ProposalArrives, W!Late, WizardInv, WizardTypes
<1> QED BY <1>1, <1>2

LEMMA MapStep ==
  ASSUME W!WizardConstants, WizardInv, W!Map
  PROVE  WizardInv'
<1>1. phase = "map" /\ UNCHANGED <<format, account, content, reading, rules, proposing, rows, kept>>
  BY DEF W!Map
<1>2. CASE W!ImportColumns /\ W!Cross /\ UNCHANGED phase
  <2>1. mapping' \in W!Mappings
    BY <1>2, PickedIsAMapping DEF W!ImportColumns, WizardInv
  <2> QED BY <1>1, <1>2, <2>1, CrossKeeps DEF WizardInv, WizardTypes
<1>3. CASE phase' = "source" /\ W!Cross /\ UNCHANGED mapping
  BY <1>1, <1>3, CrossKeeps DEF WizardInv, WizardTypes
<1>4. CASE previews = {} /\ W!previewToReview(rules) /\ UNCHANGED <<mapping, committing>>
  <2>1. /\ previews' = {W!Crossed(p) : p \in previews} \cup
                         {[asked |-> W!Asked(ChosenMapping, rules), to |-> "review", crossed |-> previews # {}]}
        /\ UNCHANGED phase
    BY <1>4 DEF W!previewToReview, W!Ask, ChosenMapping
  <2>2. ChosenMapping \in W!Mappings /\ rules \in BOOLEAN
    BY NoMappingIsOne DEF ChosenMapping, WizardInv, WizardTypes
  <2> QED BY <1>1, <1>4, <2>1, <2>2, Asking
<1> QED BY <1>2, <1>3, <1>4 DEF W!Map

LEMMA ReviewStep ==
  ASSUME W!WizardConstants, WizardInv, W!Review
  PROVE  WizardInv'
<1>1. phase = "review" /\ UNCHANGED <<format, account, content, reading, mapping, proposing, rows, kept>>
  BY DEF W!Review
<1>2. CASE W!toggleApplyRules
  <2>1. PICK r \in BOOLEAN :
          /\ rules' = r
          /\ previews' = {W!Crossed(p) : p \in previews} \cup
                           {[asked |-> W!Asked(ChosenMapping, r), to |-> "review", crossed |-> previews # {}]}
    <3>1. PICK r \in BOOLEAN : r = ~rules
      OBVIOUS
    <3> QED BY <1>2, <3>1 DEF W!toggleApplyRules, W!previewToReview, W!Ask, ChosenMapping
  <2>2. ChosenMapping \in W!Mappings
    BY NoMappingIsOne DEF ChosenMapping, WizardInv, WizardTypes
  <2>3. UNCHANGED <<phase, committing>>
    BY <1>2 DEF W!toggleApplyRules, W!previewToReview
  <2> QED BY <1>1, <2>1, <2>2, <2>3, Asking
<1>3. CASE W!Commit
  <2>1. /\ committing' = [asked |-> rows.asked, account |-> account, crossed |-> rows.crossed]
        /\ UNCHANGED <<phase, rules, previews>>
    BY <1>3 DEF W!Commit
  <2>2. rows \in W!Reviews
    BY <1>1 DEF WizardInv, WizardTypes
  <2>3. committing' \in W!Commits
    BY <2>1, <2>2 DEF W!Reviews, W!Commits, WizardInv, WizardTypes
  <2>4. CommitInTime'
    <3>1. ~rows.crossed => rows.asked = Chosen(rows.asked.rules)
      BY <1>1 DEF WizardInv, ReviewInTime
    <3> QED BY <1>1, <2>1, <3>1 DEF CommitInTime, Chosen, ChosenMapping, W!showMapping, W!Asked
  <2>5. UNCHANGED <<phase, format, account, content, rules, mapping, previews, rows, kept>>
    BY <1>1, <2>1
  <2>6. PreviewsInTime' /\ ReviewInTime' /\ KeptAsRead'
    BY <2>5 DEF WizardInv, PreviewsInTime, ReviewInTime, KeptAsRead, Chosen, ChosenMapping,
                W!showMapping, W!Asked, W!NoMapping
  <2>7. WizardTypes'
    BY <1>1, <2>1, <2>3 DEF WizardInv, WizardTypes
  <2> QED BY <2>4, <2>6, <2>7 DEF WizardInv
<1>4. CASE W!Back
  <2>1. phase' \in {"map", "source"} /\ W!Cross /\ UNCHANGED rules
    BY <1>4 DEF W!Back
  <2> QED BY <1>1, <2>1, CrossKeeps DEF WizardInv, WizardTypes
<1> QED BY <1>2, <1>3, <1>4 DEF W!Review

\* A preview that answers, or fails, leaves alone what is chosen but for the columns, which
\* only come when nothing else is on its way.
LEMMA AnswersStep ==
  ASSUME W!WizardConstants, WizardInv, W!Previewed \/ W!PreviewFails
  PROVE  WizardInv'
<1>1. PICK p \in previews :
        /\ previews' = previews \ {p}
        /\ \/ /\ IF p.to = "map" THEN W!ToMap(p) ELSE W!ToReview(p)
              /\ UNCHANGED <<format, account, content, reading, rules, committing, kept, steps>>
           \/ W!PreviewFails
  BY DEF W!Previewed, W!PreviewFails
<1>2. /\ p \in W!Previews /\ p # None
      /\ ~p.crossed \/ p.to = "map" => previews' = {}
      /\ UNCHANGED <<format, account, content, reading, rules, committing, kept>>
  BY <1>1 DEF W!PreviewFails, W!choices, WizardInv, WizardTypes, PreviewsInTime,
              W!WizardConstants
<1>3. KeptAsRead'
  BY <1>2 DEF WizardInv, KeptAsRead
<1>4. CASE p.to = "map" /\ W!ToMap(p)
  <2>1. W!ToMap(p) /\ phase \in {"source", "done"} /\ p.asked.content \in DOMAIN Files
    BY <1>1, <1>4 DEF WizardInv, PreviewsInTime
  <2>2. mapping' \in W!Mappings
    BY <2>1, NoMappingIsOne DEF W!ToMap, W!WizardConstants
  <2>3. phase' = "map" /\ proposing' \in {proposing, content} /\ UNCHANGED rows
    BY <2>1 DEF W!ToMap
  <2>4. WizardTypes'
    BY <1>2, <1>4, <2>2, <2>3 DEF WizardInv, WizardTypes
  <2>5. PreviewsInTime' /\ ReviewInTime'
    BY <1>2, <1>4, <2>3 DEF PreviewsInTime, ReviewInTime
  <2>6. CommitInTime'
    BY <1>2, <2>1 DEF WizardInv, CommitInTime
  <2> QED BY <1>3, <2>4, <2>5, <2>6 DEF WizardInv
<1>5. CASE p.to # "map" /\ W!ToReview(p)
  <2>1. phase' = "review" /\ rows' = [asked |-> p.asked, crossed |-> p.crossed] /\ UNCHANGED <<mapping, proposing>>
    BY <1>1, <1>5 DEF W!ToReview
  <2>2. rows' \in W!Reviews /\ p.to = "review"
    BY <1>2, <1>5, <2>1 DEF W!Previews, W!Reviews
  <2>3. WizardTypes'
    BY <1>1, <1>2, <2>1, <2>2 DEF WizardInv, WizardTypes, W!WizardConstants
  <2>4. \A q \in previews' : q.crossed /\ q.to # "map"
    BY <1>1 DEF WizardInv, PreviewsInTime
  <2>5. PreviewsInTime'
    BY <2>4 DEF PreviewsInTime
  <2>6. ReviewInTime'
    <3>1. ~p.crossed => p.asked = Chosen(rules)
      BY <2>2 DEF WizardInv, PreviewsInTime
    <3>2. UNCHANGED Chosen(rules)
      BY <1>2, <2>1 DEF Chosen, ChosenMapping, W!showMapping, W!Asked, W!NoMapping
    <3>3. Chosen(rules).rules = rules
      BY DEF Chosen, W!Asked
    <3>4. ~p.crossed => rows'.asked = Chosen(rules)' /\ rows'.asked.rules = rules'
      BY <1>2, <2>1, <3>1, <3>2, <3>3
    <3>5. rows'.asked.rules = rules' => Chosen(rows.asked.rules)' = Chosen(rules)'
      BY DEF Chosen, W!Asked
    <3> QED BY <2>1, <3>4, <3>5 DEF ReviewInTime
  <2>7. CommitInTime'
    BY <1>2, <2>1 DEF WizardInv, CommitInTime
  <2> QED BY <1>3, <2>3, <2>5, <2>6, <2>7 DEF WizardInv
<1>6. CASE W!PreviewFails
  <2>1. rows' = W!Crossed(rows) /\ UNCHANGED <<phase, mapping, proposing>>
    BY <1>6 DEF W!PreviewFails, W!choices
  <2>2. rows' \in W!Reviews \cup {None} /\ (rows # None => rows' # None /\ rows'.crossed)
    BY <2>1 DEF W!Crossed, W!Reviews, WizardInv, WizardTypes, W!WizardConstants
  <2>3. WizardTypes'
    BY <1>1, <1>2, <2>1, <2>2 DEF WizardInv, WizardTypes
  <2>4. PreviewsInTime'
    <3>1. \A q \in previews' : q.crossed /\ q.to # "map"
      BY <1>1 DEF WizardInv, PreviewsInTime
    <3> QED BY <3>1 DEF PreviewsInTime
  <2>5. ReviewInTime' /\ CommitInTime'
    BY <1>2, <2>1, <2>2 DEF WizardInv, WizardTypes, ReviewInTime, CommitInTime
  <2> QED BY <1>3, <2>3, <2>4, <2>5 DEF WizardInv
<1> QED BY <1>1, <1>4, <1>5, <1>6

LEMMA WizardStep ==
  ASSUME W!WizardConstants, WizardInv, [W!Next]_(W!wizardVars)
  PROVE  WizardInv'
<1>1. CASE W!Committed
  <2>1. /\ committing # None /\ committing' = None /\ phase' = "done"
        /\ kept' = (IF W!showMapping THEN kept \cup {[of |-> committing, mapping |-> mapping]} ELSE kept)
        /\ UNCHANGED <<format, account, content, rules, mapping, reading, previews, proposing, rows>>
    BY <1>1 DEF W!Committed, W!choices
  <2>2. KeptAsRead'
    BY <2>1 DEF WizardInv, CommitInTime, KeptAsRead, W!showMapping
  <2>3. PreviewsInTime'
    <3>1. UNCHANGED Chosen(rules)
      BY <2>1 DEF Chosen, ChosenMapping, W!showMapping, W!Asked, W!NoMapping
    <3> QED BY <2>1, <3>1 DEF WizardInv, PreviewsInTime
  <2>4. WizardTypes' /\ ReviewInTime' /\ CommitInTime'
    BY <2>1 DEF WizardInv, WizardTypes, ReviewInTime, CommitInTime
  <2> QED BY <2>2, <2>3, <2>4 DEF WizardInv
<1>2. CASE W!CommitFails \/ UNCHANGED W!wizardVars
  <2>1. /\ committing' \in {committing, None}
        /\ UNCHANGED <<phase, format, account, content, rules, mapping, reading, previews, proposing, rows, kept>>
    BY <1>2 DEF W!CommitFails, W!choices, W!wizardVars
  <2>2. /\ UNCHANGED Chosen(rules)
        /\ UNCHANGED Chosen(rows.asked.rules)
    BY <2>1 DEF Chosen, ChosenMapping, W!showMapping, W!Asked, W!NoMapping
  <2>3. WizardTypes' /\ PreviewsInTime' /\ ReviewInTime' /\ KeptAsRead'
    BY <2>1, <2>2 DEF WizardInv, WizardTypes, PreviewsInTime, ReviewInTime, KeptAsRead
  <2>4. CommitInTime'
    BY <2>1 DEF WizardInv, CommitInTime
  <2> QED BY <2>3, <2>4 DEF WizardInv
<1>3. CASE W!reset
  <2>1. /\ phase = "done" /\ phase' = "source" /\ content' = None /\ rows' = None
        /\ mapping' \in W!Mappings /\ W!Cross
        /\ UNCHANGED <<format, account, reading, rules, proposing, kept>>
    BY <1>3, NoMappingIsOne DEF W!reset
  <2> QED BY <2>1, CrossKeeps DEF WizardInv, WizardTypes
<1> QED BY <1>1, <1>2, <1>3, SourceStep, LateStep, MapStep, ReviewStep, AnswersStep DEF W!Next

\* ImportWizard.tsx: what is under review, and committed to the account, is a preview of what is
\* chosen now, and the columns remembered are those it was read with, unless a choice, another
\* preview or something late crossed it; and no field has two columns, whoever filled them in.
THEOREM ReviewedAsChosen ==
  ASSUME W!WizardConstants
  PROVE  W!Spec => [](W!TypeOK /\ W!ReviewIsOfWhatIsChosen)
<1>1. W!Init => WizardInv
  BY NoMappingIsOne DEF W!Init, WizardInv, WizardTypes, PreviewsInTime, ReviewInTime, CommitInTime, KeptAsRead
<1>2. WizardInv /\ [W!Next]_(W!wizardVars) => WizardInv'
  BY WizardStep
<1>3. WizardInv => W!TypeOK /\ W!ReviewIsOfWhatIsChosen
  <2>1. WizardTypes => DOMAIN mapping \subseteq Fields /\ W!IsInjective(mapping)
    BY DEF WizardTypes, W!Mappings
  <2>2. WizardInv => W!TypeOK
    BY <2>1 DEF WizardInv, WizardTypes, W!TypeOK
  <2>3. WizardInv => W!ReviewIsOfWhatIsChosen
    BY DEF WizardInv, ReviewInTime, CommitInTime, KeptAsRead, Chosen, ChosenMapping,
           W!ReviewIsOfWhatIsChosen
  <2> QED BY <2>2, <2>3
<1> QED BY <1>1, <1>2, <1>3, PTL DEF W!Spec

-----------------------------------------------------------------------------
(***************************************************************************)
(* Goals, for any goals at first and a person whose calls about them are    *)
(* served one at a time (~Overlap), whichever of them fail.                 *)
(***************************************************************************)
CONSTANTS AtFirst, Fresh, Today, Amounts, Fails, MaxEdits
VARIABLES goals, goalSheet, moneySheet, entry, applying, historyOpen, edits, wrote

G == INSTANCE Goals

IsCall(c) == c = [no |-> c.no, kind |-> c.kind, id |-> c.id, arg |-> c.arg, step |-> c.step]

\* Money about to be written is of a goal that is open, or gone.
ChecksHold(c) == c.step = "checked" => c.id \notin DOMAIN goals \/ ~G!isClosed(goals[c.id])

GoalsInv == /\ G!AreGoals(goals)
            /\ \A c \in calls : IsCall(c) /\ ChecksHold(c)
            /\ \A c, d \in calls : c = d

\* A step of the page alone: the goals stay, and a call leaves when there is none, or ends.
LEMMA PageAlone ==
  ASSUME GoalsInv, goals' = goals,
         \/ calls' \subseteq calls
         \/ /\ calls = {} /\ \A c, d \in calls' : c = d
            /\ \A c \in calls' : IsCall(c) /\ c.step = "sent"
  PROVE  GoalsInv' /\ G!ClosedMoneyStays
BY DEF GoalsInv, IsCall, ChecksHold, G!isClosed, G!AreGoals, G!IsGoal, G!ClosedMoneyStays

LEMMA AsksAlone ==
  ASSUME GoalsInv, ~Overlap, NEW kind, NEW id, NEW arg, G!mutate(kind, id, arg)
  PROVE  GoalsInv' /\ G!ClosedMoneyStays
<1>1. PICK c : c = [no |-> made', kind |-> kind, id |-> id, arg |-> arg, step |-> "sent"]
  OBVIOUS
<1>2. calls = {} /\ calls' = calls \cup {c} /\ goals' = goals
  BY <1>1 DEF G!mutate, G!server
<1>3. IsCall(c) /\ c.step = "sent"
  BY <1>1 DEF IsCall
<1> QED BY <1>2, <1>3, PageAlone

LEMMA PageStep ==
  ASSUME GoalsInv, ~Overlap,
         \/ G!GoalsEmpty \/ G!GoalsTable \/ G!MovesHead \/ G!applyRow \/ G!Close
         \/ G!GoalSheet \/ G!MoneySheet
         \/ G!saveGoal \/ G!saveMoney \/ G!askClose \/ G!reopen \/ G!askRemoveMove
         \/ G!invalidate \/ \E c \in calls : G!Answer(c)
  PROVE  GoalsInv' /\ G!ClosedMoneyStays
<1>1. CASE G!Edit
  BY <1>1, PageAlone DEF G!Edit, G!server
<1>2. CASE G!Close \/ G!invalidate
  BY <1>2, PageAlone DEF G!Close, G!invalidate, G!server
<1>3. ASSUME NEW c \in calls, G!Answer(c)
      PROVE  GoalsInv' /\ G!ClosedMoneyStays
  <2>1. calls' = calls \ {c} /\ goals' = goals
    BY <1>3 DEF G!Answer, G!server
  <2> QED BY <2>1, PageAlone
<1>4. CASE G!saveGoal \/ G!saveMoney \/ G!askClose \/ G!reopen \/ G!askRemoveMove
  <2>1. CASE G!saveGoal
    BY <2>1, AsksAlone DEF G!saveGoal
  <2>2. CASE G!saveMoney
    BY <2>2, AsksAlone DEF G!saveMoney
  <2>3. CASE G!askClose
    BY <2>3, AsksAlone DEF G!askClose
  <2>4. CASE G!reopen
    BY <2>4, AsksAlone DEF G!reopen
  <2>5. CASE G!askRemoveMove
    BY <2>5, AsksAlone DEF G!askRemoveMove
  <2> QED BY <1>4, <2>1, <2>2, <2>3, <2>4, <2>5
<1>5. CASE G!GoalsEmpty \/ G!GoalsTable \/ G!MovesHead \/ G!applyRow \/ G!GoalSheet \/ G!MoneySheet
  BY <1>1, <1>5 DEF G!GoalsEmpty, G!GoalsTable, G!MovesHead, G!applyRow, G!GoalSheet, G!MoneySheet
<1> QED BY <1>2, <1>3, <1>4, <1>5

\* Closing, reopening and deleting leave the money of what stays.
LEMMA Closing ==
  ASSUME G!AreGoals(goals), NEW id \in DOMAIN goals, NEW date, G!SetClosed(id, date)
  PROVE  G!AreGoals(goals)' /\ G!ClosedMoneyStays
<1>1. goals' = [goals EXCEPT ![id].closed = date]
  BY DEF G!SetClosed
<1>2. \A x \in DOMAIN goals : x # id => goals'[x] = goals[x]
  BY <1>1 DEF G!AreGoals
<1>3. G!IsGoal(goals'[id]) /\ goals'[id].moves = goals[id].moves
  BY <1>1 DEF G!AreGoals, G!IsGoal
<1> QED BY <1>1, <1>2, <1>3 DEF G!AreGoals, G!IsGoal, G!ClosedMoneyStays

LEMMA Removing ==
  ASSUME G!AreGoals(goals), NEW id, goals' = G!Without(id)
  PROVE  G!AreGoals(goals)' /\ G!ClosedMoneyStays
BY DEF G!AreGoals, G!IsGoal, G!Without, G!ClosedMoneyStays

LEMMA ServerStep ==
  ASSUME GoalsInv, NEW c \in calls, G!Serve(c)
  PROVE  GoalsInv' /\ G!ClosedMoneyStays
<1>1. /\ G!AreGoals(goals) /\ IsCall(c) /\ ChecksHold(c) /\ calls = {c}
  BY DEF GoalsInv
<1>2. ASSUME NEW step, G!Moved(c, step), G!AreGoals(goals)',
             step = "checked" => c.id \notin DOMAIN goals' \/ ~G!isClosed(goals'[c.id])
      PROVE  GoalsInv'
  <2>1. PICK d : d = [c EXCEPT !.step = step]
    OBVIOUS
  <2>2. calls' = {d}
    BY <1>1, <1>2, <2>1 DEF G!Moved
  <2>3. IsCall(d) /\ d.id = c.id /\ d.step = step
    BY <1>1, <2>1 DEF IsCall
  <2> QED BY <1>2, <2>2, <2>3 DEF GoalsInv, ChecksHold, G!isClosed
<1>3. ASSUME goals' = goals
      PROVE  G!AreGoals(goals)' /\ G!ClosedMoneyStays
  BY <1>1, <1>3 DEF G!AreGoals, G!IsGoal, G!ClosedMoneyStays
<1>4. CASE G!Check(c)
  <2>1. goals' = goals
    BY <1>4 DEF G!Check, G!server
  <2>2. PICK step : /\ G!Moved(c, step)
                    /\ step = "checked" => c.id \in DOMAIN goals /\ ~G!isClosed(goals[c.id])
    <3>1. CASE c.id \in DOMAIN goals /\ G!Accepts(goals[c.id])
      BY <1>4, <3>1 DEF G!Check, G!Accepts, G!Moved
    <3>2. CASE ~(c.id \in DOMAIN goals /\ G!Accepts(goals[c.id]))
      BY <1>4, <3>2 DEF G!Check, G!Moved
    <3> QED BY <3>1, <3>2
  <2> QED BY <1>2, <1>3, <2>1, <2>2
<1>5. CASE G!AddContribution(c) \/ G!DeleteContribution(c)
  <2>1. c.id \in DOMAIN goals => ~G!isClosed(goals[c.id])
    BY <1>1, <1>5 DEF ChecksHold, G!AddContribution, G!DeleteContribution
  <2>2. PICK step : G!Moved(c, step) /\ step # "checked"
    BY <1>5 DEF G!AddContribution, G!DeleteContribution, G!Moved
  <2>3. goals' = goals \/ (c.id \in DOMAIN goals /\ \E ms : goals' = [goals EXCEPT ![c.id].moves = ms])
    BY <1>5 DEF G!AddContribution, G!DeleteContribution, G!server
  <2>4. ASSUME NEW ms, c.id \in DOMAIN goals, goals' = [goals EXCEPT ![c.id].moves = ms]
        PROVE  G!AreGoals(goals)' /\ G!ClosedMoneyStays
    <3>1. \A id \in DOMAIN goals : id # c.id => goals'[id] = goals[id]
      BY <1>1, <2>4 DEF G!AreGoals
    <3>2. G!IsGoal(goals'[c.id])
      <4>1. PICK g : g = goals[c.id]
        OBVIOUS
      <4>2. G!IsGoal(g) /\ goals'[c.id] = [g EXCEPT !.moves = ms]
        BY <1>1, <2>4, <4>1 DEF G!AreGoals
      <4> QED BY <4>2 DEF G!IsGoal
    <3>3. G!AreGoals(goals)'
      BY <1>1, <2>4, <3>1, <3>2 DEF G!AreGoals
    <3>4. G!ClosedMoneyStays
      BY <2>1, <3>1 DEF G!ClosedMoneyStays
    <3> QED BY <3>3, <3>4
  <2> QED BY <1>2, <1>3, <2>2, <2>3, <2>4
<1>6. CASE G!CloseOrReopen(c)
  <2>1. PICK step : G!Moved(c, step) /\ step # "checked"
    BY <1>6 DEF G!CloseOrReopen, G!Moved
  <2>2. goals' = goals \/ (c.id \in DOMAIN goals /\ \E date : G!SetClosed(c.id, date))
    BY <1>6 DEF G!CloseOrReopen, G!SetClosed
  <2> QED BY <1>1, <1>2, <1>3, <2>1, <2>2, Closing
<1>7. CASE G!Update(c)
  <2>1. PICK step : G!Moved(c, step) /\ step # "checked"
    BY <1>7 DEF G!Update, G!Moved
  <2>2. \/ goals' = goals
        \/ \E g : G!IsGoal(g) /\ Fresh \notin DOMAIN goals
                  /\ goals' = [x \in DOMAIN goals \cup {Fresh} |-> IF x = Fresh THEN g ELSE goals[x]]
        \/ c.id \in DOMAIN goals /\ \E t, date :
              goals' = [goals EXCEPT ![c.id].target = t, ![c.id].date = date]
    BY <1>7 DEF G!Update, G!server, G!IsGoal
  <2>3. ASSUME NEW g, G!IsGoal(g), Fresh \notin DOMAIN goals,
               goals' = [x \in DOMAIN goals \cup {Fresh} |-> IF x = Fresh THEN g ELSE goals[x]]
        PROVE  G!AreGoals(goals)' /\ G!ClosedMoneyStays
    BY <1>1, <2>3 DEF G!AreGoals, G!IsGoal, G!ClosedMoneyStays
  <2>4. ASSUME NEW t, NEW date, c.id \in DOMAIN goals,
               goals' = [goals EXCEPT ![c.id].target = t, ![c.id].date = date]
        PROVE  G!AreGoals(goals)' /\ G!ClosedMoneyStays
    <3>1. \A id \in DOMAIN goals : id # c.id => goals'[id] = goals[id]
      BY <1>1, <2>4 DEF G!AreGoals
    <3>2. G!IsGoal(goals'[c.id]) /\ goals'[c.id].moves = goals[c.id].moves
      BY <1>1, <2>4 DEF G!AreGoals, G!IsGoal
    <3> QED BY <1>1, <2>4, <3>1, <3>2 DEF G!AreGoals, G!ClosedMoneyStays
  <2> QED BY <1>2, <1>3, <2>1, <2>2, <2>3, <2>4
<1>8. CASE G!Delete(c)
  <2>1. G!Moved(c, "ok") /\ goals' = G!Without(c.id)
    BY <1>8 DEF G!Delete
  <2> QED BY <1>1, <1>2, <2>1, Removing
<1>9. CASE G!Refuse(c)
  BY <1>2, <1>3, <1>9 DEF G!Refuse, G!server
<1> QED BY <1>4, <1>5, <1>6, <1>7, <1>8, <1>9 DEF G!Serve

LEMMA GoalsStep ==
  ASSUME GoalsInv, ~Overlap, [G!Next]_(G!goalVars)
  PROVE  GoalsInv' /\ G!ClosedMoneyStays
<1>1. CASE G!Elsewhere
  <2>1. calls = {} /\ calls' = calls
    BY <1>1 DEF G!Elsewhere
  <2>2. G!AreGoals(goals)
    BY DEF GoalsInv
  <2>3. CASE \E id \in DOMAIN goals : goals' = G!Without(id)
    BY <2>1, <2>2, <2>3, Removing DEF GoalsInv
  <2>4. CASE \E id \in DOMAIN goals : G!SetClosed(id, IF G!isClosed(goals[id]) THEN None ELSE Today)
    <3>1. PICK id \in DOMAIN goals : \E date : G!SetClosed(id, date)
      BY <2>4 DEF G!SetClosed
    <3>2. PICK date : G!SetClosed(id, date)
      BY <3>1
    <3> QED BY <2>1, <2>2, <3>2, Closing DEF GoalsInv
  <2> QED BY <1>1, <2>3, <2>4 DEF G!Elsewhere
<1>2. CASE \E c \in calls : G!Serve(c)
  BY <1>2, ServerStep
<1>3. CASE UNCHANGED G!goalVars
  BY <1>3, PageAlone DEF G!goalVars
<1> QED BY <1>1, <1>2, <1>3, PageStep DEF G!Next

\* GoalSheet.tsx, goal.AddContribution: the money of a closed goal stays as it is until the goal is
\* reopened, also when it is closed from the sheet that puts the last of it in.
THEOREM ClosedGoalsKeepTheirMoney ==
  ASSUME G!GoalsConstants, ~Overlap
  PROVE  G!Spec => [][G!ClosedMoneyStays]_(G!goalVars)
<1>1. G!Init => GoalsInv
  BY DEF G!Init, G!GoalsConstants, GoalsInv
<1>2. GoalsInv /\ [G!Next]_(G!goalVars) => GoalsInv' /\ [G!ClosedMoneyStays]_(G!goalVars)
  BY GoalsStep
<1> QED BY <1>1, <1>2, PTL DEF G!Spec

-----------------------------------------------------------------------------
(***************************************************************************)
(* Register: the page of an account's rows, for any rows and accounts,      *)
(* whatever is deleted and edited meanwhile and whichever answers are late. *)
(***************************************************************************)
CONSTANTS RowIds, AccountOf, OtherLeg, Bounds
VARIABLES live, rec, outside, cache, selected, anchor, reconcile, menu, question, bulkOpen, loads,
          formOpened, editing, duplicating, transferSheet, jobs, asks, bound

R == INSTANCE Register WITH Rows <- RowIds

\* What the list holds of a row, and what the sheet holds: the whole of it.
Statuses == {0, R!Reconciled}
Listings == [id : RowIds, status : Statuses, splits : {R!Unlisted}]
Wholes == [id : RowIds, splits : {"kept", "gone"}]
OrNoRow(shapes) == shapes \cup {R!NoRow}

Questions == {R!NoQuestion}
        \cup [ask : {"unlockEdit"}, row : Listings]
        \cup [ask : {"unlockDelete", "delete"}, row : Listings, unlocked : BOOLEAN]
        \cup [ask : {"bulkDelete"}, ids : SUBSET RowIds]
RowJobs == [kind : {"save"}, ids : SUBSET RowIds, row : Wholes, status : Statuses]
      \cup [kind : {"status", "bulk"}, ids : SUBSET RowIds, status : Statuses]
      \cup [kind : {"remove"}, ids : SUBSET RowIds, row : Listings, unlocked : BOOLEAN]
      \cup [kind : {"bulkDelete"}, ids : SUBSET RowIds]
RowReplies == [kind : {"done", "refused"}, of : {"save", "status", "bulk", "remove", "bulkDelete"}]

\* The server's rows, and what the page lists of them.
ServerRows == live \subseteq RowIds /\ rec \in [RowIds -> [status : Statuses, splits : {"kept", "gone"}]]
OnScreenRows == /\ account \in Accounts /\ cache \subseteq Listings
                /\ \A x \in cache : AccountOf[x.id] = account
Ticks == /\ selected \subseteq RowIds /\ \A r \in selected : AccountOf[r] = account
         /\ anchor \in 0 .. Cardinality(RowIds) /\ reconcile \in BOOLEAN

\* What was caught off the list, and what a question has made sure of.
Caught == menu \in OrNoRow(Listings) /\ question \in Questions /\ bulkOpen \in BOOLEAN
AskedFirst == question.ask = "delete" /\ question.row.status = R!Reconciled => question.unlocked

\* What was fetched whole, and the sheet it fills.
Fetched == loads \subseteq [id : RowIds, why : {"edit", "duplicate"}, row : OrNoRow(Wholes)]
Sheets == /\ editing \in OrNoRow(Wholes) /\ duplicating \in OrNoRow(Wholes)
          /\ R!SheetIsOnOneRow
Sent == jobs \subseteq RowJobs \cup RowReplies /\ R!LockedRowsAskFirst
Bounded == bound \in Bounds /\ asks \in 0 .. bound.asks /\ outside \in 0 .. bound.outside

RegisterInv == /\ ServerRows /\ OnScreenRows /\ Ticks /\ Caught /\ AskedFirst
               /\ Fetched /\ Sheets /\ Sent /\ Bounded

LEMMA SameCardinality == \A S : R!Cardinality(S) = Cardinality(S) /\ R!IsFiniteSet(S) = IsFiniteSet(S)
BY DEF R!Cardinality, Cardinality, R!IsFiniteSet, IsFiniteSet

\* A step keeps what none of its variables are in.
LEMMA RegisterFrame ==
  ASSUME RegisterInv
  PROVE  /\ UNCHANGED <<live, rec>> => ServerRows'
         /\ UNCHANGED <<account, cache>> => OnScreenRows'
         /\ UNCHANGED <<account, selected, anchor, reconcile>> => Ticks'
         /\ UNCHANGED <<menu, question, bulkOpen>> => Caught' /\ AskedFirst'
         /\ UNCHANGED loads => Fetched'
         /\ UNCHANGED <<editing, duplicating>> => Sheets'
         /\ UNCHANGED jobs => Sent'
         /\ UNCHANGED <<asks, outside, bound>> => Bounded'
<1>1. UNCHANGED <<live, rec>> => ServerRows'
  BY DEF RegisterInv, ServerRows
<1>2. UNCHANGED <<account, cache>> => OnScreenRows'
  BY DEF RegisterInv, OnScreenRows
<1>3. UNCHANGED <<account, selected, anchor, reconcile>> => Ticks'
  BY DEF RegisterInv, Ticks
<1>4. UNCHANGED <<menu, question, bulkOpen>> => Caught' /\ AskedFirst'
  BY DEF RegisterInv, Caught, AskedFirst
<1>5. UNCHANGED loads => Fetched'
  BY DEF RegisterInv, Fetched
<1>6. UNCHANGED <<editing, duplicating>> => Sheets'
  BY DEF RegisterInv, Sheets, R!SheetIsOnOneRow
<1>7. UNCHANGED jobs => Sent'
  BY DEF RegisterInv, Sent, R!LockedRowsAskFirst
<1>8. UNCHANGED <<asks, outside, bound>> => Bounded'
  BY DEF RegisterInv, Bounded
<1> QED BY <1>1, <1>2, <1>3, <1>4, <1>5, <1>6, <1>7, <1>8

LEMMA ListsOneAccount ==
  ASSUME ServerRows, NEW a
  PROVE  /\ R!List(a) \subseteq Listings
         /\ \A x \in R!List(a) : AccountOf[x.id] = a
BY DEF ServerRows, R!List, R!Listed, Listings

\* The place of a row is one of as many as there are rows.
LEMMA PlaceInRange ==
  ASSUME IsFiniteSet(RowIds), cache \subseteq Listings, NEW x
  PROVE  R!PlaceOf(x) \in 0 .. Cardinality(RowIds)
<1> DEFINE above == { id \in { r.id : r \in cache } : id >= x.id }
<1>1. above \subseteq RowIds
  BY DEF Listings
<1>2. Cardinality(above) \in Nat /\ Cardinality(RowIds) \in Nat /\ Cardinality(above) <= Cardinality(RowIds)
  BY <1>1, FS_Subset, FS_CardinalityType
<1>3. R!PlaceOf(x) = Cardinality(above)
  BY SameCardinality DEF R!PlaceOf
<1> QED BY <1>2, <1>3

\* What is on screen is read, and rows of it are picked.
LEMMA ScreenStep ==
  ASSUME R!RegisterAssumption, RegisterInv, UNCHANGED bound,
         R!ReadRegister \/ \E a \in Accounts : R!SwitchAccount(a)
  PROVE  RegisterInv'
<1> USE DEF R!server, R!picking, R!sheets
<1>1. PICK a \in Accounts : /\ account' = a /\ cache' \in {{}, R!List(a)}
                            /\ UNCHANGED <<live, rec, outside, anchor, menu, question, bulkOpen, loads,
                                           formOpened, editing, duplicating, transferSheet, jobs, asks>>
                            /\ \/ account' = account /\ UNCHANGED <<selected, reconcile>>
                               \/ selected' = {} /\ reconcile' = FALSE
  BY DEF R!ReadRegister, R!SwitchAccount, RegisterInv, OnScreenRows
<1>2. OnScreenRows'
  BY <1>1, ListsOneAccount DEF RegisterInv, OnScreenRows
<1>3. Ticks'
  BY <1>1 DEF RegisterInv, Ticks
<1> QED BY <1>1, <1>2, <1>3, RegisterFrame DEF RegisterInv

LEMMA PickStep ==
  ASSUME R!RegisterAssumption, RegisterInv, UNCHANGED bound,
         \/ R!TickAll \/ R!ClearSelection
         \/ \E x \in cache : R!Tick(x) \/ R!TickRange(x)
  PROVE  RegisterInv'
<1>1. R!Picking
  BY DEF R!TickAll, R!ClearSelection, R!Tick, R!TickRange
<1>2. UNCHANGED <<live, rec, outside, account, cache, menu, question, bulkOpen, loads, editing,
                  duplicating, jobs, asks>>
  BY <1>1 DEF R!Picking, R!server, R!sheets
<1>3. \A x \in cache : x.id \in RowIds /\ AccountOf[x.id] = account
  BY DEF RegisterInv, OnScreenRows, Listings
<1>4. selected' \subseteq selected \cup { x.id : x \in cache }
  BY DEF R!TickAll, R!ClearSelection, R!Tick, R!TickRange
<1>5. anchor' = anchor \/ \E x : anchor' = R!PlaceOf(x)
  BY DEF R!TickAll, R!ClearSelection, R!Tick, R!TickRange
<1>6. anchor' \in 0 .. Cardinality(RowIds)
  BY <1>5, PlaceInRange, SameCardinality
     DEF RegisterInv, Ticks, OnScreenRows, R!RegisterAssumption
<1>7. reconcile' \in BOOLEAN
  BY DEF R!TickAll, R!ClearSelection, R!Tick, R!TickRange, RegisterInv, Ticks
<1>8. Ticks'
  BY <1>2, <1>3, <1>4, <1>6, <1>7 DEF RegisterInv, Ticks
<1> QED BY <1>2, <1>8, RegisterFrame DEF RegisterInv

\* The menu, the questions and the bulk editor.
LEMMA ActsOnARow ==
  ASSUME RegisterInv, NEW x, R!ActOn(x)
  PROVE  /\ x \in Listings /\ menu' = R!NoRow
         /\ UNCHANGED <<live, rec, outside, account, cache, selected, anchor, reconcile, bulkOpen>>
BY DEF R!ActOn, R!server, R!picking, RegisterInv, OnScreenRows, Caught, OrNoRow

\* A whole record is asked for, or the sheet of a transfer is opened.
LEMMA EditAsks ==
  ASSUME RegisterInv, NEW x \in Listings, NEW why \in {"edit", "duplicate"},
         R!Edit(x) \/ R!loadWhole(x, why)
  PROVE  Fetched' /\ UNCHANGED <<editing, duplicating>>
<1>1. CASE R!OpenTransfer(x)
  BY <1>1, RegisterFrame DEF R!OpenTransfer
<1>2. ASSUME NEW w \in {"edit", "duplicate"}, R!loadWhole(x, w)
      PROVE  Fetched' /\ UNCHANGED <<editing, duplicating>>
  BY <1>2 DEF R!loadWhole, R!sheets, RegisterInv, Fetched, Listings, OrNoRow
<1> QED BY <1>1, <1>2 DEF R!Edit

\* The questions there are.
LEMMA QuestionsAsked ==
  /\ R!NoQuestion \in Questions
  /\ \A x \in Listings : [ask |-> "unlockEdit", row |-> x] \in Questions
  /\ \A x \in Listings, ask \in {"unlockDelete", "delete"}, u \in BOOLEAN :
       [ask |-> ask, row |-> x, unlocked |-> u] \in Questions
  /\ \A ids \in SUBSET RowIds : [ask |-> "bulkDelete", ids |-> ids] \in Questions
<1>1. R!NoQuestion \in Questions
  BY DEF Questions
<1>2. ASSUME NEW x \in Listings
      PROVE  [ask |-> "unlockEdit", row |-> x] \in Questions
  BY DEF Questions
<1>3. ASSUME NEW x \in Listings, NEW ask \in {"unlockDelete", "delete"}, NEW u \in BOOLEAN
      PROVE  [ask |-> ask, row |-> x, unlocked |-> u] \in Questions
  BY DEF Questions
<1>4. ASSUME NEW ids \in SUBSET RowIds
      PROVE  [ask |-> "bulkDelete", ids |-> ids] \in Questions
  BY DEF Questions
<1> QED BY <1>1, <1>2, <1>3, <1>4

LEMMA DialogStep ==
  ASSUME RegisterInv, UNCHANGED bound,
         \/ R!CloseMenu \/ R!Decline \/ R!OpenBulkEdit \/ R!CloseBulkEdit \/ R!deleteSelected
         \/ \E x \in cache : R!OpenMenu(x)
  PROVE  RegisterInv'
<1>1. UNCHANGED <<live, rec, outside, account, cache, selected, anchor, reconcile, loads, editing,
                  duplicating, jobs, asks>>
  BY DEF R!CloseMenu, R!Decline, R!OpenBulkEdit, R!CloseBulkEdit, R!deleteSelected, R!OpenMenu,
         R!server, R!picking, R!sheets
<1>2. /\ menu' \in {menu, R!NoRow} \cup cache
      /\ bulkOpen' \in BOOLEAN
      /\ question' \in {question, R!NoQuestion, [ask |-> "bulkDelete", ids |-> selected]}
  BY DEF R!CloseMenu, R!Decline, R!OpenBulkEdit, R!CloseBulkEdit, R!deleteSelected, R!OpenMenu,
         RegisterInv, Caught
<1>3. question' \in Questions
  BY <1>2, QuestionsAsked DEF RegisterInv, Caught, Ticks
<1>4. Caught'
  BY <1>2, <1>3 DEF RegisterInv, Caught, OnScreenRows, OrNoRow
<1>5. AskedFirst'
  BY <1>2 DEF RegisterInv, AskedFirst, R!NoQuestion
<1> QED BY <1>1, <1>4, <1>5, RegisterFrame DEF RegisterInv

LEMMA RowStep ==
  ASSUME RegisterInv, UNCHANGED bound, NEW x,
         R!editRow(x) \/ R!duplicateRow(x) \/ R!deleteRow(x)
  PROVE  RegisterInv'
<1>1. R!ActOn(x) /\ UNCHANGED <<jobs, asks>>
  BY DEF R!editRow, R!duplicateRow, R!deleteRow
<1>2. /\ x \in Listings /\ menu' = R!NoRow
      /\ UNCHANGED <<live, rec, outside, account, cache, selected, anchor, reconcile, bulkOpen>>
  BY <1>1, ActsOnARow
<1>3. /\ \/ R!Edit(x) \/ R!loadWhole(x, "duplicate")
         \/ UNCHANGED <<loads, editing, duplicating>>
      /\ \/ UNCHANGED question
         \/ question' = [ask |-> "unlockEdit", row |-> x]
         \/ x.status = R!Reconciled /\ question' = [ask |-> "unlockDelete", row |-> x, unlocked |-> FALSE]
         \/ x.status # R!Reconciled /\ question' = [ask |-> "delete", row |-> x, unlocked |-> FALSE]
  BY DEF R!editRow, R!duplicateRow, R!deleteRow, R!sheets
<1>4. Fetched' /\ UNCHANGED <<editing, duplicating>>
  BY <1>2, <1>3, EditAsks, RegisterFrame
<1>5. question' \in Questions
  BY <1>2, <1>3, QuestionsAsked DEF RegisterInv, Caught
<1>6. Caught'
  BY <1>2, <1>5 DEF RegisterInv, Caught, OrNoRow
<1>7. AskedFirst'
  BY <1>3 DEF RegisterInv, AskedFirst
<1> QED BY <1>1, <1>2, <1>4, <1>6, <1>7, RegisterFrame DEF RegisterInv

LEMMA UnlockStep ==
  ASSUME RegisterInv, UNCHANGED bound, R!Unlock
  PROVE  RegisterInv'
<1>1. UNCHANGED <<live, rec, outside, account, cache, selected, anchor, reconcile, menu, bulkOpen, jobs, asks>>
  BY DEF R!Unlock, R!server, R!picking
<1>2. question.row \in Listings
  BY DEF R!Unlock, RegisterInv, Caught, Questions, R!NoQuestion
<1>3. /\ \/ R!Edit(question.row) \/ UNCHANGED <<loads, editing, duplicating>>
      /\ question' \in {R!NoQuestion, [ask |-> "delete", row |-> question.row, unlocked |-> TRUE]}
  BY DEF R!Unlock, R!sheets
<1>4. Fetched' /\ UNCHANGED <<editing, duplicating>>
  BY <1>2, <1>3, EditAsks, RegisterFrame
<1>5. question' \in Questions
  BY <1>2, <1>3, QuestionsAsked
<1>6. Caught' /\ AskedFirst'
  BY <1>1, <1>3, <1>5 DEF RegisterInv, Caught, AskedFirst, R!NoQuestion
<1> QED BY <1>1, <1>4, <1>6, RegisterFrame DEF RegisterInv

\* The entry and transfer sheets.
LEMMA EntrySheetStep ==
  ASSUME R!RegisterAssumption, RegisterInv, UNCHANGED bound,
         \/ R!AddTransaction \/ R!PressN \/ R!AddTransfer \/ R!CloseSheet
         \/ \E l \in loads : R!ReadWhole(l) \/ R!OpenedOn(l)
  PROVE  RegisterInv'
<1>1. UNCHANGED <<live, rec, outside, account, cache, selected, anchor, reconcile, menu, question,
                  bulkOpen, jobs, asks>>
  BY DEF R!AddTransaction, R!PressN, R!AddTransfer, R!CloseSheet, R!ReadWhole, R!OpenedOn,
         R!server, R!picking
<1>2. Fetched'
  <2>1. CASE loads' \subseteq loads
    BY <2>1 DEF RegisterInv, Fetched
  <2>2. ASSUME NEW l \in loads, R!ReadWhole(l)
        PROVE  Fetched'
    <3>1. l \in [id : RowIds, why : {"edit", "duplicate"}, row : OrNoRow(Wholes)]
      BY DEF RegisterInv, Fetched
    <3>2. R!Whole(l.id) \in Wholes
      BY <3>1 DEF R!Whole, Wholes, RegisterInv, ServerRows
    <3>3. [l EXCEPT !.row = R!Whole(l.id)] \in [id : RowIds, why : {"edit", "duplicate"}, row : OrNoRow(Wholes)]
      BY <3>1, <3>2 DEF OrNoRow
    <3> QED BY <2>2, <3>3 DEF R!ReadWhole, RegisterInv, Fetched
  <2> QED BY <2>1, <2>2 DEF R!AddTransaction, R!PressN, R!AddTransfer, R!CloseSheet, R!OpenedOn
<1>3. /\ editing' \in {editing, R!NoRow} /\ duplicating' \in {duplicating, R!NoRow}
      \/ \E l \in loads : /\ l.row # R!NoRow
                          /\ \/ editing' = l.row /\ duplicating' = R!NoRow
                             \/ editing' = R!NoRow /\ duplicating' = l.row
  BY DEF R!AddTransaction, R!PressN, R!AddTransfer, R!CloseSheet, R!ReadWhole, R!OpenedOn, R!sheets
<1>4. Sheets'
  BY <1>3 DEF RegisterInv, Fetched, Sheets, R!SheetIsOnOneRow, OrNoRow
<1>5. ServerRows' /\ OnScreenRows' /\ Ticks' /\ Caught' /\ AskedFirst' /\ Sent' /\ Bounded'
  BY <1>1, RegisterFrame
<1> QED BY <1>2, <1>4, <1>5 DEF RegisterInv

\* The requests the page sends.
LEMMA JobsMade ==
  /\ \A ids \in SUBSET RowIds, x \in Wholes, s \in Statuses :
       [kind |-> "save", ids |-> ids, row |-> x, status |-> s] \in RowJobs
  /\ \A k \in {"status", "bulk"}, ids \in SUBSET RowIds, s \in Statuses :
       [kind |-> k, ids |-> ids, status |-> s] \in RowJobs
  /\ \A ids \in SUBSET RowIds, x \in Listings, u \in BOOLEAN :
       [kind |-> "remove", ids |-> ids, row |-> x, unlocked |-> u] \in RowJobs
  /\ \A ids \in SUBSET RowIds : [kind |-> "bulkDelete", ids |-> ids] \in RowJobs
<1>1. ASSUME NEW ids \in SUBSET RowIds, NEW x \in Wholes, NEW s \in Statuses
      PROVE  [kind |-> "save", ids |-> ids, row |-> x, status |-> s] \in RowJobs
  BY DEF RowJobs
<1>2. ASSUME NEW k \in {"status", "bulk"}, NEW ids \in SUBSET RowIds, NEW s \in Statuses
      PROVE  [kind |-> k, ids |-> ids, status |-> s] \in RowJobs
  BY DEF RowJobs
<1>3. ASSUME NEW ids \in SUBSET RowIds, NEW x \in Listings, NEW u \in BOOLEAN
      PROVE  [kind |-> "remove", ids |-> ids, row |-> x, unlocked |-> u] \in RowJobs
  BY DEF RowJobs
<1>4. ASSUME NEW ids \in SUBSET RowIds
      PROVE  [kind |-> "bulkDelete", ids |-> ids] \in RowJobs
  BY DEF RowJobs
<1> QED BY <1>1, <1>2, <1>3, <1>4

LEMMA Requested ==
  ASSUME R!RegisterAssumption, RegisterInv, UNCHANGED <<bound, outside>>,
         NEW j \in RowJobs, R!Ask(j),
         j.kind = "remove" /\ j.row.status = R!Reconciled => j.unlocked
  PROVE  Sent' /\ Bounded'
<1>1. jobs' = jobs \cup {j} /\ asks < bound.asks /\ asks' = asks + 1
  BY DEF R!Ask
<1>2. Sent'
  BY <1>1 DEF RegisterInv, Sent, R!LockedRowsAskFirst
<1>3. Bounded'
  BY <1>1 DEF RegisterInv, Bounded, R!RegisterAssumption
<1> QED BY <1>2, <1>3

LEMMA RequestStep ==
  ASSUME R!RegisterAssumption, RegisterInv, UNCHANGED bound,
         \/ R!SaveSheet \/ R!Agree \/ R!ApplyBulk \/ R!FinishReconcile
         \/ \E x : R!toggleStatus(x)
  PROVE  RegisterInv'
<1>1. UNCHANGED <<live, rec, outside, account, cache, selected, anchor, bulkOpen, loads, editing,
                  duplicating>> /\ reconcile' \in {reconcile, FALSE}
  BY DEF R!SaveSheet, R!Agree, R!ApplyBulk, R!FinishReconcile, R!toggleStatus, R!ActOn,
         R!server, R!picking, R!sheets
<1>2. Sent' /\ Bounded'
  <2> USE <1>1
  <2>1. CASE R!SaveSheet
    <3>1. PICK s \in Statuses : R!Ask([kind |-> "save", ids |-> {editing.id}, row |-> editing, status |-> s])
      BY <2>1 DEF R!SaveSheet, Statuses
    <3>2. editing \in Wholes /\ {editing.id} \in SUBSET RowIds
      BY <2>1 DEF R!SaveSheet, RegisterInv, Sheets, OrNoRow, Wholes
    <3> QED BY <3>1, <3>2, JobsMade, Requested
  <2>2. CASE R!Agree /\ question.ask = "delete"
    <3>1. /\ R!Ask([kind |-> "remove", ids |-> {question.row.id}, row |-> question.row, unlocked |-> question.unlocked])
          /\ question.row.status = R!Reconciled => question.unlocked
      BY <2>2 DEF R!Agree, RegisterInv, AskedFirst
    <3>2. question.row \in Listings /\ question.unlocked \in BOOLEAN /\ {question.row.id} \in SUBSET RowIds
      BY <2>2 DEF RegisterInv, Caught, Questions, R!NoQuestion, Listings
    <3> QED BY <3>1, <3>2, JobsMade, Requested
  <2>3. CASE R!Agree /\ question.ask = "bulkDelete"
    <3>1. R!Ask([kind |-> "bulkDelete", ids |-> question.ids])
      BY <2>3 DEF R!Agree
    <3>2. question.ids \in SUBSET RowIds
      BY <2>3 DEF RegisterInv, Caught, Questions, R!NoQuestion
    <3> QED BY <3>1, <3>2, JobsMade, Requested
  <2>4. CASE R!ApplyBulk \/ R!FinishReconcile
    <3>1. PICK s \in Statuses : R!Ask([kind |-> "bulk", ids |-> selected, status |-> s])
      BY <2>4 DEF R!ApplyBulk, R!FinishReconcile, Statuses
    <3>2. selected \in SUBSET RowIds
      BY DEF RegisterInv, Ticks
    <3> QED BY <3>1, <3>2, JobsMade, Requested
  <2>5. CASE \E x : R!toggleStatus(x)
    <3>1. PICK x : R!toggleStatus(x)
      BY <2>5
    <3>2. PICK s \in Statuses : R!Ask([kind |-> "status", ids |-> {x.id}, status |-> s])
      BY <3>1 DEF R!toggleStatus, Statuses
    <3>3. {x.id} \in SUBSET RowIds
      BY <3>1, ActsOnARow DEF R!toggleStatus, Listings
    <3> QED BY <3>2, <3>3, JobsMade, Requested
  <2> QED BY <2>1, <2>2, <2>3, <2>4, <2>5 DEF R!Agree
<1>3. menu' \in {menu, R!NoRow} /\ question' \in {question, R!NoQuestion}
  BY DEF R!SaveSheet, R!Agree, R!ApplyBulk, R!FinishReconcile, R!toggleStatus, R!ActOn
<1>4. Caught' /\ AskedFirst'
  BY <1>1, <1>3, QuestionsAsked DEF RegisterInv, Caught, OrNoRow, AskedFirst, R!NoQuestion
<1>5. Ticks'
  BY <1>1 DEF RegisterInv, Ticks
<1> QED BY <1>1, <1>2, <1>4, <1>5, RegisterFrame DEF RegisterInv

\* The server, and its answers.
LEMMA JobKinds ==
  ASSUME NEW j \in RowJobs
  PROVE  /\ j.ids \subseteq RowIds
         /\ j.kind \in {"save", "status", "bulk", "remove", "bulkDelete"}
         /\ j.kind \in {"status", "bulk", "save"} => j.status \in Statuses
         /\ j.kind = "save" => j.row \in Wholes
BY DEF RowJobs

LEMMA RecordsKept ==
  ASSUME rec \in [RowIds -> [status : Statuses, splits : {"kept", "gone"}]],
         NEW s \in Statuses, NEW r \in RowIds
  PROVE  [rec[r] EXCEPT !.status = s] \in [status : Statuses, splits : {"kept", "gone"}]
OBVIOUS

LEMMA RegisterServes ==
  ASSUME RegisterInv, UNCHANGED bound, NEW j \in jobs, R!Serve(j)
  PROVE  RegisterInv'
<1>1. j \in RowJobs
  BY DEF R!Serve, RegisterInv, Sent, RowReplies
<1>2. UNCHANGED <<outside, account, cache, selected, anchor, reconcile, menu, question, bulkOpen,
                  loads, editing, duplicating, asks>>
  BY DEF R!Serve, R!picking, R!sheets
<1>3. ServerRows'
  <2>1. CASE UNCHANGED <<live, rec>>
    BY <2>1, RegisterFrame
  <2>2. CASE j.kind \in {"status", "bulk"} /\ UNCHANGED live
             /\ rec' = [r \in RowIds |-> IF r \in j.ids THEN [rec[r] EXCEPT !.status = j.status] ELSE rec[r]]
    BY <1>1, <2>2, JobKinds, RecordsKept DEF RegisterInv, ServerRows
  <2>3. CASE live' \subseteq live /\ UNCHANGED rec
    BY <2>3 DEF RegisterInv, ServerRows
  <2>4. CASE /\ j.kind = "save" /\ UNCHANGED live
             /\ rec' = [rec EXCEPT ![j.row.id] =
                          [status |-> j.status,
                           splits |-> IF j.row.splits = R!Unlisted THEN "gone" ELSE j.row.splits]]
    <3>1. j.row.splits \in {"kept", "gone"} /\ j.row.id \in RowIds /\ j.status \in Statuses
      BY <1>1, <2>4, JobKinds DEF Wholes
    <3> QED BY <2>4, <3>1 DEF RegisterInv, ServerRows
  <2>5. CASE j.ids \subseteq live
    <3>1. CASE j.kind \in {"status", "bulk"}
      BY <2>2, <2>5, <3>1 DEF R!Serve
    <3>2. CASE j.kind \in {"remove", "bulkDelete"}
      BY <2>3, <2>5, <3>2 DEF R!Serve
    <3>3. CASE j.kind = "save"
      BY <2>4, <2>5, <3>3 DEF R!Serve
    <3> QED BY <1>1, <3>1, <3>2, <3>3, JobKinds
  <2> QED BY <2>1, <2>5 DEF R!Serve
<1>4. Sent'
  <2>1. PICK v \in {"done", "refused"} : R!Reply(j, v)
    BY DEF R!Serve
  <2>2. [kind |-> v, of |-> j.kind] \in RowReplies
    BY <1>1, JobKinds DEF RowReplies
  <2> QED BY <2>1, <2>2 DEF R!Reply, RegisterInv, Sent, R!LockedRowsAskFirst
<1> QED BY <1>2, <1>3, <1>4, RegisterFrame DEF RegisterInv

LEMMA RegisterAnswered ==
  ASSUME RegisterInv, UNCHANGED bound, NEW j \in jobs, R!Answered(j)
  PROVE  RegisterInv'
<1>1. /\ jobs' \subseteq jobs /\ selected' \subseteq selected
      /\ bulkOpen' \in {bulkOpen, FALSE} /\ duplicating' \in {duplicating, R!NoRow}
      /\ UNCHANGED <<live, rec, outside, account, cache, anchor, reconcile, menu, question, loads,
                     editing, asks>>
  BY DEF R!Answered, R!server
<1>2. Sent'
  BY <1>1 DEF RegisterInv, Sent, R!LockedRowsAskFirst
<1>3. Ticks' /\ Caught' /\ AskedFirst'
  BY <1>1 DEF RegisterInv, Ticks, Caught, AskedFirst
<1>4. Sheets'
  BY <1>1 DEF RegisterInv, Sheets, R!SheetIsOnOneRow, OrNoRow
<1> QED BY <1>1, <1>2, <1>3, <1>4, RegisterFrame DEF RegisterInv

LEMMA RegisterElsewhere ==
  ASSUME R!RegisterAssumption, RegisterInv, UNCHANGED bound, R!Outside
  PROVE  RegisterInv'
<1>1. /\ outside < bound.outside /\ outside' = outside + 1
      /\ UNCHANGED <<account, cache, selected, anchor, reconcile, menu, question, bulkOpen, loads,
                     editing, duplicating, jobs, asks>>
  BY DEF R!Outside, R!picking, R!sheets
<1>2. Bounded'
  BY <1>1 DEF RegisterInv, Bounded, R!RegisterAssumption
<1>3. ServerRows'
  <2>1. CASE live' \subseteq live /\ UNCHANGED rec
    BY <2>1 DEF RegisterInv, ServerRows
  <2>2. ASSUME NEW r \in live, rec' = [rec EXCEPT ![r].status = R!Reconciled - @], UNCHANGED live
        PROVE  ServerRows'
    <3>1. r \in RowIds /\ R!Reconciled - rec[r].status \in Statuses
      BY DEF RegisterInv, ServerRows, Statuses, R!Reconciled
    <3>2. rec' = [rec EXCEPT ![r] = [rec[r] EXCEPT !.status = R!Reconciled - rec[r].status]]
      BY <2>2, <3>1 DEF RegisterInv, ServerRows
    <3> QED BY <2>2, <3>1, <3>2, RecordsKept DEF RegisterInv, ServerRows
  <2> QED BY <2>1, <2>2 DEF R!Outside
<1> QED BY <1>1, <1>2, <1>3, RegisterFrame DEF RegisterInv

LEMMA RegisterStep ==
  ASSUME R!RegisterAssumption, RegisterInv, [R!Next]_(R!vars)
  PROVE  RegisterInv'
<1>1. CASE UNCHANGED R!vars
  BY <1>1, RegisterFrame DEF R!vars, R!server, R!picking, R!sheets, RegisterInv
<1>2. CASE R!Step /\ UNCHANGED bound
  BY <1>2, ScreenStep, PickStep, DialogStep, RowStep, UnlockStep, EntrySheetStep, RequestStep,
     RegisterServes, RegisterAnswered, RegisterElsewhere DEF R!Step
<1> QED BY <1>1, <1>2 DEF R!Next

\* TransactionsPage.tsx, RegisterTable.tsx: in every interleaving of late answers, other devices
\* and changes of account, what a bulk action takes is of the account on screen, a row shown as
\* reconciled was unlocked before its button deletes it, and the sheet holds the whole of one row.
THEOREM SheetsHoldWholeRows ==
  ASSUME R!RegisterAssumption
  PROVE  R!Spec => [](/\ R!TypeOK /\ R!PickedRowsAreOfThisAccount /\ R!LockedRowsAskFirst
                      /\ R!SheetHoldsTheWholeRecord /\ R!SheetIsOnOneRow)
<1>1. R!Init => RegisterInv
  <2> SUFFICES ASSUME R!Init PROVE RegisterInv
    OBVIOUS
  <2>1. ServerRows
    BY DEF R!Init, ServerRows, Statuses
  <2>2. OnScreenRows /\ Caught /\ AskedFirst /\ Fetched /\ Sheets /\ Sent
    BY QuestionsAsked DEF R!Init, OnScreenRows, Caught, AskedFirst, Fetched, Sheets, Sent, OrNoRow,
                          R!NoQuestion, R!SheetIsOnOneRow, R!LockedRowsAskFirst
  <2>3. Cardinality(RowIds) \in Nat
    BY SameCardinality, FS_CardinalityType DEF R!RegisterAssumption
  <2>4. 0 \in 0 .. Cardinality(RowIds)
    BY <2>3
  <2>5. Ticks
    BY <2>4 DEF R!Init, Ticks
  <2>6. bound \in Bounds /\ bound.asks \in Nat /\ bound.outside \in Nat
    BY DEF R!Init, R!RegisterAssumption
  <2>7. Bounded
    BY <2>6 DEF R!Init, Bounded
  <2> QED BY <2>1, <2>2, <2>5, <2>7 DEF RegisterInv
<1>2. RegisterInv /\ [R!Next]_(R!vars) => RegisterInv'
  BY RegisterStep
<1>3. RegisterInv => /\ R!TypeOK /\ R!PickedRowsAreOfThisAccount /\ R!LockedRowsAskFirst
                     /\ R!SheetHoldsTheWholeRecord /\ R!SheetIsOnOneRow
  <2> SUFFICES ASSUME RegisterInv
               PROVE  /\ R!TypeOK /\ R!PickedRowsAreOfThisAccount /\ R!LockedRowsAskFirst
                      /\ R!SheetHoldsTheWholeRecord /\ R!SheetIsOnOneRow
    OBVIOUS
  <2>1. R!TypeOK
    BY SameCardinality DEF RegisterInv, ServerRows, OnScreenRows, Ticks, Caught, Bounded, Listings, R!TypeOK
  <2>2. R!SheetHoldsTheWholeRecord
    BY DEF RegisterInv, Sheets, Wholes, OrNoRow, R!SheetHoldsTheWholeRecord, R!Unlisted
  <2> QED BY <2>1, <2>2 DEF RegisterInv, Ticks, Sheets, Sent, R!PickedRowsAreOfThisAccount
<1> QED BY <1>1, <1>2, <1>3, PTL DEF R!Spec

-----------------------------------------------------------------------------
(***************************************************************************)
(* BankScreens: the card of a bank connection, for any zone of whole hours, *)
(* hours and days, accounts and number of calls, served in any order.       *)
(***************************************************************************)
CONSTANTS Offset, Hours, Days, Remotes
VARIABLES conn, links, runs, seenLinks, latest, asking, chosen

B == INSTANCE BankScreens

Scheduled == [hour : 0 .. 23, days : SUBSET B!AllDays]

LEMMA MovedIsScheduled ==
  ASSUME NEW total \in Int, NEW days \in SUBSET B!AllDays
  PROVE  /\ B!Moved(total, days) \in Scheduled
         /\ days # {} => B!Moved(total, days).days # {}
<1>1. (total \div 60) % 24 \in 0 .. 23
  OBVIOUS
<1>2. PICK k \in Int : k = B!dayDelta(total)
  BY DEF B!dayDelta
<1>3. \A d \in B!AllDays : (d + k) % 7 \in B!AllDays
  BY DEF B!AllDays
<1>4. B!Moved(total, days) = [hour |-> (total \div 60) % 24, days |-> { (d + k) % 7 : d \in days }]
  BY <1>2 DEF B!Moved
<1>5. { (d + k) % 7 : d \in days } \in SUBSET B!AllDays
  BY <1>3
<1>6. days # {} => { (d + k) % 7 : d \in days } # {}
  OBVIOUS
<1> QED BY <1>1, <1>4, <1>5, <1>6 DEF Scheduled

\* Every day of the week is still every day, wherever it is.
LEMMA AllDaysStay ==
  ASSUME NEW total \in Int
  PROVE  B!Moved(total, B!AllDays).days = B!AllDays
<1>1. PICK k \in Int : k = B!dayDelta(total)
  BY DEF B!dayDelta
<1>2. ASSUME NEW d \in B!AllDays
      PROVE  \E e \in B!AllDays : d = (e + k) % 7
  <2>1. (d - k) % 7 \in B!AllDays /\ d = (((d - k) % 7) + k) % 7
    BY DEF B!AllDays
  <2> QED BY <2>1
<1>3. \A e \in B!AllDays : (e + k) % 7 \in B!AllDays
  BY DEF B!AllDays
<1> QED BY <1>1, <1>2, <1>3 DEF B!Moved

\* An hour and its days come back from UTC as they went, in zones of whole hours.
LEMMA BackAndForth ==
  ASSUME Offset \in Int, Offset % 60 = 0, NEW h \in 0 .. 23, NEW days \in SUBSET B!AllDays,
         NEW u, u = B!localScheduleToUtc(h, days)
  PROVE  B!utcScheduleToLocal(u.hour, u.days) = [hour |-> h, days |-> days]
<1>1. PICK o \in Int : Offset = 60 * o
  <2>1. Offset \div 60 \in Int /\ Offset = 60 * (Offset \div 60)
    OBVIOUS
  <2> QED BY <2>1
<1>2. PICK k \in Int : k = (h + o) \div 24
  OBVIOUS
<1>3. /\ (h * 60 + Offset) \div (24 * 60) = k
      /\ ((h * 60 + Offset) \div 60) % 24 = h + o - 24 * k
  BY <1>1, <1>2
<1>4. u.hour = h + o - 24 * k /\ u.days = { (d + k) % 7 : d \in days }
  BY <1>3 DEF B!localScheduleToUtc, B!Moved, B!dayDelta
<1>5. /\ (u.hour * 60 - Offset) \div (24 * 60) = -k
      /\ ((u.hour * 60 - Offset) \div 60) % 24 = h
  BY <1>1, <1>2, <1>4
<1>6. \A d \in 0 .. 6 : (((d + k) % 7) + (-k)) % 7 = d
  BY <1>2
<1>7. { (e + (-k)) % 7 : e \in { (d + k) % 7 : d \in days } } = days
  <2> DEFINE back == { (e + (-k)) % 7 : e \in { (d + k) % 7 : d \in days } }
  <2>1. \A d \in days : (((d + k) % 7) + (-k)) % 7 = d
    BY <1>6 DEF B!AllDays
  <2>2. ASSUME NEW d \in days
        PROVE  d \in back
    BY <2>1
  <2>3. ASSUME NEW x \in back
        PROVE  x \in days
    <3>1. PICK d \in days : x = (((d + k) % 7) + (-k)) % 7
      OBVIOUS
    <3> QED BY <2>1, <3>1
  <2> QED BY <2>2, <2>3
<1>8. { (e + (-k)) % 7 : e \in u.days } = days
  BY <1>4, <1>7
<1> QED BY <1>5, <1>8 DEF B!utcScheduleToLocal, B!Moved, B!dayDelta

\* A schedule, as it reads in local time, is one the reader chose.
WasChosen(hour, days) == B!utcScheduleToLocal(hour, days) \in chosen
EveryIfNone(days) == IF days = {} THEN B!AllDays ELSE days

ConnectionChosen == conn # None =>
  /\ conn \in [auto : BOOLEAN, hour : 0 .. 23, days : SUBSET B!AllDays]
  /\ conn.days # {} /\ WasChosen(conn.hour, conn.days)
CardChosen == seen # None =>
  /\ seen.auto \in BOOLEAN /\ seen.hour \in 0 .. 23 /\ seen.days \in SUBSET B!AllDays
  /\ WasChosen(seen.hour, seen.days)
CallChosen(c) ==
  /\ c.no \in Nat /\ c.no <= made /\ c.kind \in B!Kinds
  /\ c.kind = "autoSync" => c.arg \in BOOLEAN
  /\ c.kind = "link" => c.arg.remote \in Remotes /\ c.arg.account \in Accounts \cup {None}
  /\ c.kind = "schedule" => c.arg \in Scheduled /\ WasChosen(c.arg.hour, EveryIfNone(c.arg.days))
CardTypes == /\ links \in [Remotes -> Accounts \cup {None}]
             /\ asking \in {None, "remove", "clearHistory"} /\ made \in Nat

CardInv == ConnectionChosen /\ CardChosen /\ (\A c \in calls : CallChosen(c)) /\ CardTypes

\* A choice is sent as it is, or as UTC has it, and comes back as chosen.
LEMMA SentAsChosen ==
  ASSUME Offset \in Int, Offset % 60 = 0, NEW h \in 0 .. 23, NEW days \in SUBSET B!AllDays,
         NEW u, u = B!localScheduleToUtc(h, days),
         [hour |-> h, days |-> EveryIfNone(days)] \in chosen'
  PROVE  u \in Scheduled /\ WasChosen(u.hour, EveryIfNone(u.days))'
<1>1. h * 60 + Offset \in Int
  OBVIOUS
<1>2. u \in Scheduled /\ (days # {} => u.days # {})
  BY <1>1, MovedIsScheduled DEF B!localScheduleToUtc
<1>3. CASE days # {}
  BY <1>2, <1>3, BackAndForth DEF WasChosen, EveryIfNone
<1>4. CASE days = {}
  <2>1. u.days = {}
    BY <1>4 DEF B!localScheduleToUtc, B!Moved
  <2>2. B!utcScheduleToLocal(u.hour, u.days) = [hour |-> h, days |-> days]
    BY BackAndForth
  <2>3. B!utcScheduleToLocal(u.hour, B!AllDays).hour = h
    BY <2>2 DEF B!utcScheduleToLocal, B!Moved
  <2>4. u.hour * 60 - Offset \in Int
    <3>1. u.hour \in 0 .. 23
      BY <1>2 DEF Scheduled
    <3> QED BY <3>1
  <2>5. B!utcScheduleToLocal(u.hour, B!AllDays).days = B!AllDays
    BY <2>4, AllDaysStay DEF B!utcScheduleToLocal
  <2>6. B!utcScheduleToLocal(u.hour, B!AllDays) = [hour |-> h, days |-> B!AllDays]
    BY <2>3, <2>5 DEF B!utcScheduleToLocal, B!Moved
  <2> QED BY <1>2, <1>4, <2>1, <2>6 DEF WasChosen, EveryIfNone
<1> QED BY <1>3, <1>4

LEMMA CardCalls ==
  ASSUME CardInv, NEW kind \in B!Kinds, NEW arg, B!mutate(kind, arg), chosen \subseteq chosen',
         asking' \in {asking, None},
         kind = "autoSync" => arg \in BOOLEAN,
         kind = "link" => arg.remote \in Remotes /\ arg.account \in Accounts \cup {None},
         kind = "schedule" => arg \in Scheduled /\ WasChosen(arg.hour, EveryIfNone(arg.days))'
  PROVE  CardInv'
<1>1. /\ made' = made + 1 /\ UNCHANGED <<conn, links, seen>>
      /\ calls' = calls \cup {[no |-> made', kind |-> kind, arg |-> arg]}
  BY DEF B!mutate, B!server, B!cache
<1>2. ConnectionChosen' /\ CardChosen' /\ CardTypes'
  BY <1>1 DEF CardInv, ConnectionChosen, CardChosen, CardTypes, WasChosen, B!utcScheduleToLocal
<1>3. ASSUME NEW c \in calls PROVE CallChosen(c)'
  BY <1>1 DEF CardInv, CardTypes, CallChosen, WasChosen, B!utcScheduleToLocal
<1>4. PICK c : c = [no |-> made', kind |-> kind, arg |-> arg]
  OBVIOUS
<1>5. CallChosen(c)'
  BY <1>1, <1>4 DEF CardInv, CardTypes, CallChosen, WasChosen
<1> QED BY <1>1, <1>2, <1>3, <1>4, <1>5 DEF CardInv

\* A step that sends nothing and is of the page alone.
LEMMA CardAlone ==
  ASSUME CardInv, calls' \subseteq calls, UNCHANGED <<made, chosen>>,
         UNCHANGED <<conn, links>>, seen' = seen \/ seen' = B!Cached,
         asking' \in {asking, None, "remove", "clearHistory"}
  PROVE  CardInv'
<1>1. ConnectionChosen' /\ CardTypes'
  BY DEF CardInv, ConnectionChosen, CardTypes, WasChosen, B!utcScheduleToLocal
<1>2. CardChosen'
  <2>1. CASE seen' = seen
    BY <2>1 DEF CardInv, CardChosen, WasChosen, B!utcScheduleToLocal
  <2>2. CASE seen' = B!Cached
    BY <2>2 DEF CardInv, ConnectionChosen, CardChosen, WasChosen, B!utcScheduleToLocal, B!Cached
  <2> QED BY <2>1, <2>2
<1>3. \A c \in calls' : CallChosen(c)'
  BY DEF CardInv, CallChosen, WasChosen, B!utcScheduleToLocal
<1> QED BY <1>1, <1>2, <1>3 DEF CardInv

LEMMA CardPressed ==
  ASSUME B!ScreenConstants, CardInv, B!ConnectionCard \/ B!RegisterBankRow
  PROVE  CardInv'
<1>1. seen # None /\ asking = None
  BY DEF B!ConnectionCard, B!RegisterBankRow
<1>2. CASE B!Header \/ B!RegisterBankRow \/ B!History
  <2>1. ASSUME NEW k \in {"reconnect", "sync", "rowSync"}, B!mutate(k, None), UNCHANGED <<asking, chosen>>
        PROVE  CardInv'
    BY <2>1, CardCalls DEF B!Kinds
  <2>2. ASSUME asking' \in {asking, "remove", "clearHistory"},
               UNCHANGED <<B!server, B!cache, calls, made, chosen>>
        PROVE  CardInv'
    BY <2>2, CardAlone DEF B!server, B!cache
  <2> QED BY <1>2, <2>1, <2>2 DEF B!Header, B!RegisterBankRow, B!History
<1>3. CASE B!LinkPicker
  <2>1. PICK r \in Remotes, a \in Accounts \cup {None} :
          B!mutate("link", [remote |-> r, account |-> a]) /\ UNCHANGED <<asking, chosen>>
    BY <1>3 DEF B!LinkPicker
  <2> QED BY <2>1, CardCalls DEF B!Kinds
<1>4. CASE B!AutoSync
  <2>1. /\ seen.auto \in BOOLEAN /\ seen.hour * 60 - Offset \in Int
        /\ seen.days \in SUBSET B!AllDays
    <3>1. seen.auto \in BOOLEAN /\ seen.hour \in 0 .. 23 /\ seen.days \in SUBSET B!AllDays
      BY <1>1 DEF CardInv, CardChosen
    <3> QED BY <3>1 DEF B!ScreenConstants
  <2>2. CASE B!mutate("autoSync", ~seen.auto) /\ UNCHANGED <<asking, chosen>>
    BY <2>1, <2>2, CardCalls DEF B!Kinds
  <2>3. B!localSchedule \in Scheduled
    BY <2>1, MovedIsScheduled DEF B!localSchedule, B!utcScheduleToLocal
  <2>4. ASSUME NEW h \in 0 .. 23, NEW days \in SUBSET B!AllDays, B!SendSchedule(h, days)
        PROVE  CardInv'
    <3>1. PICK u : u = B!localScheduleToUtc(h, days)
      OBVIOUS
    <3>2. /\ B!mutate("schedule", u) /\ UNCHANGED asking
          /\ chosen' = chosen \cup {[hour |-> h, days |-> EveryIfNone(days)]}
      BY <2>4, <3>1 DEF B!SendSchedule, EveryIfNone
    <3>3. u \in Scheduled /\ WasChosen(u.hour, EveryIfNone(u.days))'
      BY <3>1, <3>2, SentAsChosen DEF B!ScreenConstants
    <3> QED BY <3>2, <3>3, CardCalls DEF B!Kinds
  <2>5. CASE \E h \in Hours : B!SendSchedule(h, B!localSchedule.days)
    BY <2>3, <2>4, <2>5 DEF B!ScreenConstants, Scheduled
  <2>6. CASE \E d \in Days : B!SendSchedule(B!localSchedule.hour,
               IF d \in B!localSchedule.days THEN B!localSchedule.days \ {d} ELSE B!localSchedule.days \cup {d})
    <3>1. PICK days : /\ B!SendSchedule(B!localSchedule.hour, days)
                      /\ \E d \in Days : days \subseteq B!localSchedule.days \cup {d}
      <4>1. PICK d \in Days : B!SendSchedule(B!localSchedule.hour,
               IF d \in B!localSchedule.days THEN B!localSchedule.days \ {d} ELSE B!localSchedule.days \cup {d})
        BY <2>6
      <4>2. (IF d \in B!localSchedule.days THEN B!localSchedule.days \ {d} ELSE B!localSchedule.days \cup {d})
              \subseteq B!localSchedule.days \cup {d}
        OBVIOUS
      <4> QED BY <4>1, <4>2
    <3>2. B!localSchedule.hour \in 0 .. 23 /\ days \in SUBSET B!AllDays
      BY <2>3, <3>1 DEF B!ScreenConstants, Scheduled
    <3> QED BY <2>4, <3>1, <3>2
  <2> QED BY <1>4, <2>2, <2>5, <2>6 DEF B!AutoSync
<1> QED BY <1>2, <1>3, <1>4 DEF B!ConnectionCard

\* The server does what a call asks, and the schedule it keeps is still one chosen.
LEMMA CardServed ==
  ASSUME CardInv, conn # None, NEW c \in calls, calls' \subseteq calls, B!Served(c), UNCHANGED B!others
  PROVE  CardInv'
<1>1. CallChosen(c) /\ UNCHANGED <<made, chosen, seen, asking>>
  BY DEF CardInv, B!others
<1>2. (\A d \in calls' : CallChosen(d)') /\ CardChosen'
  BY <1>1 DEF CardInv, CallChosen, CardChosen, WasChosen, B!utcScheduleToLocal
<1>3. CASE UNCHANGED <<conn, links>>
  BY <1>1, <1>3, CardAlone
<1>4. ASSUME ConnectionChosen', links' \in [Remotes -> Accounts \cup {None}]
      PROVE  CardInv'
  BY <1>1, <1>2, <1>4 DEF CardInv, CardTypes
<1>5. CASE c.kind = "remove" /\ B!RemoveConnection
  BY <1>4, <1>5 DEF B!RemoveConnection, ConnectionChosen
<1>6. CASE c.kind = "autoSync" /\ B!SetAutoSync(c.arg)
  <2>1. ConnectionChosen'
    BY <1>1, <1>6 DEF B!SetAutoSync, CallChosen, CardInv, ConnectionChosen, WasChosen, B!utcScheduleToLocal
  <2> QED BY <1>4, <1>6, <2>1 DEF B!SetAutoSync, CardInv, CardTypes
<1>7. CASE c.kind = "schedule" /\ B!SetSchedule(c.arg)
  <2>1. /\ conn' = [conn EXCEPT !.hour = c.arg.hour, !.days = EveryIfNone(c.arg.days)]
        /\ c.arg.hour \in 0 .. 23 /\ EveryIfNone(c.arg.days) \in SUBSET B!AllDays
        /\ EveryIfNone(c.arg.days) # {} /\ WasChosen(c.arg.hour, EveryIfNone(c.arg.days))
    BY <1>1, <1>7 DEF B!SetSchedule, CallChosen, EveryIfNone, Scheduled, B!AllDays
  <2>2. ConnectionChosen'
    BY <1>1, <2>1 DEF CardInv, ConnectionChosen, WasChosen, B!utcScheduleToLocal
  <2> QED BY <1>4, <1>7, <2>2 DEF B!SetSchedule, CardInv, CardTypes
<1>8. CASE c.kind = "link" /\ B!Link(c.arg)
  BY <1>1, <1>4, <1>8 DEF B!Link, CallChosen, CardInv, CardTypes, ConnectionChosen, WasChosen,
                          B!utcScheduleToLocal
<1> QED BY <1>3, <1>5, <1>6, <1>7, <1>8 DEF B!Served, B!Sync, B!ClearHistory, B!server

LEMMA ConnectionCardStep ==
  ASSUME B!ScreenConstants, CardInv, [B!Next]_(B!cardVars)
  PROVE  CardInv'
<1>1. CASE B!Focused \/ UNCHANGED B!cardVars
  BY <1>1, CardAlone DEF B!Focused, B!cardVars, B!server
<1>2. ASSUME NEW yes \in BOOLEAN, B!Confirmed(yes)
      PROVE  CardInv'
  <2>1. CASE yes
    <3>1. asking \in B!Kinds /\ asking' = None /\ B!mutate(asking, None) /\ UNCHANGED chosen
      BY <1>2, <2>1 DEF B!Confirmed, CardInv, CardTypes, B!Kinds
    <3>2. asking # "autoSync" /\ asking # "link" /\ asking # "schedule"
      BY <1>2 DEF B!Confirmed, CardInv, CardTypes
    <3> QED BY <3>1, <3>2, CardCalls
  <2>2. CASE ~yes
    BY <1>2, <2>2, CardAlone DEF B!Confirmed, B!server, B!cache
  <2> QED BY <2>1, <2>2
<1>3. ASSUME NEW c \in calls, B!Succeed(c) \/ B!Fail(c)
      PROVE  CardInv'
  <2>1. calls' \subseteq calls /\ UNCHANGED B!others
    BY <1>3 DEF B!Succeed, B!Fail
  <2>2. CASE UNCHANGED B!server
    BY <2>1, <2>2, CardAlone DEF B!others, B!server
  <2> QED BY <1>3, <2>1, <2>2, CardServed DEF B!Succeed, B!Fail
<1>4. ASSUME NEW q \in stale, B!Refetch(q)
      PROVE  CardInv'
  BY <1>4, CardAlone DEF B!Refetch, B!server
<1> QED BY <1>1, <1>2, <1>3, <1>4, CardPressed DEF B!Next

\* schedule.ts, BankSyncPage.tsx: in zones of whole hours the schedule the card shows is one its
\* reader chose, hour and days together, however often it went to UTC and back and whichever
\* calls were lost, refused or served in another order.
THEOREM SchedulesAreShownAsChosen ==
  ASSUME B!ScreenConstants
  PROVE  B!Spec => [](B!TypeOK /\ B!ShownWasChosen)
<1>1. B!Init => CardInv
  <2> SUFFICES ASSUME B!Init PROVE CardInv
    OBVIOUS
  <2>1. conn = [auto |-> TRUE, hour |-> 3, days |-> B!AllDays] /\ WasChosen(3, B!AllDays)
    BY DEF B!Init, WasChosen
  <2>2. ConnectionChosen
    BY <2>1 DEF ConnectionChosen, B!AllDays
  <2>3. seen = B!Cached
    BY DEF B!Init
  <2>4. CardChosen
    BY <2>2, <2>3 DEF ConnectionChosen, CardChosen, B!Cached
  <2> QED BY <2>2, <2>4 DEF B!Init, CardInv, CardTypes
<1>2. CardInv /\ [B!Next]_(B!cardVars) => CardInv'
  BY ConnectionCardStep
<1>3. CardInv => B!TypeOK /\ B!ShownWasChosen
  BY DEF CardInv, ConnectionChosen, CardChosen, CardTypes, CallChosen, WasChosen,
         B!TypeOK, B!ShownWasChosen, B!localSchedule
<1> QED BY <1>1, <1>2, <1>3, PTL DEF B!Spec

(***************************************************************************)
(* Budget: the promise of BudgetSheet.tsx, where nothing is opened before   *)
(* what it shows has come (~Early), for any categories, plans and lengths   *)
(* of year: a plan the sheet said it saved, in one call or in two, is the   *)
(* one in force in the year on the page.                                    *)
(***************************************************************************)
CONSTANTS Categories, Income, Parent, Movements, MONTHS, DAYS, Typed, FIVE, Early
VARIABLES plans, every, thisYear, lines, period, sheetTarget, link, call

D == INSTANCE Budget WITH target <- sheetTarget

Plans == [0 .. MONTHS -> Int]
ShownPlans == [mode: {"same", "monthly"}, same: Int, monthly: [D!Months -> Int]]
AreShown(copy) == DOMAIN copy \subseteq Categories /\ \A c \in DOMAIN copy : copy[c] \in ShownPlans
SheetForms == [cat: Categories \cup {None}, mode: {"same", "monthly"}, same: Int, monthly: [D!Months -> Int],
               scope: {"every", "year"}]
SheetTargets == [cat: Categories \cup {None}, amount: Int, ai: BOOLEAN]

BudgetTyped ==
  /\ plans \in [Categories -> [D!Years -> Plans]]
  /\ every # None => AreShown(every)
  /\ thisYear # None => AreShown(thisYear)
  /\ lines # None => \A l \in lines : l.id \in Categories
  /\ period.year \in D!Years \ {0}
  /\ opened \in BOOLEAN /\ sheetTarget \in SheetTargets /\ form \in SheetForms
  /\ call # None => call \in D!Calls /\ call.year # 0
  /\ rows \subseteq DOMAIN Proposed

\* The rows r say what the plan is, month by month.
Carries(r, c, months) == r \in Plans /\ \A m \in D!Months : D!OrElse(r[m], r[0]) = D!sign(c) * months[m]

\* What a save or a removal w wrote is there: a year's plan, or every year's with nothing
\* of the year's own before it.
Written(w) == IF w.scope = "year" THEN Carries(plans[w.cat][w.year], w.cat, w.months)
              ELSE Carries(plans[w.cat][0], w.cat, w.months) /\ plans[w.cat][w.year] = D!NoPlan

\* How far a write is: its first call to make, its second, or none.
Writing(w) ==
  \/ w.scope = "year" /\ w.left = <<w.year>> /\ Carries(w.rows, w.cat, w.months)
  \/ w.scope = "every" /\ w.left = <<0, w.year>> /\ Carries(w.rows, w.cat, w.months)
  \/ /\ w.scope = "every" /\ w.left = <<0>> /\ Carries(w.rows, w.cat, w.months)
     /\ plans[w.cat][w.year] = D!NoPlan
  \/ /\ w.scope = "every" /\ w.left = <<w.year>> /\ w.rows = D!NoPlan
     /\ Carries(plans[w.cat][0], w.cat, w.months)
  \/ w.left = <<>> /\ Written(w)

\* The page's copy of the year is of the categories that have a plan in it, until the last
\* call of a write is made; behind an open sheet it is there and to stay.
YearIsFresh ==
  thisYear # None /\ "year" \notin stale /\ (call = None \/ call.left # <<>>) =>
    DOMAIN thisYear = {c \in Categories : plans[c][period.year] # D!NoPlan}
BehindTheSheet ==
  /\ opened => thisYear # None /\ "year" \notin stale
  /\ opened => call = None \/ call.kind = "save"

BudgetInv ==
  /\ BudgetTyped /\ YearIsFresh /\ BehindTheSheet
  /\ call # None => Writing(call)
  /\ kept # None => /\ call = None
                    /\ kept \in [cat: Categories, scope: {"every", "year"}, year: D!Years \ {0}, months: [D!Months -> Int]]
                    /\ Written(kept)

BudgetAssumptions == D!BudgetConstants /\ ~Early

LEMMA NoPlanIsAPlan ==
  ASSUME MONTHS \in Nat
  PROVE  D!NoPlan \in Plans /\ \A m \in D!Months : m \in 0 .. MONTHS /\ D!NoPlan[m] = 0 /\ D!NoPlan[0] = 0
BY DEF D!NoPlan, Plans, D!Months

\* The year is read: what is listed of it are its plans.
LEMMA ListShows ==
  ASSUME MONTHS \in Nat, NEW ps \in [Categories -> [D!Years -> Plans]], NEW y \in D!Years
  PROVE  /\ AreShown(D!List(ps, y))
         /\ DOMAIN D!List(ps, y) = {c \in Categories : ps[c][y] # D!NoPlan}
<1>1. \A c \in Categories : ps[c][y] \in Plans
  OBVIOUS
<1>2. D!Months \subseteq 0 .. MONTHS
  BY DEF D!Months
<1> QED BY <1>1, <1>2 DEF D!List, AreShown, ShownPlans, Plans

LEMMA SheetIsSeeded ==
  ASSUME BudgetTyped, NEW t \in SheetTargets
  PROVE  D!Seeded(t) \in SheetForms
<1> DEFINE b == D!entryOf(t.cat)
<1>1. b = None \/ b \in ShownPlans
  BY DEF BudgetTyped, AreShown, D!entryOf, D!Entries
<1>2. b # None => D!Mag(b.same) \in Int /\ \A m \in D!Months : D!Mag(b.monthly[m]) \in Int
  BY <1>1 DEF ShownPlans, D!Mag
<1>3. t.amount \in Int /\ t.cat \in Categories \cup {None}
  BY DEF SheetTargets
<1> HIDE DEF b
<1>4. [m \in D!Months |-> IF b = None THEN 0 ELSE D!Mag(b.monthly[m])] \in [D!Months -> Int]
  BY <1>2
<1>5. (IF (t.ai /\ t.amount # 0) \/ b = None THEN "same" ELSE b.mode) \in {"same", "monthly"}
  BY <1>1 DEF ShownPlans
<1>6. (CASE (t.ai /\ t.amount # 0) \/ (b = None /\ t.amount # 0) -> t.amount [] b # None -> D!Mag(b.same) [] OTHER -> 0) \in Int
  BY <1>2, <1>3
<1> QED BY <1>3, <1>4, <1>5, <1>6 DEF D!Seeded, SheetForms, b

\* The rows of a form carry its plan.
LEMMA RowsCarry ==
  ASSUME MONTHS \in Nat, NEW f \in SheetForms, f.cat \in Categories
  PROVE  /\ [m \in D!Months |-> D!planFor(f, m)] \in [D!Months -> Int]
         /\ D!Rows(f) \in Plans
         /\ Carries(D!Rows(f), f.cat, [m \in D!Months |-> D!planFor(f, m)])
<1>1. f.same \in Int /\ f.monthly \in [D!Months -> Int] /\ D!sign(f.cat) \in {1, -1}
  BY DEF SheetForms, D!sign
<1>2. [m \in D!Months |-> D!planFor(f, m)] \in [D!Months -> Int]
  BY <1>1 DEF D!planFor
<1>3. 0 \in 0 .. MONTHS /\ D!Months = (0 .. MONTHS) \ {0}
  BY DEF D!Months
<1>4. \A x \in Int : D!sign(f.cat) * x \in Int
  BY <1>1
<1>5. D!Rows(f) \in Plans
  <2> DEFINE amount(m) == D!sign(f.cat) * (IF m = 0 THEN f.same ELSE f.monthly[m])
             given(m) == (m = 0) = (f.mode = "same")
  <2>1. \A m \in 0 .. MONTHS : amount(m) \in Int
    BY <1>1, <1>3, <1>4
  <2>2. D!Rows(f) = [m \in 0 .. MONTHS |-> IF given(m) THEN amount(m) ELSE 0]
    BY DEF D!Rows
  <2> HIDE DEF amount, given
  <2> QED BY <2>1, <2>2 DEF Plans
<1>6. ASSUME NEW m \in D!Months
      PROVE  D!OrElse(D!Rows(f)[m], D!Rows(f)[0]) = D!sign(f.cat) * D!planFor(f, m)
  <2>1. m # 0 /\ m \in 0 .. MONTHS
    BY <1>3
  <2>2. CASE f.mode = "same"
    <3>1. D!Rows(f)[m] = 0 /\ D!Rows(f)[0] = D!sign(f.cat) * f.same
      BY <1>3, <2>1, <2>2 DEF D!Rows
    <3> QED BY <2>2, <3>1 DEF D!OrElse, D!planFor
  <2>3. CASE f.mode # "same"
    <3>1. D!Rows(f)[m] = D!sign(f.cat) * f.monthly[m] /\ D!Rows(f)[0] = 0
      BY <1>3, <2>1, <2>3 DEF D!Rows
    <3> QED BY <2>3, <3>1 DEF D!OrElse, D!planFor
  <2> QED BY <2>2, <2>3
<1> QED BY <1>2, <1>5, <1>6 DEF Carries

LEMMA BudgetStarts ==
  ASSUME BudgetAssumptions, D!Init
  PROVE  BudgetInv
<1>1. MONTHS \in Nat /\ \A rs \in AtFirst : \A x \in rs : x.amount \in Int
  BY DEF BudgetAssumptions, D!BudgetConstants
<1>2. PICK rs \in AtFirst : plans = [c \in Categories |-> [y \in D!Years |-> [m \in 0 .. MONTHS |->
         D!Amounts({x \in rs : x.cat = c /\ x.year = y /\ x.month = m})]]]
  BY DEF D!Init
<1>3. \A q \in SUBSET rs : D!Amounts(q) \in Int
  BY <1>1 DEF D!Amounts
<1>4. plans \in [Categories -> [D!Years -> Plans]]
  BY <1>2, <1>3 DEF Plans
<1>5. period.year \in D!Years \ {0}
  BY DEF D!Init, D!periodAt, D!periodOf, BudgetAssumptions, D!BudgetConstants
<1>6. D!NoTarget \in SheetTargets /\ D!Blank \in SheetForms
  BY DEF D!NoTarget, SheetTargets, D!Blank, SheetForms
<1> QED BY <1>4, <1>5, <1>6 DEF D!Init, BudgetInv, BudgetTyped, YearIsFresh, BehindTheSheet

\* Another form, behind an open sheet.
LEMMA TypingKeepsTheForm ==
  ASSUME BudgetAssumptions, BudgetInv, D!BudgetSheet
  PROVE  form' \in SheetForms
<1>1. form \in SheetForms /\ MONTHS \in Nat /\ Typed \subseteq Int
  BY DEF BudgetInv, BudgetTyped, BudgetAssumptions, D!BudgetConstants
<1>2. CASE \E c \in D!choices : form' = [form EXCEPT !.cat = c]
  BY <1>1, <1>2 DEF D!choices, SheetForms
<1>3. CASE \E next \in {"same", "monthly"} \ {form.mode} : form' = D!switchMode(next)
  <2>1. PICK next \in {"same", "monthly"} : form' = D!switchMode(next)
    BY <1>3
  <2> DEFINE first == {m \in D!Months : form.monthly[m] # 0 /\ \A n \in 1 .. m - 1 : form.monthly[n] = 0}
             found == IF first = {} THEN 0 ELSE form.monthly[CHOOSE m \in first : TRUE]
  <2>2. found \in Int
    <3>1. first # {} => (CHOOSE m \in first : TRUE) \in D!Months
      OBVIOUS
    <3> QED BY <1>1, <3>1 DEF SheetForms
  <2>3. form' = [form EXCEPT !.mode = next,
                             !.monthly = IF next = "monthly" THEN [m \in D!Months |-> form.same] ELSE @,
                             !.same = IF next = "same" THEN found ELSE @]
    BY <2>1 DEF D!switchMode
  <2> HIDE DEF found
  <2> QED BY <1>1, <2>2, <2>3 DEF SheetForms
<1>4. CASE \E a \in Typed : form' = [form EXCEPT !.same = a]
  BY <1>1, <1>4 DEF SheetForms
<1>5. CASE \E m \in D!Months, a \in Typed : form' = [form EXCEPT !.monthly[m] = a]
  BY <1>1, <1>5 DEF SheetForms
<1>6. CASE \E s \in {"every", "year"} \ {form.scope} : form' = [form EXCEPT !.scope = s]
  BY <1>1, <1>6 DEF SheetForms
<1>7. CASE /\ D!historyStats(form.cat).suggestion \in Nat \ {0}
           /\ form' = [form EXCEPT !.mode = "same", !.same = D!historyStats(form.cat).suggestion]
  <2> DEFINE a == D!historyStats(form.cat).suggestion
  <2>1. a \in Nat /\ form' = [form EXCEPT !.mode = "same", !.same = a]
    BY <1>7
  <2> DEFINE g == [form EXCEPT !.mode = "same"]
  <2>2. g \in SheetForms /\ form' = [g EXCEPT !.same = a]
    BY <1>1, <2>1 DEF SheetForms
  <2> HIDE DEF a, g
  <2> QED BY <2>1, <2>2 DEF SheetForms
<1> QED BY <1>2, <1>3, <1>4, <1>5, <1>6, <1>7 DEF D!BudgetSheet

\* Opening the sheet writes nothing; it opens when what it shows has come.
LEMMA OpeningKeeps ==
  ASSUME BudgetAssumptions, BudgetInv, NEW t \in SheetTargets, D!open(t)
  PROVE  BudgetInv'
<1>1. call = None /\ thisYear # None /\ stale = {}
  BY DEF D!open, D!Loaded, BudgetAssumptions
<1>2. form' \in SheetForms /\ sheetTarget' \in SheetTargets /\ opened' \in BOOLEAN
  BY SheetIsSeeded DEF D!open, BudgetInv, BudgetTyped
<1>3. UNCHANGED <<plans, every, thisYear, lines, stale, period, rows, call, kept>>
  BY DEF D!open, D!copies
<1>4. BudgetTyped'
  BY <1>2, <1>3 DEF BudgetInv, BudgetTyped
<1>5. YearIsFresh' /\ BehindTheSheet'
  BY <1>1, <1>3 DEF BudgetInv, YearIsFresh, BehindTheSheet
<1> QED BY <1>3, <1>4, <1>5 DEF BudgetInv, Writing, Written

\* A write begins: what it will write says the plan, and what it leaves alone does not
\* hide it.
LEMMA WritesAreSound ==
  ASSUME BudgetAssumptions, BudgetInv, thisYear # None, "year" \notin stale, call = None,
         NEW c \in Categories
  PROVE  D!ofYear(c) <=> plans[c][period.year] # D!NoPlan
<1>1. DOMAIN thisYear = {x \in Categories : plans[x][period.year] # D!NoPlan}
  BY DEF BudgetInv, YearIsFresh
<1> QED BY <1>1 DEF D!ofYear, D!Entries

LEMMA SavingKeeps ==
  ASSUME BudgetAssumptions, BudgetInv, D!save
  PROVE  BudgetInv'
<1> DEFINE ms == [m \in D!Months |-> D!planFor(form, m)]
           left == D!Writes(form, period.year)
<1>0. MONTHS \in Nat
  BY DEF BudgetAssumptions, D!BudgetConstants
<1>1. /\ opened /\ form \in SheetForms /\ form.cat \in Categories /\ call = None /\ kept' = None
      /\ call' = [kind |-> "save", cat |-> form.cat, scope |-> form.scope, year |-> period.year,
                  left |-> left, rows |-> D!Rows(form), months |-> ms]
      /\ UNCHANGED <<plans, every, thisYear, lines, stale, period, opened, sheetTarget, form, rows>>
  BY DEF D!save, D!mutate, D!copies, D!sheet, BudgetInv, BudgetTyped, SheetForms
<1>2. thisYear # None /\ "year" \notin stale
  BY <1>1 DEF BudgetInv, BehindTheSheet
<1>3. period.year \in D!Years \ {0} /\ form.scope \in {"every", "year"}
  BY <1>1 DEF BudgetInv, BudgetTyped, SheetForms
<1>4. Carries(D!Rows(form), form.cat, ms) /\ ms \in [D!Months -> Int] /\ D!Rows(form) \in Plans
  BY <1>0, <1>1, RowsCarry
<1>5. D!ofYear(form.cat) <=> plans[form.cat][period.year] # D!NoPlan
  BY <1>1, <1>2, WritesAreSound
<1>6. left = IF form.scope = "year" THEN <<period.year>> ELSE IF D!ofYear(form.cat) THEN <<0, period.year>> ELSE <<0>>
  BY DEF D!Writes
<1>7. left \in UNION {{<<>>, <<0>>, <<y>>, <<0, y>>} : y \in D!Years} /\ left # <<>>
  BY <1>3, <1>6
<1> HIDE DEF left, ms
<1>8. call' \in D!Calls /\ call'.year # 0 /\ call'.kind = "save"
  BY <1>1, <1>3, <1>4, <1>7 DEF D!Calls, Plans
<1>9. Writing(call)'
  BY <1>1, <1>3, <1>4, <1>5, <1>6 DEF Writing
<1>10. BudgetTyped'
  BY <1>1, <1>8 DEF BudgetInv, BudgetTyped
<1>11. YearIsFresh' /\ BehindTheSheet'
  BY <1>1, <1>8 DEF BudgetInv, YearIsFresh, BehindTheSheet
<1> QED BY <1>1, <1>9, <1>10, <1>11 DEF BudgetInv

LEMMA RemovingKeeps ==
  ASSUME BudgetAssumptions, BudgetInv, D!removeBudget
  PROVE  BudgetInv'
<1> DEFINE ms == [m \in D!Months |-> 0]
<1>0. MONTHS \in Nat
  BY DEF BudgetAssumptions, D!BudgetConstants
<1>1. PICK c \in (IF opened THEN {form.cat} \ {None} ELSE IF lines = None THEN {} ELSE {l.id : l \in {x \in lines : x.budgeted}}) :
      /\ D!Loaded /\ opened' = FALSE /\ call = None /\ kept' = None
      /\ call' = [kind |-> "remove", cat |-> c, scope |-> "every", year |-> period.year,
                  left |-> IF D!ofYear(c) THEN <<0, period.year>> ELSE <<0>>, rows |-> D!NoPlan, months |-> ms]
      /\ UNCHANGED <<plans, every, thisYear, lines, stale, period, sheetTarget, form, rows>>
  BY DEF D!removeBudget, D!mutate, D!copies, BudgetAssumptions
<1> DEFINE left == IF D!ofYear(c) THEN <<0, period.year>> ELSE <<0>>
<1>2. c \in Categories
  BY <1>1 DEF BudgetInv, BudgetTyped, SheetForms
<1>3. period.year \in D!Years \ {0} /\ thisYear # None /\ "year" \notin stale
  BY <1>1 DEF BudgetInv, BudgetTyped, D!Loaded
<1>4. D!ofYear(c) <=> plans[c][period.year] # D!NoPlan
  BY <1>1, <1>2, <1>3, WritesAreSound
<1>5. Carries(D!NoPlan, c, ms) /\ D!NoPlan \in Plans
  <2>1. D!sign(c) * 0 = 0
    BY DEF D!sign
  <2> QED BY <1>0, <2>1, NoPlanIsAPlan DEF Carries, D!OrElse
<1>6. left \in UNION {{<<>>, <<0>>, <<y>>, <<0, y>>} : y \in D!Years} /\ left # <<>> /\ ms \in [D!Months -> Int]
  BY <1>3
<1>7. left = <<0, period.year>> \/ (left = <<0>> /\ plans[c][period.year] = D!NoPlan)
  BY <1>4
<1>8. call' = [kind |-> "remove", cat |-> c, scope |-> "every", year |-> period.year,
               left |-> left, rows |-> D!NoPlan, months |-> ms]
  BY <1>1
<1> HIDE DEF left, ms
<1>9. call' \in D!Calls /\ call'.year # 0
  BY <1>2, <1>3, <1>5, <1>6, <1>8 DEF D!Calls, Plans
<1>10. Writing(call)'
  BY <1>1, <1>3, <1>5, <1>7, <1>8 DEF Writing
<1>11. BudgetTyped'
  BY <1>1, <1>9 DEF BudgetInv, BudgetTyped
<1>12. YearIsFresh' /\ BehindTheSheet'
  BY <1>1, <1>9 DEF BudgetInv, YearIsFresh, BehindTheSheet
<1> QED BY <1>1, <1>10, <1>11, <1>12 DEF BudgetInv

\* One call of a write is served: the rows of one year are replaced.
LEMMA ServingKeeps ==
  ASSUME BudgetAssumptions, BudgetInv, D!Serve
  PROVE  BudgetInv'
<1> DEFINE y == D!Head(call.left)
<1>0. MONTHS \in Nat /\ None \notin D!Calls /\ D!NoPlan \in Plans
  BY NoPlanIsAPlan DEF BudgetAssumptions, D!BudgetConstants
<1>1. /\ call # None /\ call.left # <<>>
      /\ plans' = [plans EXCEPT ![call.cat][D!Head(call.left)] = call.rows]
      /\ call' = [call EXCEPT !.left = D!Tail(@), !.rows = D!NoPlan]
      /\ UNCHANGED <<every, thisYear, lines, stale, period, opened, sheetTarget, form, rows, kept>>
  BY DEF D!Serve, D!SetCategoryBudget, D!copies, D!sheet
<1>2. call \in D!Calls /\ call.year # 0 /\ Writing(call) /\ kept = None
  BY <1>1 DEF BudgetInv, BudgetTyped
<1>3. /\ call.cat \in Categories /\ call.year \in D!Years \ {0} /\ call.rows \in Plans
      /\ plans \in [Categories -> [D!Years -> Plans]] /\ period.year \in D!Years \ {0}
  BY <1>2 DEF D!Calls, Plans, BudgetInv, BudgetTyped
<1>4. ASSUME NEW z \in D!Years, call.left = <<z>> \/ \E w \in D!Years : call.left = <<z, w>>
      PROVE  /\ plans' = [plans EXCEPT ![call.cat][z] = call.rows]
             /\ plans'[call.cat][z] = call.rows
             /\ \A w \in D!Years : w # z => plans'[call.cat][w] = plans[call.cat][w]
             /\ plans' \in [Categories -> [D!Years -> Plans]]
  <2>1. D!Head(call.left) = z
    BY <1>4 DEF D!Head
  <2> QED BY <1>1, <1>3, <2>1
<1>5. 0 \in D!Years /\ call.year # 0
  BY <1>3 DEF D!Years
<1>6. call'.cat = call.cat /\ call'.scope = call.scope /\ call'.year = call.year /\ call'.months = call.months /\ call'.kind = call.kind
      /\ call'.rows = D!NoPlan /\ call'.left = D!Tail(call.left) /\ call'.kind = call.kind
  BY <1>1, <1>2 DEF D!Calls
<1>7. \/ call.left = <<call.year>> /\ call'.left = <<>>
      \/ call.left = <<0>> /\ call'.left = <<>>
      \/ call.left = <<0, call.year>> /\ call'.left = <<call.year>>
  <2>1. \/ call.left = <<call.year>> \/ call.left = <<0>> \/ call.left = <<0, call.year>>
    BY <1>1, <1>2 DEF Writing
  <2>2. \A z : D!Tail(<<z>>) = <<>>
    BY DEF D!Tail, D!Len, Tail, Len
  <2>3. \A z, w : D!Tail(<<z, w>>) = <<w>>
    BY DEF D!Tail, D!Len, Tail, Len
  <2> QED BY <1>6, <2>1, <2>2, <2>3
<1>8. call' \in D!Calls
  <2>1. call'.left \in UNION {{<<>>, <<0>>, <<w>>, <<0, w>>} : w \in D!Years}
    <3>1. call'.left \in {<<>>, <<call.year>>} /\ call.year \in D!Years
      BY <1>3, <1>7
    <3> QED BY <3>1
  <2> QED BY <1>0, <1>1, <1>2, <1>6, <2>1 DEF D!Calls, Plans
<1>9. call' # None
  BY <1>0, <1>8
<1>10. Writing(call)'
  <2>1. CASE call.left = <<call.year>> /\ call.scope = "year"
    <3>1. Carries(call.rows, call.cat, call.months)
      BY <1>2, <1>5, <2>1 DEF Writing
    <3>2. plans'[call.cat][call.year] = call.rows
      BY <1>3, <1>4, <2>1
    <3> QED BY <1>6, <1>7, <2>1, <3>1, <3>2, <1>5 DEF Writing, Written
  <2>2. CASE call.left = <<call.year>> /\ call.scope = "every"
    <3>1. call.rows = D!NoPlan /\ Carries(plans[call.cat][0], call.cat, call.months)
      BY <1>2, <1>5, <2>2 DEF Writing
    <3>2. plans'[call.cat][call.year] = call.rows /\ plans'[call.cat][0] = plans[call.cat][0]
      BY <1>3, <1>4, <1>5, <2>2
    <3>3. call'.left = <<>>
      BY <1>5, <1>7, <2>2
    <3> QED BY <1>6, <2>2, <3>1, <3>2, <3>3 DEF Writing, Written
  <2>3. CASE call.left = <<0>>
    <3>1. /\ Carries(call.rows, call.cat, call.months) /\ plans[call.cat][call.year] = D!NoPlan
          /\ call.scope = "every"
      BY <1>2, <1>5, <2>3 DEF Writing
    <3>2. plans'[call.cat][0] = call.rows /\ plans'[call.cat][call.year] = plans[call.cat][call.year]
      BY <1>3, <1>4, <1>5, <2>3
    <3>3. call'.left = <<>>
      BY <1>5, <1>7, <2>3
    <3> QED BY <1>6, <3>1, <3>2, <3>3 DEF Writing, Written
  <2>4. CASE call.left = <<0, call.year>>
    <3>1. Carries(call.rows, call.cat, call.months) /\ call.scope = "every"
      BY <1>2, <1>5, <2>4 DEF Writing
    <3>2. plans'[call.cat][0] = call.rows
      BY <1>3, <1>4, <1>5, <2>4
    <3>3. call'.left = <<call.year>>
      BY <1>5, <1>7, <2>4
    <3> QED BY <1>6, <3>1, <3>2, <3>3 DEF Writing
  <2>5. call.scope \in {"every", "year"}
    BY <1>2 DEF D!Calls
  <2> QED BY <1>7, <2>1, <2>2, <2>3, <2>4, <2>5
<1>11. plans' \in [Categories -> [D!Years -> Plans]]
  BY <1>3, <1>4, <1>5, <1>7
<1>12. YearIsFresh'
  <2>1. CASE call'.left = <<>>
    BY <1>9, <2>1 DEF YearIsFresh
  <2>2. CASE call.left = <<0, call.year>>
    <3>1. \A c \in Categories : plans'[c][period.year] = plans[c][period.year]
      BY <1>3, <1>4, <1>5, <2>2
    <3> QED BY <1>1, <3>1 DEF BudgetInv, YearIsFresh
  <2> QED BY <1>7, <2>1, <2>2
<1>13. BehindTheSheet'
  BY <1>1, <1>2, <1>6 DEF BudgetInv, BehindTheSheet
<1>14. BudgetTyped'
  BY <1>1, <1>3, <1>6, <1>8, <1>11 DEF BudgetInv, BudgetTyped
<1> QED BY <1>1, <1>2, <1>10, <1>12, <1>13, <1>14 DEF BudgetInv

\* A copy is read: the year's is again of what the server has.
LEMMA ReadingKeeps ==
  ASSUME BudgetAssumptions, BudgetInv, NEW what \in stale, D!Read(what)
  PROVE  BudgetInv'
<1>1. /\ stale' = stale \ {what}
      /\ every' = IF what = "every" THEN D!List(plans, 0) ELSE every
      /\ thisYear' = IF what = "year" THEN D!List(plans, period.year) ELSE thisYear
      /\ lines' = IF what = "lines" THEN D!Report(plans, period) ELSE lines
      /\ UNCHANGED <<plans, period, opened, sheetTarget, form, rows, call, kept>>
  BY DEF D!Read, D!sheet
<1>2. MONTHS \in Nat /\ plans \in [Categories -> [D!Years -> Plans]] /\ period.year \in D!Years /\ 0 \in D!Years
  BY DEF BudgetAssumptions, D!BudgetConstants, BudgetInv, BudgetTyped, D!Years
<1>3. AreShown(D!List(plans, 0)) /\ AreShown(D!List(plans, period.year))
  BY <1>2, ListShows
<1>4. \A l \in D!Report(plans, period) : l.id \in Categories
  <2> DEFINE cs == {x \in Categories : D!PlanIn(plans, x, period) # 0 \/ D!Actual(plans, x, period, FALSE) # 0}
             line(c) == [id |-> c, income |-> c \in Income, budgeted |-> D!PlanIn(plans, c, period) # 0,
                         plan |-> D!sign(c) * D!PlanIn(plans, c, period),
                         spent |-> D!sign(c) * (D!Actual(plans, c, period, FALSE) - D!Actual(plans, c, period, TRUE)),
                         coming |-> D!sign(c) * D!Actual(plans, c, period, TRUE)]
  <2>1. D!Report(plans, period) = {line(c) : c \in cs}
    BY DEF D!Report
  <2>2. \A c \in cs : line(c).id = c /\ c \in Categories
    OBVIOUS
  <2> HIDE DEF cs, line
  <2> QED BY <2>1, <2>2
<1>5. BudgetTyped'
  BY <1>1, <1>3, <1>4 DEF BudgetInv, BudgetTyped
<1>6. YearIsFresh'
  <2>1. DOMAIN D!List(plans, period.year) = {c \in Categories : plans[c][period.year] # D!NoPlan}
    BY <1>2, ListShows
  <2> QED BY <1>1, <2>1 DEF BudgetInv, YearIsFresh
<1>7. BehindTheSheet'
  BY <1>1 DEF BudgetInv, BehindTheSheet
<1> QED BY <1>1, <1>5, <1>6, <1>7 DEF BudgetInv, Writing, Written

\* Another period: the year's copy goes with its year.
LEMMA TurningKeeps ==
  ASSUME BudgetAssumptions, BudgetInv, D!PeriodBar
  PROVE  BudgetInv'
<1>1. /\ ~opened /\ period'.year \in D!Years \ {0} /\ lines' = None
      /\ \/ period'.year # period.year /\ thisYear' = None /\ stale' = stale \cup {"year", "lines"}
         \/ period'.year = period.year /\ thisYear' = thisYear /\ stale' = stale \cup {"lines"}
      /\ UNCHANGED <<plans, every, opened, sheetTarget, form, rows, call, kept>>
  BY DEF D!PeriodBar, D!sheet
<1>2. BudgetTyped'
  BY <1>1 DEF BudgetInv, BudgetTyped
<1>3. YearIsFresh' /\ BehindTheSheet'
  BY <1>1 DEF BudgetInv, YearIsFresh, BehindTheSheet
<1> QED BY <1>1, <1>2, <1>3 DEF BudgetInv, Writing, Written

LEMMA AnsweringKeeps ==
  ASSUME BudgetAssumptions, BudgetInv, D!Answer
  PROVE  BudgetInv'
<1>1. /\ call # None /\ call.left = <<>> /\ call' = None
      /\ kept' = [cat |-> call.cat, scope |-> call.scope, year |-> call.year, months |-> call.months]
      /\ stale' = {"every", "year", "lines"} /\ opened' = (opened /\ call.kind # "save")
      /\ rows' \subseteq rows
      /\ UNCHANGED <<plans, every, thisYear, lines, period, sheetTarget, form>>
  BY DEF D!Answer, D!saved
<1>2. call \in D!Calls /\ call.year # 0 /\ Writing(call)
  BY <1>1 DEF BudgetInv, BudgetTyped
<1>3. /\ kept' \in [cat: Categories, scope: {"every", "year"}, year: D!Years \ {0}, months: [D!Months -> Int]]
  BY <1>1, <1>2 DEF D!Calls
<1>4. Written(call)
  BY <1>1, <1>2 DEF Writing
<1>5. Written(kept)'
  BY <1>1, <1>4 DEF Written
<1>6. BudgetTyped'
  BY <1>1 DEF BudgetInv, BudgetTyped
<1>7. YearIsFresh' /\ BehindTheSheet'
  BY <1>1 DEF BudgetInv, YearIsFresh, BehindTheSheet
<1> QED BY <1>1, <1>3, <1>5, <1>6, <1>7 DEF BudgetInv

LEMMA BudgetSteps ==
  ASSUME BudgetAssumptions, BudgetInv, [D!Next]_(D!budgetVars)
  PROVE  BudgetInv'
<1> USE DEF BudgetInv
<1>0. D!NoTarget \in SheetTargets
  BY DEF D!NoTarget, SheetTargets
<1>1. CASE D!BudgetTable
  <2>1. CASE lines # None /\ \E l \in lines : D!open([D!NoTarget EXCEPT !.cat = l.id])
    <3>1. PICK l \in lines : D!open([D!NoTarget EXCEPT !.cat = l.id])
      BY <2>1
    <3>2. [D!NoTarget EXCEPT !.cat = l.id] \in SheetTargets
      BY <1>0, <2>1 DEF SheetTargets, BudgetTyped
    <3> QED BY <3>1, <3>2, OpeningKeeps
  <2>2. CASE D!open(D!NoTarget)
    BY <1>0, <2>2, OpeningKeeps
  <2> QED BY <1>1, <2>1, <2>2 DEF D!BudgetTable
<1>2. CASE D!BudgetEmpty
  <2>1. PICK s \in D!suggestions : D!open([cat |-> s.cat, amount |-> s.amount, ai |-> FALSE])
    BY <1>2 DEF D!BudgetEmpty
  <2> DEFINE past == D!Report(plans, D!lastYear)
  <2>a. PICK l \in D!viewOf(past).loose : s.cat = l.id /\ s.amount \in Nat
    BY DEF D!suggestions
  <2>b. l \in past
    BY <2>a DEF D!viewOf
  <2>c. l.id \in Categories
    <3>1. PICK c \in Categories :
            l = [id |-> c, income |-> c \in Income, budgeted |-> D!PlanIn(plans, c, D!lastYear) # 0,
                 plan |-> D!sign(c) * D!PlanIn(plans, c, D!lastYear),
                 spent |-> D!sign(c) * (D!Actual(plans, c, D!lastYear, FALSE) - D!Actual(plans, c, D!lastYear, TRUE)),
                 coming |-> D!sign(c) * D!Actual(plans, c, D!lastYear, TRUE)]
      BY <2>b, Zenon DEF D!Report
    <3> QED BY <3>1
  <2>2. s.cat \in Categories /\ s.amount \in Nat
    BY <2>a, <2>c
  <2>3. [cat |-> s.cat, amount |-> s.amount, ai |-> FALSE] \in SheetTargets
    BY <2>2 DEF SheetTargets
  <2> QED BY <2>1, <2>3, OpeningKeeps
<1>3. ASSUME NEW c \in rows, D!applyRow(c)
      PROVE  BudgetInv'
  <2>1. [cat |-> c, amount |-> Proposed[c], ai |-> TRUE] \in SheetTargets
    BY <1>3 DEF BudgetAssumptions, D!BudgetConstants, SheetTargets, BudgetTyped
  <2> QED BY <1>3, <2>1, OpeningKeeps DEF D!applyRow
<1>4. CASE D!BudgetProposal
  BY <1>3, <1>4 DEF D!BudgetProposal
<1>5. CASE UNCHANGED <<plans, every, thisYear, lines, stale, period, opened, sheetTarget, form, rows, call, kept>>
  BY <1>5 DEF BudgetTyped, YearIsFresh, BehindTheSheet, Writing, Written
<1>6. CASE D!FollowLink
  BY <1>3, <1>5, <1>6 DEF D!FollowLink, D!copies
<1>7. CASE D!closeSheet
  BY <1>7 DEF D!closeSheet, D!copies, BudgetTyped, YearIsFresh, BehindTheSheet, Writing, Written
<1>8. CASE D!BudgetSheet
  <2>1. form' \in SheetForms /\ UNCHANGED <<plans, every, thisYear, lines, stale, period, opened, sheetTarget, rows, call, kept>>
    BY <1>8, TypingKeepsTheForm DEF D!BudgetSheet, D!copies
  <2> QED BY <2>1 DEF BudgetTyped, YearIsFresh, BehindTheSheet, Writing, Written
<1>9. CASE D!Refuse
  <2>1. /\ call # None /\ call.left # <<>> /\ call' = None
        /\ UNCHANGED <<plans, every, thisYear, lines, stale, period, opened, sheetTarget, form, rows, kept>>
    BY <1>9 DEF D!Refuse, D!copies, D!sheet
  <2>2. kept' = None
    BY <2>1
  <2> QED BY <2>1, <2>2 DEF BudgetTyped, YearIsFresh, BehindTheSheet
<1>10. CASE \E what \in stale : D!Read(what)
  BY <1>10, ReadingKeeps
<1>11. CASE UNCHANGED D!budgetVars
  BY <1>5, <1>11 DEF D!budgetVars
<1> QED BY <1>1, <1>2, <1>4, <1>6, <1>7, <1>8, <1>9, <1>10, <1>11, TurningKeeps, SavingKeeps, RemovingKeeps,
           ServingKeeps, AnsweringKeeps DEF D!Next

\* The budget (BudgetSheet.tsx, budget/service.go), where nothing is opened before what it
\* shows has come: what every month of the year on the page is counted against is the plan
\* the sheet said it saved, whichever years it was for before and after, and nothing of a
\* plan that was removed; a month left empty in a plan of one year falls back on every
\* year's.
THEOREM WhatIsSavedIsInForce ==
  ASSUME D!BudgetConstants, ~Early
  PROVE  D!Spec => []D!SavedIsInForce
<1>0. BudgetAssumptions
  BY DEF BudgetAssumptions
<1>1. D!Init => BudgetInv
  BY <1>0, BudgetStarts
<1>2. BudgetInv /\ [D!Next]_(D!budgetVars) => BudgetInv'
  BY <1>0, BudgetSteps
<1>3. BudgetInv => D!SavedIsInForce
  <2> SUFFICES ASSUME BudgetInv, kept # None, NEW m \in D!Months
               PROVE  D!budgetForPeriodYear(plans[kept.cat], kept.year, m) =
                        IF kept.scope = "year" /\ kept.months[m] = 0 THEN D!OfYear(plans[kept.cat], 0, m)
                        ELSE D!sign(kept.cat) * kept.months[m]
    BY DEF D!SavedIsInForce
  <2> DEFINE p == plans[kept.cat]
             a == kept.months[m]
  <2>1. /\ kept.cat \in Categories /\ kept.scope \in {"every", "year"} /\ kept.year \in D!Years
        /\ a \in Int /\ Written(kept)
    BY DEF BudgetInv
  <2>2. D!sign(kept.cat) * a \in Int /\ (D!sign(kept.cat) * a = 0 <=> a = 0)
    BY <2>1 DEF D!sign
  <2>3. CASE kept.scope = "year"
    <3>1. D!OfYear(p, kept.year, m) = D!sign(kept.cat) * a
      BY <2>1, <2>3 DEF Written, Carries, D!OfYear
    <3> QED BY <2>2, <2>3, <3>1 DEF D!budgetForPeriodYear, D!OrElse
  <2>4. CASE kept.scope = "every"
    <3>1. D!OfYear(p, 0, m) = D!sign(kept.cat) * a /\ p[kept.year] = D!NoPlan
      BY <2>1, <2>4 DEF Written, Carries, D!OfYear
    <3>2. D!OfYear(p, kept.year, m) = 0
      BY <1>0, <3>1, NoPlanIsAPlan DEF BudgetAssumptions, D!BudgetConstants, D!OfYear, D!OrElse
    <3> QED BY <2>4, <3>1, <3>2 DEF D!budgetForPeriodYear, D!OrElse
  <2> QED BY <2>1, <2>3, <2>4
<1> QED BY <1>1, <1>2, <1>3, PTL DEF D!Spec

-----------------------------------------------------------------------------
(***************************************************************************)
(* SchedulesPage: where nothing is pressed over a copy that is being read   *)
(* again or behind an open sheet (~Overlap), for any schedules, any rows of *)
(* the AI's, any number of edits and calls, served or failed at any step.   *)
(***************************************************************************)
CONSTANTS Existing, Found, Raised, WeekStart
VARIABLES schedules, registered, loaded, url, occ, scheduleSheet, seed, walk, done

S == INSTANCE SchedulesPage WITH posted <- registered, sheet <- scheduleSheet

\* No template of a schedule says "reconciled": the sheet of an occurrence shows cleared.
Unreconciled == \A id \in DOMAIN Existing : Existing[id].kept \in {0, S!DEFAULT_STATUS}
Quiet(status) == Unreconciled => status \in {0, S!DEFAULT_STATUS}

AsListed(ss) == \A id \in DOMAIN ss : /\ ss[id].amount \in Int /\ Quiet(ss[id].kept)
                                      /\ id \in DOMAIN Existing => ss[id].kept = Existing[id].kept

IsForm(f) == f = [amount |-> f.amount, payee |-> f.payee, next |-> f.next, kept |-> f.kept] /\ f.amount \in Int

\* A press names the next occurrence of its schedule, and leaves out what the schedule says.
AsPressed(c) ==
  c.id \in DOMAIN schedules =>
    LET s == schedules[c.id]
    IN /\ c.arg.on = s.next
       /\ c.kind = "register" => c.arg.saw = [amount |-> S!Given(c.arg.body.amount, s.amount),
                                              date |-> S!Given(c.arg.body.date, s.next),
                                              status |-> S!Given(c.arg.body.status, S!DEFAULT_STATUS)]

\* What is asked of the server; a save is of the schedule whose sheet is open, if one is.
IsOrder(c) ==
  /\ c = [no |-> c.no, kind |-> c.kind, id |-> c.id, arg |-> c.arg, step |-> c.step]
  /\ c.kind \in {"register", "skip", "save", "delete"} /\ c.step \in {"sent", "template", "ok", "failed"}
  /\ c.step = "template" => c.kind = "save"
  /\ c.kind \in {"register", "skip"} /\ c.step = "sent" => AsPressed(c)
  /\ c.kind = "save" => /\ loaded /\ scheduleSheet \in {c.id, None} /\ c.arg.amount \in Int /\ Quiet(c.arg.kept)
                        /\ c.id \in DOMAIN schedules \cap DOMAIN Existing => c.arg.kept = Existing[c.id].kept
                        /\ c.step = "ok" /\ c.id # "new" => c.id \in saved
  /\ c.kind = "delete" => /\ c.step = "ok" => c.id \in saved
                          /\ c.step = "sent" => c.id \in DOMAIN schedules
                          /\ "delete" \notin Fails => c.step # "failed"
  /\ opened # None => c.kind = "delete" \/ (c.kind # "save" /\ c.arg.close)

\* The occurrence that is open is still the one the schedule is at.
Fits == /\ opened.id \in DOMAIN schedules => /\ schedules[opened.id].amount = opened.amount
                                             /\ opened.next => schedules[opened.id].next = opened.date
        /\ occ = [amount |-> occ.amount, date |-> occ.date, status |-> occ.status]
        /\ occ.amount \in Int /\ occ.date \in {opened.date, Today} /\ occ.status \in {S!DEFAULT_STATUS, 2}

SheetsAgree ==
  /\ rows \subseteq DOMAIN Raised /\ IsForm(fields) /\ applying \in (DOMAIN Raised \cup {None}) \cap {scheduleSheet, None}
  /\ scheduleSheet # None => loaded /\ opened = None
  /\ opened # None => Fits \/ \E c \in calls : c.step = "ok" /\ c.kind # "delete"

OneAtATime ==
  /\ \A c, d \in calls : c = d
  /\ calls # {} => ~stale
  /\ ~stale /\ (\A c \in calls : c.step # "ok") => seen.schedules = schedules

SchedulesInv ==
  /\ AsListed(schedules) /\ AsListed(seen.schedules)
  /\ SheetsAgree /\ OneAtATime
  /\ \A c \in calls : IsOrder(c)
  /\ Unreconciled => S!ActsOnWhatIsShown
  /\ "delete" \notin Fails => S!AppliedIsDone

SchedulesAssumptions == S!PageConstants /\ ~Overlap

LEMMA SchedulesStart ==
  ASSUME SchedulesAssumptions, S!Init
  PROVE  SchedulesInv
<1> USE DEF SchedulesAssumptions, S!PageConstants
<1>1. AsListed(Existing)
  BY DEF AsListed, Quiet, Unreconciled
<1>2. schedules = Existing /\ seen.schedules = Existing /\ calls = {} /\ done = {}
      /\ opened = None /\ scheduleSheet = None /\ applying = None /\ fields = S!Blank /\ rows = DOMAIN Raised
  BY DEF S!Init
<1>3. IsForm(S!Blank)
  BY DEF S!Blank, IsForm
<1>4. SheetsAgree /\ OneAtATime
  BY <1>2, <1>3 DEF SheetsAgree, OneAtATime
<1> QED BY <1>1, <1>2, <1>4 DEF SchedulesInv, S!ActsOnWhatIsShown, S!AppliedIsDone

\* A sheet is filled from the copy of its schedule, the raise found for it, or a payment found.
LEMMA FilledIsForm ==
  ASSUME SchedulesAssumptions, SchedulesInv, loaded, NEW id, id = "new" \/ id \in DOMAIN seen.schedules,
         NEW from, from # None => from.amount \in Int, NEW raised \in Int \cup {None}
  PROVE  IsForm(S!Filled(id, from, raised))
<1>1. CASE id = "new"
  BY <1>1 DEF S!Filled, S!Seeded, S!Blank, IsForm
<1>2. CASE id # "new"
  <2> DEFINE s == seen.schedules[id]
             a == S!Given(raised, s.amount)
  <2>1. a \in Int
    BY <1>2 DEF SchedulesInv, AsListed, S!Given
  <2>2. S!Filled(id, from, raised) = [amount |-> a, payee |-> s.payee, next |-> s.next, kept |-> s.kept]
    BY <1>2 DEF S!Filled
  <2> HIDE DEF s, a
  <2> QED BY <2>1, <2>2 DEF IsForm
<1> QED BY <1>1, <1>2

\* The sheet of a schedule opens, while nothing is on its way.
LEMMA ScheduleSheetOpens ==
  ASSUME SchedulesAssumptions, SchedulesInv, calls = {}, loaded, IsForm(fields)', opened' = None,
         applying' \in (DOMAIN Raised \cup {None}) \cap {scheduleSheet', None},
         UNCHANGED <<schedules, registered, done, saved, seen, stale, loaded, rows, calls>>
  PROVE  SchedulesInv'
<1>1. SheetsAgree'
  BY DEF SchedulesInv, SheetsAgree
<1>2. OneAtATime' /\ AsListed(schedules)' /\ AsListed(seen.schedules)'
  BY DEF SchedulesInv, OneAtATime, AsListed
<1> QED BY <1>1, <1>2 DEF SchedulesInv, S!ActsOnWhatIsShown, S!AppliedIsDone

LEMMA ScheduleOpens ==
  ASSUME SchedulesAssumptions, SchedulesInv, S!Edit,
         NEW id, id = "new" \/ id \in DOMAIN seen.schedules, NEW from, from # None => from.amount \in Int,
         NEW r \in DOMAIN Raised \cup {None}, r = None \/ r = id, S!openSchedule(id, from, r)
  PROVE  SchedulesInv'
<1>1. S!raisedOf(r) \in Int \cup {None}
  BY DEF S!raisedOf, SchedulesAssumptions, S!PageConstants
<1>2. /\ loaded /\ calls = {} /\ opened' = None /\ scheduleSheet' = id /\ applying' = r
      /\ fields' = fields \/ fields' = S!Filled(id, from, S!raisedOf(r))
      /\ UNCHANGED <<schedules, registered, done, saved, seen, stale, loaded, rows, calls>>
  BY DEF S!openSchedule, S!Edit, S!server, S!copy, SchedulesAssumptions
<1>3. IsForm(fields) /\ IsForm(S!Filled(id, from, S!raisedOf(r)))
  BY <1>1, <1>2, FilledIsForm DEF SchedulesInv, SheetsAgree
<1>4. IsForm(fields')
  BY <1>2, <1>3
<1>5. IsForm(fields)'
  BY <1>4 DEF IsForm
<1> QED BY <1>2, <1>5, ScheduleSheetOpens

LEMMA WalkBegins ==
  ASSUME SchedulesAssumptions, SchedulesInv, S!MissingPayeeBanner
  PROVE  SchedulesInv'
<1>1. PICK first \in DOMAIN seen.schedules : scheduleSheet' = first /\ fields' = S!Filled(first, None, None)
  BY DEF S!MissingPayeeBanner
<1>2. /\ loaded /\ calls = {} /\ opened' = None /\ applying' = None
      /\ UNCHANGED <<schedules, registered, done, saved, seen, stale, loaded, rows, calls>>
  BY DEF S!MissingPayeeBanner, S!Edit, S!server, S!copy, SchedulesAssumptions
<1>3. IsForm(S!Filled(first, None, None))
  BY <1>2, FilledIsForm
<1>4. IsForm(fields')
  BY <1>1, <1>3
<1>5. IsForm(fields)'
  BY <1>4 DEF IsForm
<1> QED BY <1>2, <1>5, ScheduleSheetOpens

\* What is listed and not yet registered is of its schedule.
LEMMA ListedIsOfItsSchedule ==
  ASSUME NEW data, NEW days, NEW o \in S!getScheduleCalendar(data, days), o.state # "registered"
  PROVE  /\ o.id \in DOMAIN data.schedules /\ o.amount = data.schedules[o.id].amount
         /\ o.next => o.date = data.schedules[o.id].next
<1>1. PICK id \in DOMAIN data.schedules : o \in S!Projected(data.schedules[id], id, days)
  <2> DEFINE there == {x \in data.posted : S!Registered(x, days)}
             entries == {[id |-> t.id, date |-> t.date, amount |-> t.amount, auto |-> FALSE, transfer |-> t.transfer,
                          status |-> t.status, state |-> "registered", next |-> FALSE] : t \in there}
             coming == UNION {S!Projected(data.schedules[id], id, days) : id \in DOMAIN data.schedules}
  <2>1. \A e \in entries : e.state = "registered"
    <3> HIDE DEF there
    <3> QED OBVIOUS
  <2>2. o \in coming \cup entries
    BY DEF S!getScheduleCalendar
  <2>3. o \in coming
    <3> HIDE DEF entries, coming
    <3> QED BY <2>1, <2>2
  <2> HIDE DEF entries
  <2> QED BY <2>3
<1> DEFINE s == data.schedules[id]
<1>2. PICK d : o = [id |-> id, date |-> d, amount |-> s.amount, auto |-> s.auto, transfer |-> s.transfer, status |-> 0,
                    state |-> IF d < Today THEN "overdue" ELSE "due", next |-> d = s.next]
  BY <1>1 DEF S!Projected
<1> HIDE DEF s
<1>3. o.id = id /\ o.amount = s.amount /\ (o.next => o.date = s.next)
  BY <1>2
<1> QED BY <1>1, <1>3 DEF s

LEMMA OccurrenceOpens ==
  ASSUME SchedulesAssumptions, SchedulesInv, S!CalendarView
  PROVE  SchedulesInv'
<1>1. PICK o \in S!shown \cup S!needsYou(S!nowOccurrences) \cup S!nextUp(S!nowOccurrences) : S!openOccurrence(o)
  BY DEF S!CalendarView
<1>2. \E days : o \in S!getScheduleCalendar(seen, days)
  BY DEF S!shown, S!needsYou, S!nextUp, S!nowOccurrences
<1>3. /\ scheduleSheet = None /\ calls = {} /\ ~stale /\ o.state # "registered" /\ opened' = o
      /\ \/ opened # None /\ opened.id = o.id /\ opened.date = o.date /\ occ' = occ
         \/ occ' = [amount |-> o.amount, date |-> o.date, status |-> S!DEFAULT_STATUS]
      /\ UNCHANGED <<schedules, registered, done, saved, seen, stale, loaded, rows, calls, scheduleSheet, fields, applying>>
  BY <1>1 DEF S!CalendarView, S!openOccurrence, S!Edit, S!server, S!copy, SchedulesAssumptions
<1>4. seen.schedules = schedules
  BY <1>3 DEF SchedulesInv, OneAtATime
<1>5. /\ o.id \in DOMAIN schedules /\ o.amount = schedules[o.id].amount
      /\ o.next => o.date = schedules[o.id].next
  BY <1>2, <1>3, <1>4, ListedIsOfItsSchedule
<1>6. o.amount \in Int
  BY <1>5 DEF SchedulesInv, AsListed
<1>7. Fits'
  <2>1. CASE opened # None /\ opened.id = o.id /\ opened.date = o.date /\ occ' = occ
    <3>1. Fits
      BY <1>3, <2>1 DEF SchedulesInv, SheetsAgree
    <3> QED BY <1>3, <1>5, <2>1, <3>1 DEF Fits
  <2>2. CASE occ' = [amount |-> o.amount, date |-> o.date, status |-> S!DEFAULT_STATUS]
    BY <1>3, <1>5, <1>6, <2>2 DEF Fits
  <2> QED BY <1>3, <2>1, <2>2
<1>8. IsForm(fields)' /\ SheetsAgree'
  BY <1>3, <1>7 DEF SchedulesInv, SheetsAgree, IsForm
<1>9. OneAtATime' /\ AsListed(schedules)' /\ AsListed(seen.schedules)'
  BY <1>3 DEF SchedulesInv, OneAtATime, AsListed
<1> QED BY <1>3, <1>8, <1>9 DEF SchedulesInv, S!ActsOnWhatIsShown, S!AppliedIsDone

\* A step that leaves the server, the copy and what is on its way, and whose sheets agree.
LEMMA SheetsAlone ==
  ASSUME SchedulesAssumptions, SchedulesInv, SheetsAgree', opened' \in {opened, None}, scheduleSheet' \in {scheduleSheet, None},
         loaded => loaded', UNCHANGED <<schedules, registered, done, saved, seen, stale, rows, calls>>
  PROVE  SchedulesInv'
<1>1. OneAtATime' /\ AsListed(schedules)' /\ AsListed(seen.schedules)'
  BY DEF SchedulesInv, OneAtATime, AsListed
<1>2. ASSUME NEW c \in calls
      PROVE  IsOrder(c)'
  <2>1. IsOrder(c)
    BY DEF SchedulesInv
  <2>2. AsPressed(c)' = AsPressed(c)
    BY DEF AsPressed
  <2> QED BY <2>1, <2>2 DEF IsOrder
<1> QED BY <1>1, <1>2 DEF SchedulesInv, S!ActsOnWhatIsShown, S!AppliedIsDone

\* A press: one more call, alone on its way, of what the server has.
LEMMA PressKeeps ==
  ASSUME SchedulesAssumptions, SchedulesInv, NEW kind \in {"register", "skip", "save", "delete"}, NEW id, NEW arg,
         S!mutate(kind, id, arg),
         UNCHANGED <<schedules, registered, done, saved, seen, stale, loaded, opened, occ, fields>>,
         rows' \subseteq rows, scheduleSheet' \in {scheduleSheet, None}, applying' \in {applying, None} \cap {scheduleSheet', None},
         "delete" \notin Fails => S!AppliedIsDone',
         \A c : c = [no |-> made', kind |-> kind, id |-> id, arg |-> arg, step |-> "sent"] => IsOrder(c)'
  PROVE  SchedulesInv'
<1>0. PICK c0 : c0 = [no |-> made', kind |-> kind, id |-> id, arg |-> arg, step |-> "sent"]
  OBVIOUS
<1>1. calls = {} /\ ~stale /\ calls' = {c0} /\ c0.step = "sent"
  BY <1>0 DEF S!mutate, SchedulesAssumptions
<1>2. \A c \in calls' : c = c0
  BY <1>1
<1>3. IsOrder(c0)'
  BY <1>0
<1>4. SheetsAgree'
  <2>1. opened' # None => Fits
    BY <1>1 DEF SchedulesInv, SheetsAgree
  <2>2. Fits <=> Fits'
    BY DEF Fits
  <2>3. IsForm(fields)'
    BY DEF SchedulesInv, SheetsAgree, IsForm
  <2> QED BY <2>1, <2>2, <2>3 DEF SchedulesInv, SheetsAgree
<1>5. OneAtATime' /\ AsListed(schedules)' /\ AsListed(seen.schedules)'
  BY <1>1 DEF SchedulesInv, OneAtATime, AsListed
<1>6. \A c \in calls' : IsOrder(c)'
  BY <1>1, <1>3
<1> QED BY <1>4, <1>5, <1>6 DEF SchedulesInv, S!ActsOnWhatIsShown

\* Nothing is done before its time by a press that leaves the AI's rows.
LEMMA DoneStaysDone ==
  ASSUME S!AppliedIsDone, UNCHANGED <<rows, saved>>, calls \subseteq calls'
  PROVE  S!AppliedIsDone'
BY DEF S!AppliedIsDone

LEMMA OccurrencePressed ==
  ASSUME SchedulesAssumptions, SchedulesInv, S!OccurrenceSheet
  PROVE  SchedulesInv'
<1>1. /\ opened # None /\ opened.next
      /\ UNCHANGED <<schedules, registered, done, saved, seen, stale, loaded, opened, occ, fields, scheduleSheet, applying, rows>>
  BY DEF S!OccurrenceSheet, S!canAct, S!server, S!copy, S!sheets
<1> DEFINE body == S!Differs(opened, occ)
           arg == [body |-> body, on |-> opened.date, saw |-> occ, close |-> TRUE]
           pass == [on |-> opened.date, close |-> TRUE]
<1>2. S!mutate("register", opened.id, arg) \/ S!mutate("skip", opened.id, pass)
  BY <1>1 DEF S!OccurrenceSheet
<1>3. calls = {} /\ calls \subseteq calls'
  BY <1>2 DEF S!mutate, SchedulesAssumptions
<1>4. Fits /\ scheduleSheet = None
  BY <1>1, <1>3 DEF SchedulesInv, SheetsAgree
<1>5. "delete" \notin Fails => S!AppliedIsDone'
  BY <1>1, <1>3, DoneStaysDone DEF SchedulesInv
<1>6. ASSUME opened.id \in DOMAIN schedules, NEW s, s = schedules[opened.id]
      PROVE  occ = [amount |-> S!Given(body.amount, s.amount), date |-> S!Given(body.date, s.next),
                    status |-> S!Given(body.status, S!DEFAULT_STATUS)]
  <2>1. s.amount = opened.amount /\ s.next = opened.date
    BY <1>1, <1>4, <1>6 DEF Fits
  <2>2. None \notin {occ.amount, occ.status, Today}
    BY <1>4 DEF Fits, SchedulesAssumptions, S!PageConstants, S!DEFAULT_STATUS
  <2>3. S!Given(body.amount, s.amount) = occ.amount
    BY <2>1, <2>2 DEF S!Differs, S!Given
  <2>4. S!Given(body.date, s.next) = occ.date
    BY <1>4, <2>1, <2>2 DEF S!Differs, S!Given, Fits
  <2>5. S!Given(body.status, S!DEFAULT_STATUS) = occ.status
    BY <2>2 DEF S!Differs, S!Given
  <2> HIDE DEF body
  <2> QED BY <1>4, <2>3, <2>4, <2>5 DEF Fits
<1> HIDE DEF body
<1>7. CASE S!mutate("register", opened.id, arg)
  <2>1. ASSUME NEW c, c = [no |-> made', kind |-> "register", id |-> opened.id, arg |-> arg, step |-> "sent"]
        PROVE  IsOrder(c)'
    <3>1. AsPressed(c)'
      BY <1>1, <1>4, <1>6, <2>1 DEF AsPressed, Fits
    <3> QED BY <2>1, <3>1 DEF IsOrder
  <2> QED BY <1>1, <1>4, <1>5, <1>7, <2>1, PressKeeps DEF SchedulesInv, SheetsAgree
<1>8. CASE S!mutate("skip", opened.id, pass)
  <2>1. ASSUME NEW c, c = [no |-> made', kind |-> "skip", id |-> opened.id, arg |-> pass, step |-> "sent"]
        PROVE  IsOrder(c)'
    <3>1. AsPressed(c)'
      BY <1>1, <1>4, <2>1 DEF AsPressed, Fits
    <3> QED BY <2>1, <3>1 DEF IsOrder
  <2> QED BY <1>1, <1>4, <1>5, <1>8, <2>1, PressKeeps DEF SchedulesInv, SheetsAgree
<1> QED BY <1>2, <1>7, <1>8

LEMMA NextOnePressed ==
  ASSUME SchedulesAssumptions, SchedulesInv, S!NeedsYou
  PROVE  SchedulesInv'
<1>1. /\ opened = None /\ scheduleSheet = None
      /\ UNCHANGED <<schedules, registered, done, saved, seen, stale, loaded, opened, occ, fields, scheduleSheet, applying, rows>>
  BY DEF S!NeedsYou, S!server, S!copy, S!sheets, SchedulesAssumptions
<1>2. PICK id \in DOMAIN seen.schedules :
        \/ S!mutate("register", id, [body |-> S!AsIs, on |-> seen.schedules[id].next, close |-> FALSE,
                                     saw |-> [amount |-> seen.schedules[id].amount, date |-> seen.schedules[id].next,
                                              status |-> S!DEFAULT_STATUS]])
        \/ S!mutate("skip", id, [on |-> seen.schedules[id].next, close |-> FALSE])
  BY DEF S!NeedsYou
<1> DEFINE s == seen.schedules[id]
           arg == [body |-> S!AsIs, on |-> s.next, close |-> FALSE,
                   saw |-> [amount |-> s.amount, date |-> s.next, status |-> S!DEFAULT_STATUS]]
           pass == [on |-> s.next, close |-> FALSE]
<1>3. calls = {} /\ ~stale /\ calls \subseteq calls'
  BY <1>2 DEF S!mutate, SchedulesAssumptions
<1>4. seen.schedules = schedules /\ s = schedules[id]
  BY <1>3 DEF SchedulesInv, OneAtATime
<1>5. "delete" \notin Fails => S!AppliedIsDone'
  BY <1>1, <1>3, DoneStaysDone DEF SchedulesInv
<1>6. S!Given(S!AsIs.amount, s.amount) = s.amount /\ S!Given(S!AsIs.date, s.next) = s.next
      /\ S!Given(S!AsIs.status, S!DEFAULT_STATUS) = S!DEFAULT_STATUS
  BY DEF S!AsIs, S!Given
<1>7. S!mutate("register", id, arg) \/ S!mutate("skip", id, pass)
  BY <1>2
<1> HIDE DEF s
<1>8. CASE S!mutate("register", id, arg)
  <2>1. ASSUME NEW c, c = [no |-> made', kind |-> "register", id |-> id, arg |-> arg, step |-> "sent"]
        PROVE  IsOrder(c)'
    <3>1. AsPressed(c)'
      BY <1>1, <1>4, <1>6, <2>1 DEF AsPressed
    <3> QED BY <1>1, <2>1, <3>1 DEF IsOrder
  <2> HIDE DEF arg
  <2> QED BY <1>1, <1>5, <1>8, <2>1, PressKeeps DEF SchedulesInv, SheetsAgree
<1>9. CASE S!mutate("skip", id, pass)
  <2>1. ASSUME NEW c, c = [no |-> made', kind |-> "skip", id |-> id, arg |-> pass, step |-> "sent"]
        PROVE  IsOrder(c)'
    <3>1. AsPressed(c)'
      BY <1>1, <1>4, <2>1 DEF AsPressed
    <3> QED BY <1>1, <2>1, <3>1 DEF IsOrder
  <2> HIDE DEF pass
  <2> QED BY <1>1, <1>5, <1>9, <2>1, PressKeeps DEF SchedulesInv, SheetsAgree
<1> QED BY <1>7, <1>8, <1>9

LEMMA SaveKeeps ==
  ASSUME SchedulesAssumptions, SchedulesInv, S!save
  PROVE  SchedulesInv'
<1>1. /\ scheduleSheet # None /\ S!mutate("save", scheduleSheet, S!buildTemplate)
      /\ UNCHANGED <<schedules, registered, done, saved, seen, stale, loaded, opened, occ, fields, scheduleSheet, applying, rows>>
  BY DEF S!save, S!server, S!copy, S!sheets
<1>2. calls = {} /\ ~stale /\ calls \subseteq calls' /\ loaded /\ opened = None
  BY <1>1 DEF S!mutate, SchedulesAssumptions, SchedulesInv, SheetsAgree
<1>3. seen.schedules = schedules
  BY <1>2 DEF SchedulesInv, OneAtATime
<1> DEFINE k == IF scheduleSheet \in DOMAIN seen.schedules /\ loaded THEN seen.schedules[scheduleSheet].kept ELSE 0
<1>4. Quiet(k) /\ (scheduleSheet \in DOMAIN schedules \cap DOMAIN Existing => k = Existing[scheduleSheet].kept)
  BY <1>2, <1>3 DEF SchedulesInv, AsListed, Quiet
<1>5. IsForm(fields) /\ S!buildTemplate = [fields EXCEPT !.kept = k]
  BY DEF SchedulesInv, SheetsAgree, S!buildTemplate
<1> HIDE DEF k
<1>6. S!buildTemplate.amount \in Int /\ S!buildTemplate.kept = k
  BY <1>5 DEF IsForm
<1>7. "delete" \notin Fails => S!AppliedIsDone'
  BY <1>1, <1>2, DoneStaysDone DEF SchedulesInv
<1>8. ASSUME NEW c, c = [no |-> made', kind |-> "save", id |-> scheduleSheet, arg |-> S!buildTemplate, step |-> "sent"]
      PROVE  IsOrder(c)'
  <2>0. PICK b : b = S!buildTemplate
    OBVIOUS
  <2>1. c.arg = b /\ c.id = scheduleSheet /\ c.kind = "save" /\ c.step = "sent"
        /\ c = [no |-> c.no, kind |-> c.kind, id |-> c.id, arg |-> c.arg, step |-> c.step]
    BY <1>8, <2>0
  <2> QED BY <1>1, <1>2, <1>4, <1>6, <2>0, <2>1 DEF IsOrder, Quiet, Unreconciled
<1> QED BY <1>1, <1>7, <1>8, PressKeeps DEF SchedulesInv, SheetsAgree

LEMMA DeleteKeeps ==
  ASSUME SchedulesAssumptions, SchedulesInv, S!askDelete
  PROVE  SchedulesInv'
<1>1. PICK id \in DOMAIN seen.schedules :
        /\ scheduleSheet = id \/ scheduleSheet = None
        /\ S!mutate("delete", id, None)
        /\ IF applying = id THEN applying' = None /\ rows' = rows \ {id} ELSE UNCHANGED <<applying, rows>>
  BY DEF S!askDelete
<1>2. /\ scheduleSheet' = None
      /\ UNCHANGED <<schedules, registered, done, saved, seen, stale, loaded, opened, occ, fields>>
  BY DEF S!askDelete, S!server, S!copy
<1>3. calls = {} /\ ~stale /\ calls' = {[no |-> made', kind |-> "delete", id |-> id, arg |-> None, step |-> "sent"]}
  BY <1>1 DEF S!mutate, SchedulesAssumptions
<1>4. seen.schedules = schedules
  BY <1>3 DEF SchedulesInv, OneAtATime
<1>5. applying' \in {applying, None} \cap {scheduleSheet', None}
  BY <1>1, <1>2 DEF SchedulesInv, SheetsAgree
<1>6. "delete" \notin Fails => S!AppliedIsDone'
  <2> SUFFICES ASSUME S!AppliedIsDone, NEW x \in DOMAIN Raised, x \notin rows'
               PROVE  x \in saved' \/ \E c \in calls' : c.kind = "delete" /\ c.id = x /\ c.step # "failed"
    BY DEF SchedulesInv, S!AppliedIsDone
  <2>1. x \notin rows \/ x = id
    BY <1>1
  <2>2. x \notin rows => x \in saved
    BY <1>3 DEF S!AppliedIsDone
  <2> QED BY <1>2, <1>3, <2>1, <2>2
<1>7. rows' \subseteq rows
  BY <1>1
<1>8. ASSUME NEW c, c = [no |-> made', kind |-> "delete", id |-> id, arg |-> None, step |-> "sent"]
      PROVE  IsOrder(c)'
  BY <1>2, <1>4, <1>8 DEF IsOrder
<1> QED BY <1>1, <1>2, <1>5, <1>6, <1>7, <1>8, PressKeeps

\* A call moves on, alone on its way.
LEMMA CallMoves ==
  ASSUME SchedulesInv, NEW c \in calls, NEW step, S!Moved(c, step)
  PROVE  /\ calls = {c} /\ ~stale
         /\ \E d : d = [no |-> c.no, kind |-> c.kind, id |-> c.id, arg |-> c.arg, step |-> step] /\ calls' = {d}
<1>1. calls = {c} /\ ~stale /\ IsOrder(c)
  BY DEF SchedulesInv, OneAtATime
<1>2. calls' = {[c EXCEPT !.step = step]}
  BY <1>1 DEF S!Moved
<1>3. [c EXCEPT !.step = step] = [no |-> c.no, kind |-> c.kind, id |-> c.id, arg |-> c.arg, step |-> step]
  <2>1. c = [no |-> c.no, kind |-> c.kind, id |-> c.id, arg |-> c.arg, step |-> c.step]
    BY <1>1 DEF IsOrder
  <2> QED BY <2>1
<1> QED BY <1>1, <1>2, <1>3

LEMMA DoneMovesOn ==
  ASSUME S!AppliedIsDone, NEW c, calls = {c}, NEW d, calls' = {d}, d.kind = c.kind, d.id = c.id,
         d.kind = "delete" => d.step # "failed", saved \subseteq saved', UNCHANGED rows
  PROVE  S!AppliedIsDone'
<1> SUFFICES ASSUME NEW x \in DOMAIN Raised, x \notin rows'
             PROVE  x \in saved' \/ \E e \in calls' : e.kind = "delete" /\ e.id = x /\ e.step # "failed"
  BY DEF S!AppliedIsDone
<1>1. x \in saved \/ \E e \in calls : e.kind = "delete" /\ e.id = x /\ e.step # "failed"
  BY DEF S!AppliedIsDone
<1> QED BY <1>1

\* Amounts and what no sheet edits stay when a schedule is gone, or moves on.
LEMMA ListedStays ==
  ASSUME NEW ss, AsListed(ss), NEW ts, DOMAIN ts \subseteq DOMAIN ss,
         \A x \in DOMAIN ts : ts[x].amount = ss[x].amount /\ ts[x].kept = ss[x].kept
  PROVE  AsListed(ts)
BY DEF AsListed

LEMMA AdvancedIsListed ==
  ASSUME AsListed(schedules), NEW id \in DOMAIN schedules
  PROVE  AsListed(S!Advanced(id))
<1>1. CASE schedules[id].left = 1
  <2>1. AsListed(S!Without(id))
    BY ListedStays DEF S!Without
  <2> QED BY <1>1, <2>1 DEF S!Advanced
<1>2. CASE schedules[id].left # 1
  <2> DEFINE s == schedules[id]
             r == S!Due(s, S!addMonths(s.next, 1), IF s.left = None THEN None ELSE s.left - 1)
  <2>1. r.amount = s.amount /\ r.kept = s.kept
    BY DEF S!Due
  <2>2. S!Advanced(id) = [schedules EXCEPT ![id] = r]
    BY <1>2 DEF S!Advanced
  <2> HIDE DEF r
  <2>3. AsListed([schedules EXCEPT ![id] = r])
    BY <2>1, ListedStays
  <2> QED BY <2>2, <2>3
<1> QED BY <1>1, <1>2

LEMMA RefusedKeeps ==
  ASSUME SchedulesAssumptions, SchedulesInv, NEW c \in calls, S!Refuse(c)
  PROVE  SchedulesInv'
<1>1. /\ c.step \in {"sent", "template"} /\ S!Moved(c, "failed")
      /\ UNCHANGED <<schedules, registered, done, saved, seen, stale, loaded, opened, occ, scheduleSheet, fields, applying, rows>>
  BY DEF S!Refuse, S!server, S!copy, S!sheets
<1>2. PICK d : d = [no |-> c.no, kind |-> c.kind, id |-> c.id, arg |-> c.arg, step |-> "failed"] /\ calls' = {d}
  BY <1>1, CallMoves
<1>3. calls = {c} /\ ~stale /\ IsOrder(c)
  BY <1>1, CallMoves DEF SchedulesInv
<1>4. "delete" \notin Fails => c.kind # "delete"
  BY <1>1, <1>3 DEF S!Refuse, IsOrder
<1>5. IsOrder(d)'
  BY <1>1, <1>2, <1>3, <1>4 DEF IsOrder
<1>6. SheetsAgree'
  <2>1. opened' # None => Fits'
    BY <1>1, <1>3 DEF SchedulesInv, SheetsAgree, Fits
  <2> QED BY <1>1, <2>1 DEF SchedulesInv, SheetsAgree, IsForm
<1>7. OneAtATime' /\ AsListed(schedules)' /\ AsListed(seen.schedules)'
  BY <1>1, <1>2, <1>3 DEF SchedulesInv, OneAtATime, AsListed
<1>8. "delete" \notin Fails => S!AppliedIsDone'
  BY <1>1, <1>2, <1>3, <1>4, DoneMovesOn DEF SchedulesInv
<1> QED BY <1>1, <1>2, <1>5, <1>6, <1>7, <1>8 DEF SchedulesInv, S!ActsOnWhatIsShown

LEMMA TemplateServed ==
  ASSUME SchedulesAssumptions, SchedulesInv, NEW c \in calls, S!ServeTemplate(c)
  PROVE  SchedulesInv'
<1>1. /\ c.kind = "save" /\ c.step = "sent" /\ S!Moved(c, "template")
      /\ UNCHANGED <<registered, done, saved, stale, loaded, opened, occ, scheduleSheet, fields, applying, rows>>
  BY DEF S!ServeTemplate, S!sheets
<1>2. PICK d : d = [no |-> c.no, kind |-> c.kind, id |-> c.id, arg |-> c.arg, step |-> "template"] /\ calls' = {d}
  BY <1>1, CallMoves
<1>3. calls = {c} /\ ~stale /\ IsOrder(c) /\ opened = None
  BY <1>1, CallMoves DEF SchedulesInv, IsOrder
<1>4. seen.schedules = schedules
  BY <1>1, <1>3 DEF SchedulesInv, OneAtATime
<1>5. /\ seen'.schedules = schedules' /\ DOMAIN schedules' = DOMAIN schedules /\ AsListed(schedules')
  <2>1. CASE c.id \in DOMAIN schedules
    <3> DEFINE r == S!Written(schedules[c.id], c.arg)
    <3>1. r.amount = c.arg.amount /\ r.kept = c.arg.kept
      BY DEF S!Written
    <3>2. /\ schedules' = [schedules EXCEPT ![c.id] = r]
          /\ seen' = [schedules |-> [seen.schedules EXCEPT ![c.id] = r], posted |-> seen.posted]
      BY <1>4, <2>1 DEF S!ServeTemplate
    <3> HIDE DEF r
    <3>3. AsListed([schedules EXCEPT ![c.id] = r])
      BY <1>1, <1>3, <3>1, <2>1 DEF SchedulesInv, AsListed, IsOrder
    <3> QED BY <1>4, <3>2, <3>3
  <2>2. CASE c.id \notin DOMAIN schedules
    BY <1>4, <2>2 DEF S!ServeTemplate, SchedulesInv
  <2> QED BY <2>1, <2>2
<1>6. IsOrder(d)'
  BY <1>1, <1>2, <1>3, <1>5 DEF IsOrder, Quiet, Unreconciled
<1>7. SheetsAgree'
  BY <1>1, <1>3 DEF SchedulesInv, SheetsAgree, IsForm
<1>8. AsListed(schedules)' /\ AsListed(seen.schedules)'
  BY <1>5 DEF AsListed, Quiet, Unreconciled
<1>9. OneAtATime'
  BY <1>1, <1>2, <1>3, <1>5 DEF OneAtATime
<1>10. "delete" \notin Fails => S!AppliedIsDone'
  BY <1>1, <1>2, <1>3, DoneMovesOn DEF SchedulesInv
<1> QED BY <1>1, <1>2, <1>6, <1>7, <1>8, <1>9, <1>10 DEF SchedulesInv, S!ActsOnWhatIsShown

\* What is posted is what was pressed.
LEMMA PostedKeeps ==
  ASSUME SchedulesAssumptions, SchedulesInv, NEW c \in calls, S!Serve(c), c.kind \in {"register", "skip"}
  PROVE  SchedulesInv'
<1>1. /\ c.step = "sent" /\ S!postOnce(c) /\ S!Moved(c, "ok")
      /\ UNCHANGED <<saved, seen, stale, loaded, opened, occ, scheduleSheet, fields, applying, rows>>
  BY DEF S!Serve, S!copy, S!sheets
<1>2. PICK d : d = [no |-> c.no, kind |-> c.kind, id |-> c.id, arg |-> c.arg, step |-> "ok"] /\ calls' = {d}
  BY <1>1, CallMoves
<1>3. calls = {c} /\ ~stale /\ IsOrder(c)
  BY <1>1, CallMoves DEF SchedulesInv
<1>4. c.id \in DOMAIN schedules /\ schedules' = S!Advanced(c.id) /\ AsPressed(c)
  BY <1>1, <1>3 DEF S!postOnce, IsOrder
<1>5. AsListed(schedules')
  BY <1>4, AdvancedIsListed DEF SchedulesInv
<1>6. Unreconciled => S!ActsOnWhatIsShown'
  <2> SUFFICES ASSUME Unreconciled, S!ActsOnWhatIsShown
               PROVE  \A e \in done' : e.pressed = e.got
    BY DEF SchedulesInv, S!ActsOnWhatIsShown
  <2> DEFINE s == schedules[c.id]
             t == S!Transaction(c.id, c.arg.body)
  <2>1. c.arg.on = s.next
    BY <1>4 DEF AsPressed
  <2>2. CASE c.kind = "skip"
    <3>1. done' = done \cup {[pressed |-> <<c.arg.on, None>>, got |-> <<s.next, None>>]}
      BY <1>1, <2>2 DEF S!postOnce
    <3> HIDE DEF s
    <3> QED BY <2>1, <3>1 DEF S!ActsOnWhatIsShown
  <2>3. CASE c.kind = "register"
    <3>1. s.kept \in {0, S!DEFAULT_STATUS}
      BY <1>4 DEF SchedulesInv, AsListed, Quiet
    <3>2. (IF s.kept = 0 THEN S!DEFAULT_STATUS ELSE s.kept) = S!DEFAULT_STATUS
      BY <3>1
    <3>3. t.on = s.next /\ [amount |-> t.amount, date |-> t.date, status |-> t.status] = c.arg.saw
      BY <1>4, <2>3, <3>2 DEF AsPressed, S!Transaction
    <3>4. done' = done \cup {[pressed |-> <<c.arg.on, c.arg.saw>>,
                              got |-> <<t.on, [amount |-> t.amount, date |-> t.date, status |-> t.status]>>]}
      BY <1>1, <2>3 DEF S!postOnce
    <3> HIDE DEF s, t
    <3> QED BY <2>1, <3>3, <3>4 DEF S!ActsOnWhatIsShown
  <2> QED BY <2>2, <2>3
<1>7. IsOrder(d)'
  BY <1>1, <1>2, <1>3 DEF IsOrder
<1>8. SheetsAgree'
  BY <1>1, <1>2 DEF SchedulesInv, SheetsAgree, IsForm
<1>9. AsListed(schedules)' /\ AsListed(seen.schedules)'
  BY <1>1, <1>5 DEF SchedulesInv, AsListed, Quiet, Unreconciled
<1>10. OneAtATime'
  BY <1>1, <1>2, <1>3 DEF OneAtATime
<1>11. "delete" \notin Fails => S!AppliedIsDone'
  BY <1>1, <1>2, <1>3, DoneMovesOn DEF SchedulesInv
<1> QED BY <1>2, <1>6, <1>7, <1>8, <1>9, <1>10, <1>11 DEF SchedulesInv

LEMMA DeletionServed ==
  ASSUME SchedulesAssumptions, SchedulesInv, NEW c \in calls, S!Serve(c), c.kind = "delete"
  PROVE  SchedulesInv'
<1>1. /\ c.step = "sent" /\ schedules' = S!Without(c.id) /\ saved' = saved \cup {c.id} /\ S!Moved(c, "ok")
      /\ UNCHANGED <<registered, done, seen, stale, loaded, opened, occ, scheduleSheet, fields, applying, rows>>
  BY DEF S!Serve, S!copy, S!sheets
<1>2. PICK d : d = [no |-> c.no, kind |-> c.kind, id |-> c.id, arg |-> c.arg, step |-> "ok"] /\ calls' = {d}
  BY <1>1, CallMoves
<1>3. calls = {c} /\ ~stale
  BY <1>1, CallMoves
<1>4. DOMAIN schedules' \subseteq DOMAIN schedules /\ \A x \in DOMAIN schedules' : schedules'[x] = schedules[x]
  BY <1>1 DEF S!Without
<1>5. AsListed(schedules')
  BY <1>4, ListedStays DEF SchedulesInv
<1>6. IsOrder(d)'
  BY <1>1, <1>2, <1>3 DEF IsOrder
<1>7. SheetsAgree'
  <2>1. opened' # None => Fits'
    BY <1>1, <1>3, <1>4 DEF SchedulesInv, SheetsAgree, Fits
  <2> QED BY <1>1, <2>1 DEF SchedulesInv, SheetsAgree, IsForm
<1>8. AsListed(schedules)' /\ AsListed(seen.schedules)'
  BY <1>1, <1>5 DEF SchedulesInv, AsListed, Quiet, Unreconciled
<1>9. OneAtATime'
  BY <1>1, <1>2, <1>3 DEF OneAtATime
<1>10. "delete" \notin Fails => S!AppliedIsDone'
  BY <1>1, <1>2, <1>3, DoneMovesOn DEF SchedulesInv
<1> QED BY <1>1, <1>2, <1>6, <1>7, <1>8, <1>9, <1>10 DEF SchedulesInv, S!ActsOnWhatIsShown

LEMMA ScheduleServed ==
  ASSUME SchedulesAssumptions, SchedulesInv, NEW c \in calls, S!Serve(c), c.kind = "save"
  PROVE  SchedulesInv'
<1>1. /\ c.step = "template" /\ S!Moved(c, "ok")
      /\ UNCHANGED <<registered, done, seen, stale, loaded, opened, occ, scheduleSheet, fields, applying, rows>>
      /\ \/ /\ c.id = "new" /\ saved' = saved /\ Fresh \notin DOMAIN schedules
            /\ schedules' = [id \in DOMAIN schedules \cup {Fresh} |-> IF id = Fresh THEN S!Created(c.arg) ELSE schedules[id]]
         \/ /\ c.id \in DOMAIN schedules /\ saved' = saved \cup {c.id}
            /\ schedules' = [schedules EXCEPT ![c.id] = S!Due(schedules[c.id], c.arg.next, schedules[c.id].left)]
  BY DEF S!Serve, S!copy, S!sheets
<1>2. PICK d : d = [no |-> c.no, kind |-> c.kind, id |-> c.id, arg |-> c.arg, step |-> "ok"] /\ calls' = {d}
  BY <1>1, CallMoves
<1>3. calls = {c} /\ ~stale /\ IsOrder(c) /\ opened = None
  BY <1>1, CallMoves DEF SchedulesInv, IsOrder
<1>4. AsListed(schedules') /\ DOMAIN schedules' \subseteq DOMAIN schedules \cup {Fresh}
  <2>1. CASE schedules' = [id \in DOMAIN schedules \cup {Fresh} |-> IF id = Fresh THEN S!Created(c.arg) ELSE schedules[id]]
    <3> DEFINE r == S!Created(c.arg)
    <3>1. r.amount \in Int /\ Quiet(r.kept) /\ Fresh \notin DOMAIN Existing
      BY <1>3 DEF S!Created, IsOrder, Quiet, SchedulesAssumptions, S!PageConstants
    <3>2. schedules' = [id \in DOMAIN schedules \cup {Fresh} |-> IF id = Fresh THEN r ELSE schedules[id]]
      BY <2>1
    <3> HIDE DEF r
    <3>3. ASSUME NEW x \in DOMAIN schedules'
          PROVE  \/ x = Fresh /\ schedules'[x] = r
                 \/ x \in DOMAIN schedules /\ schedules'[x] = schedules[x]
      BY <3>2
    <3>4. DOMAIN schedules' = DOMAIN schedules \cup {Fresh}
      BY <2>1
    <3> QED BY <3>1, <3>3, <3>4 DEF SchedulesInv, AsListed
  <2>2. CASE /\ c.id \in DOMAIN schedules
             /\ schedules' = [schedules EXCEPT ![c.id] = S!Due(schedules[c.id], c.arg.next, schedules[c.id].left)]
    <3> DEFINE r == S!Due(schedules[c.id], c.arg.next, schedules[c.id].left)
    <3>1. r.amount = schedules[c.id].amount /\ r.kept = schedules[c.id].kept
      BY DEF S!Due
    <3>2. schedules' = [schedules EXCEPT ![c.id] = r]
      BY <2>2
    <3> HIDE DEF r
    <3>3. AsListed([schedules EXCEPT ![c.id] = r])
      BY <3>1, ListedStays DEF SchedulesInv
    <3> QED BY <3>2, <3>3
  <2> QED BY <1>1, <2>1, <2>2
<1>5. Fresh \notin DOMAIN Existing
  BY DEF SchedulesAssumptions, S!PageConstants
<1>6. IsOrder(d)'
  BY <1>1, <1>2, <1>3, <1>4, <1>5 DEF IsOrder, Quiet, Unreconciled
<1>7. SheetsAgree'
  BY <1>1, <1>3 DEF SchedulesInv, SheetsAgree, IsForm
<1>8. AsListed(schedules)' /\ AsListed(seen.schedules)'
  BY <1>1, <1>4 DEF SchedulesInv, AsListed, Quiet, Unreconciled
<1>9. OneAtATime'
  BY <1>1, <1>2, <1>3 DEF OneAtATime
<1>10. "delete" \notin Fails => S!AppliedIsDone'
  BY <1>1, <1>2, <1>3, DoneMovesOn DEF SchedulesInv
<1> QED BY <1>1, <1>2, <1>6, <1>7, <1>8, <1>9, <1>10 DEF SchedulesInv, S!ActsOnWhatIsShown

\* The answer comes: the sheets close when it went well, and what is shown is read again.
LEMMA AnsweredKeeps ==
  ASSUME SchedulesAssumptions, SchedulesInv, NEW c \in calls, S!Answer(c)
  PROVE  SchedulesInv'
<1>1. /\ c.step \in {"ok", "failed"} /\ calls' = calls \ {c} /\ stale' = (stale \/ c.step = "ok")
      /\ UNCHANGED <<schedules, registered, done, saved, seen, loaded>>
  BY DEF S!Answer, S!server
<1>2. calls = {c} /\ calls' = {} /\ ~stale /\ IsOrder(c)
  BY <1>1 DEF SchedulesInv, OneAtATime
<1>3. OneAtATime'
  BY <1>1, <1>2 DEF SchedulesInv, OneAtATime
<1>4. AsListed(schedules)' /\ AsListed(seen.schedules)'
  BY <1>1 DEF SchedulesInv, AsListed, Quiet, Unreconciled
<1>5. ASSUME "delete" \notin Fails, NEW x \in DOMAIN Raised, x \notin rows
      PROVE  x \in saved
  <2>1. x \in saved \/ (c.kind = "delete" /\ c.id = x /\ c.step # "failed")
    BY <1>2, <1>5 DEF SchedulesInv, S!AppliedIsDone
  <2> QED BY <1>1, <1>2, <2>1 DEF IsOrder
<1>6. CASE ~S!Closes(c)
  <2>1. UNCHANGED <<opened, occ, scheduleSheet, fields, applying, rows>>
    BY <1>6 DEF S!Answer, S!sheets
  <2>2. opened # None => Fits
    BY <1>2, <1>6 DEF SchedulesInv, SheetsAgree, S!Closes
  <2>3. SheetsAgree'
    BY <1>1, <2>1, <2>2 DEF SchedulesInv, SheetsAgree, IsForm, Fits
  <2> QED BY <1>1, <1>2, <1>3, <1>4, <1>5, <2>1, <2>3 DEF SchedulesInv, S!ActsOnWhatIsShown, S!AppliedIsDone
<1>7. CASE S!Closes(c) /\ c.kind = "save"
  <2>1. S!onSaved /\ c.step = "ok" /\ opened = None /\ loaded
    BY <1>1, <1>2, <1>7 DEF S!Answer, S!Closes, IsOrder
  <2>2. S!onSavedNext \in DOMAIN seen.schedules \cup {None}
    BY DEF S!onSavedNext
  <2>3. /\ scheduleSheet' = S!onSavedNext /\ opened' = None /\ applying' = None
        /\ fields' = IF scheduleSheet' = None THEN fields ELSE S!Filled(scheduleSheet', None, None)
        /\ rows' = IF applying # None /\ applying = scheduleSheet THEN rows \ {scheduleSheet} ELSE rows
    BY <2>1 DEF S!onSaved
  <2>4. ASSUME NEW n \in DOMAIN seen.schedules
        PROVE  IsForm(S!Filled(n, None, None))
    BY <2>1, FilledIsForm
  <2>5. IsForm(fields')
    <3>1. CASE scheduleSheet' = None
      BY <2>3, <3>1 DEF SchedulesInv, SheetsAgree
    <3>2. CASE scheduleSheet' # None
      <4>1. PICK n \in DOMAIN seen.schedules : n = S!onSavedNext /\ fields' = S!Filled(n, None, None)
        BY <2>2, <2>3, <3>2
      <4> QED BY <2>4, <4>1
    <3> QED BY <3>1, <3>2
  <2>6. SheetsAgree'
    BY <1>1, <2>1, <2>3, <2>5 DEF SchedulesInv, SheetsAgree, IsForm
  <2>7. ASSUME "delete" \notin Fails
        PROVE  S!AppliedIsDone'
    <3> SUFFICES ASSUME NEW x \in DOMAIN Raised, x \notin rows'
                 PROVE  x \in saved
      BY <1>1 DEF S!AppliedIsDone
    <3>1. x \notin rows \/ (x = applying /\ x = scheduleSheet)
      BY <2>3
    <3>2. x # "new" /\ x # None
      BY DEF SchedulesAssumptions, S!PageConstants
    <3> QED BY <1>2, <1>5, <1>7, <2>1, <2>7, <3>1, <3>2 DEF IsOrder
  <2> QED BY <1>1, <1>2, <1>3, <1>4, <2>6, <2>7 DEF SchedulesInv, S!ActsOnWhatIsShown
<1>8. CASE S!Closes(c) /\ c.kind # "save"
  <2>1. opened' = None /\ UNCHANGED <<scheduleSheet, fields, applying, rows>>
    BY <1>2, <1>8 DEF S!Answer, S!Closes, IsOrder
  <2>2. SheetsAgree'
    BY <1>1, <2>1 DEF SchedulesInv, SheetsAgree, IsForm
  <2> QED BY <1>1, <1>2, <1>3, <1>4, <1>5, <2>1, <2>2 DEF SchedulesInv, S!ActsOnWhatIsShown, S!AppliedIsDone
<1> QED BY <1>6, <1>7, <1>8

LEMMA HourKeeps ==
  ASSUME SchedulesAssumptions, SchedulesInv, S!RunDue
  PROVE  SchedulesInv'
<1>1. PICK id \in DOMAIN schedules : schedules' = S!Advanced(id)
  BY DEF S!RunDue
<1>2. /\ calls = {} /\ scheduleSheet = None /\ opened = None /\ stale' = TRUE
      /\ UNCHANGED <<done, saved, seen, loaded, opened, scheduleSheet, fields, applying, rows, calls>>
  BY DEF S!RunDue, S!sheets, SchedulesAssumptions
<1>3. AsListed(schedules')
  BY <1>1, AdvancedIsListed DEF SchedulesInv
<1>4. AsListed(schedules)' /\ AsListed(seen.schedules)'
  BY <1>2, <1>3 DEF SchedulesInv, AsListed, Quiet, Unreconciled
<1>5. SheetsAgree' /\ OneAtATime'
  BY <1>2 DEF SchedulesInv, SheetsAgree, OneAtATime, IsForm
<1> QED BY <1>2, <1>4, <1>5 DEF SchedulesInv, S!ActsOnWhatIsShown, S!AppliedIsDone

LEMMA ReadAgain ==
  ASSUME SchedulesAssumptions, SchedulesInv, S!invalidate
  PROVE  SchedulesInv'
<1>1. /\ stale /\ stale' = FALSE /\ seen'.schedules = schedules
      /\ UNCHANGED <<schedules, done, saved, loaded, opened, occ, scheduleSheet, fields, applying, rows, calls>>
  BY DEF S!invalidate, S!server, S!sheets
<1>2. calls = {}
  BY <1>1 DEF SchedulesInv, OneAtATime
<1>3. AsListed(schedules)' /\ AsListed(seen.schedules)'
  BY <1>1 DEF SchedulesInv, AsListed, Quiet, Unreconciled
<1>4. SheetsAgree' /\ OneAtATime'
  BY <1>1, <1>2 DEF SchedulesInv, SheetsAgree, OneAtATime, IsForm, Fits
<1> QED BY <1>1, <1>2, <1>3, <1>4 DEF SchedulesInv, S!ActsOnWhatIsShown, S!AppliedIsDone

LEMMA SchedulesSteps ==
  ASSUME SchedulesAssumptions, SchedulesInv, [S!Next]_(S!pageVars)
  PROVE  SchedulesInv'
<1>1. CASE S!setParam \/ UNCHANGED S!pageVars
  <2>1. UNCHANGED <<schedules, registered, done, saved, seen, stale, loaded, rows, calls, opened, occ, scheduleSheet, fields, applying>>
    BY <1>1 DEF S!setParam, S!Edit, S!server, S!copy, S!sheets, S!pageVars
  <2>2. SheetsAgree'
    BY <2>1 DEF SchedulesInv, SheetsAgree, IsForm, Fits
  <2> QED BY <2>1, <2>2, SheetsAlone
<1>2. CASE S!ScheduleList
  <2>1. S!Edit /\ ((\E id \in DOMAIN seen.schedules : S!openSchedule(id, None, None)) \/ S!openSchedule("new", None, None))
    BY <1>2 DEF S!ScheduleList
  <2> QED BY <2>1, ScheduleOpens
<1>3. CASE S!FoundPayments
  <2>1. S!Edit /\ Found # None /\ S!openSchedule("new", Found, None)
    BY <1>3 DEF S!FoundPayments
  <2> QED BY <2>1, ScheduleOpens DEF SchedulesAssumptions, S!PageConstants
<1>4. CASE S!applyRow
  <2>1. PICK id \in rows \cap DOMAIN seen.schedules : S!Edit /\ S!openSchedule(id, None, id)
    BY <1>4 DEF S!applyRow
  <2>2. id \in DOMAIN Raised
    BY <2>1 DEF SchedulesInv, SheetsAgree
  <2> QED BY <2>1, <2>2, ScheduleOpens
<1>5. CASE S!changeOccurrence
  <2>1. /\ UNCHANGED <<schedules, registered, done, saved, seen, stale, loaded, rows, calls, opened, scheduleSheet, fields, applying>>
        /\ occ' \in {[occ EXCEPT !.amount = @ - 1], [occ EXCEPT !.date = Today], [occ EXCEPT !.status = 2]}
    BY <1>5 DEF S!changeOccurrence, S!Edit, S!server, S!copy
  <2>2. ASSUME Fits
        PROVE  Fits'
    <3>1. /\ occ = [amount |-> occ.amount, date |-> occ.date, status |-> occ.status]
          /\ occ.amount \in Int /\ occ.date \in {opened.date, Today} /\ occ.status \in {S!DEFAULT_STATUS, 2}
      BY <2>2 DEF Fits
    <3>2. /\ occ' = [amount |-> occ'.amount, date |-> occ'.date, status |-> occ'.status]
          /\ occ'.amount \in Int /\ occ'.date \in {opened.date, Today} /\ occ'.status \in {S!DEFAULT_STATUS, 2}
      <4>1. CASE occ' = [occ EXCEPT !.amount = @ - 1]
        BY <3>1, <4>1
      <4>2. CASE occ' = [occ EXCEPT !.date = Today]
        BY <3>1, <4>2
      <4>3. CASE occ' = [occ EXCEPT !.status = 2]
        BY <3>1, <4>3
      <4> QED BY <2>1, <4>1, <4>2, <4>3
    <3> QED BY <2>1, <2>2, <3>2 DEF Fits
  <2>3. SheetsAgree'
    BY <2>1, <2>2 DEF SchedulesInv, SheetsAgree, IsForm
  <2> QED BY <2>1, <2>3, SheetsAlone
<1>6. CASE S!ScheduleSheet
  <2>1. /\ UNCHANGED <<schedules, registered, done, saved, seen, stale, loaded, rows, calls, opened, occ, scheduleSheet, applying>>
        /\ fields' \in {[fields EXCEPT !.amount = @ - 1], [fields EXCEPT !.payee = "p2"]}
    BY <1>6 DEF S!ScheduleSheet, S!Edit, S!server, S!copy
  <2>2. IsForm(fields)
    BY DEF SchedulesInv, SheetsAgree
  <2>3. IsForm(fields')
    <3>1. CASE fields' = [fields EXCEPT !.amount = @ - 1]
      BY <2>2, <3>1 DEF IsForm
    <3>2. CASE fields' = [fields EXCEPT !.payee = "p2"]
      BY <2>2, <3>2 DEF IsForm
    <3> QED BY <2>1, <3>1, <3>2
  <2>4. SheetsAgree'
    BY <2>1, <2>3 DEF SchedulesInv, SheetsAgree, IsForm, Fits
  <2> QED BY <2>1, <2>4, SheetsAlone
<1>7. CASE S!TemplateLands
  <2>1. /\ ~loaded /\ loaded'
        /\ UNCHANGED <<schedules, registered, done, saved, seen, stale, rows, calls, opened, occ, scheduleSheet, applying>>
    BY <1>7 DEF S!TemplateLands, S!server
  <2>2. IsForm(fields')
    <3>1. CASE scheduleSheet \in DOMAIN seen.schedules
      <4> DEFINE s == seen.schedules[scheduleSheet]
                 a == S!Given(S!raisedOf(applying), s.amount)
      <4>1. a \in Int
        BY <3>1 DEF SchedulesInv, SheetsAgree, AsListed, S!raisedOf, S!Given, SchedulesAssumptions, S!PageConstants
      <4>2. fields' = [amount |-> a, payee |-> s.payee, next |-> fields.next, kept |-> s.kept]
        BY <1>7, <3>1 DEF S!TemplateLands
      <4> HIDE DEF a, s
      <4> QED BY <4>1, <4>2 DEF IsForm
    <3>2. CASE scheduleSheet \notin DOMAIN seen.schedules
      BY <1>7, <3>2 DEF S!TemplateLands, SchedulesInv, SheetsAgree
    <3> QED BY <3>1, <3>2
  <2>3. SheetsAgree'
    BY <2>1, <2>2 DEF SchedulesInv, SheetsAgree, IsForm, Fits
  <2> QED BY <2>1, <2>3, SheetsAlone
<1>8. CASE S!Close
  <2>1. /\ scheduleSheet' = None /\ applying' = None /\ opened' = None
        /\ UNCHANGED <<schedules, registered, done, saved, seen, stale, loaded, rows, calls, fields>>
    BY <1>8 DEF S!Close, S!server, S!copy
  <2>2. SheetsAgree'
    BY <2>1 DEF SchedulesInv, SheetsAgree, IsForm
  <2> QED BY <2>1, <2>2, SheetsAlone
<1>9. ASSUME NEW c \in calls, S!Serve(c)
      PROVE  SchedulesInv'
  <2>1. c.kind \in {"register", "skip", "save", "delete"}
    BY DEF SchedulesInv, IsOrder
  <2> QED BY <1>9, <2>1, PostedKeeps, DeletionServed, ScheduleServed
<1>10. CASE \E c \in calls : S!Refuse(c) \/ S!ServeTemplate(c) \/ S!Serve(c) \/ S!Answer(c)
  BY <1>9, <1>10, RefusedKeeps, TemplateServed, AnsweredKeeps
<1> QED BY <1>1, <1>2, <1>3, <1>4, <1>5, <1>6, <1>7, <1>8, <1>10, WalkBegins, OccurrenceOpens, OccurrencePressed,
           NextOnePressed, SaveKeeps, DeleteKeeps, HourKeeps, ReadAgain DEF S!Next

LEMMA SchedulesHold ==
  ASSUME SchedulesAssumptions
  PROVE  S!Spec => []SchedulesInv
<1>1. S!Init => SchedulesInv
  BY SchedulesStart
<1>2. SchedulesInv /\ [S!Next]_(S!pageVars) => SchedulesInv'
  BY SchedulesSteps
<1> QED BY <1>1, <1>2, PTL DEF S!Spec

\* The schedules page (SchedulesPage.tsx, OccurrenceSheet.tsx, schedule/service.go PostNowWith
\* and Skip), where nothing is pressed over a copy that is being read again or behind an open
\* sheet: what is registered or skipped is the occurrence the reader saw, with the amount, the
\* date and the status the sheet showed, for every template whose own status is not
\* "reconciled" (one that is, is registered as reconciled under a sheet that says cleared).
THEOREM PressesActOnWhatIsShown ==
  ASSUME S!PageConstants, ~Overlap, Unreconciled
  PROVE  S!Spec => []S!ActsOnWhatIsShown
<1>1. SchedulesInv => S!ActsOnWhatIsShown
  BY DEF SchedulesInv
<1> QED BY <1>1, SchedulesHold, PTL DEF SchedulesAssumptions

\* The sheet of a schedule (ScheduleSheet.tsx), used the same way: what it does not edit of a
\* template is never lost by saving it, even when a save fails half-way; and where no deletion
\* fails, a row of the AI's is done only once its schedule is saved or on its way out.
THEOREM SavesKeepTheRest ==
  ASSUME S!PageConstants, ~Overlap
  PROVE  S!Spec => [](S!UneditedKept /\ ("delete" \notin Fails => S!AppliedIsDone))
<1>1. SchedulesInv => S!UneditedKept /\ ("delete" \notin Fails => S!AppliedIsDone)
  BY DEF SchedulesInv, AsListed, S!UneditedKept
<1> QED BY <1>1, SchedulesHold, PTL DEF SchedulesAssumptions

(***************************************************************************)
(* Mailboxes: where one change is made at a time, and none while the        *)
(* patterns are being read again (~Overlap), they show in the order they    *)
(* are tried. A change of the order is shown before the server has it, so   *)
(* what matters is what each call on its way will leave behind.             *)
(***************************************************************************)
CONSTANTS Patterns, Senders, PROVIDERS, Usual, Domains
VARIABLES order, list, read, dragged, draft, signIn, imap

M == INSTANCE Mailboxes

\* Orders of the patterns, none twice.
Lists == {s \in Seq(M!Range(Patterns)) : M!IsInjective(s)}

\* One pattern taken out, and put back elsewhere.
LEMMA TakenOut ==
  ASSUME NEW U, NEW s \in Seq(U), NEW j \in DOMAIN s
  PROVE  /\ M!RemoveAt(s, j) \in Seq(U) /\ Len(M!RemoveAt(s, j)) = Len(s) - 1
         /\ \A i \in 1 .. Len(s) - 1 : M!RemoveAt(s, j)[i] = s[IF i < j THEN i ELSE i + 1]
<1> DEFINE a == SubSeq(s, 1, j - 1)
           b == SubSeq(s, j + 1, Len(s))
<1>1. j \in 1 .. Len(s) /\ Len(s) \in Nat /\ \A i \in 1 .. Len(s) : s[i] \in U
  OBVIOUS
<1>2. a \in Seq(U) /\ Len(a) = j - 1 /\ \A i \in 1 .. j - 1 : a[i] = s[i]
  BY <1>1, SubSeqProperties
<1>3. b \in Seq(U) /\ Len(b) = Len(s) - j /\ \A i \in 1 .. Len(s) - j : b[i] = s[j + i]
  BY <1>1, SubSeqProperties
<1>4. M!RemoveAt(s, j) = a \o b
  BY DEF M!RemoveAt
<1> HIDE DEF a, b
<1>5. /\ a \o b \in Seq(U) /\ Len(a \o b) = Len(s) - 1
      /\ \A i \in 1 .. Len(s) - 1 : (a \o b)[i] = IF i <= j - 1 THEN a[i] ELSE b[i - (j - 1)]
  <2>1. /\ a \o b \in Seq(U) /\ Len(a \o b) = Len(a) + Len(b)
        /\ \A i \in 1 .. Len(a) + Len(b) : (a \o b)[i] = IF i <= Len(a) THEN a[i] ELSE b[i - Len(a)]
    BY <1>2, <1>3, ConcatProperties
  <2>2. Len(a) + Len(b) = Len(s) - 1
    BY <1>1, <1>2, <1>3
  <2> QED BY <1>2, <2>1, <2>2
<1>6. ASSUME NEW i \in 1 .. Len(s) - 1
      PROVE  (a \o b)[i] = s[IF i < j THEN i ELSE i + 1]
  <2>1. CASE i < j
    BY <1>1, <1>2, <1>5, <2>1
  <2>2. CASE ~(i < j)
    <3>1. i - (j - 1) \in 1 .. Len(s) - j /\ j + (i - (j - 1)) = i + 1
      BY <1>1, <2>2
    <3>2. (a \o b)[i] = b[i - (j - 1)]
      BY <1>1, <1>5, <2>2
    <3>3. b[i - (j - 1)] = s[j + (i - (j - 1))]
      BY <1>3, <3>1
    <3> QED BY <2>2, <3>1, <3>2, <3>3
  <2> QED BY <1>1, <2>1, <2>2
<1> QED BY <1>4, <1>5, <1>6

LEMMA StaysInjective ==
  ASSUME NEW s \in Lists, NEW j \in DOMAIN s
  PROVE  /\ M!RemoveAt(s, j) \in Lists
         /\ \A k \in DOMAIN s : M!InsertAt(M!RemoveAt(s, j), k, s[j]) \in Lists
<1> DEFINE r == M!RemoveAt(s, j)
           U == M!Range(Patterns)
<1>1. s \in Seq(U) /\ DOMAIN s = 1 .. Len(s) /\ Len(s) \in Nat
      /\ \A x, y \in 1 .. Len(s) : s[x] = s[y] => x = y
  BY DEF Lists, M!IsInjective
<1>2. r \in Seq(U) /\ Len(r) = Len(s) - 1 /\ \A i \in 1 .. Len(s) - 1 : r[i] = s[IF i < j THEN i ELSE i + 1]
  BY <1>1, TakenOut
<1> HIDE DEF r
<1>3. DOMAIN r = 1 .. Len(s) - 1 /\ \A x, y \in DOMAIN r : r[x] = r[y] => x = y
  BY <1>1, <1>2
<1>4. ASSUME NEW k \in DOMAIN s
      PROVE  M!InsertAt(r, k, s[j]) \in Lists
  <2> DEFINE q == M!InsertAt(r, k, s[j])
  <2>1. /\ q \in Seq(U) /\ Len(q) = Len(s)
        /\ q[k] = s[j] /\ \A i \in 1 .. k - 1 : q[i] = r[i]
        /\ \A i \in k + 1 .. Len(s) : q[i] = r[i - 1]
    <3> DEFINE a == SubSeq(r, 1, k - 1)
               c == a \o <<s[j]>>
               b == SubSeq(r, k, Len(r))
    <3>1. k \in 1 .. Len(r) + 1 /\ Len(r) \in Nat /\ (\A i \in 1 .. Len(r) : r[i] \in U) /\ s[j] \in U
      BY <1>1, <1>2
    <3>2. a \in Seq(U) /\ Len(a) = k - 1 /\ \A i \in 1 .. k - 1 : a[i] = r[i]
      BY <3>1, SubSeqProperties
    <3>3. b \in Seq(U) /\ Len(b) = Len(r) + 1 - k /\ \A i \in 1 .. Len(r) + 1 - k : b[i] = r[k + i - 1]
      BY <3>1, SubSeqProperties
    <3>4. q = c \o b
      BY DEF M!InsertAt
    <3> HIDE DEF a, b, q
    <3>5. c \in Seq(U) /\ Len(c) = k /\ \A i \in 1 .. k : c[i] = IF i < k THEN r[i] ELSE s[j]
      <4>1. <<s[j]>> \in Seq(U) /\ Len(<<s[j]>>) = 1 /\ <<s[j]>>[1] = s[j]
        BY <3>1
      <4> QED BY <3>1, <3>2, <4>1, ConcatProperties
    <3> HIDE DEF c
    <3>6. /\ q \in Seq(U) /\ Len(q) = Len(r) + 1
          /\ \A i \in 1 .. Len(r) + 1 : q[i] = IF i <= k THEN c[i] ELSE b[i - k]
      <4>1. /\ c \o b \in Seq(U) /\ Len(c \o b) = Len(c) + Len(b)
            /\ \A i \in 1 .. Len(c) + Len(b) : (c \o b)[i] = IF i <= Len(c) THEN c[i] ELSE b[i - Len(c)]
        BY <3>3, <3>5, ConcatProperties
      <4>2. Len(c) + Len(b) = Len(r) + 1
        BY <3>1, <3>3, <3>5
      <4> QED BY <3>4, <3>5, <4>1, <4>2
    <3>7. ASSUME NEW i \in 1 .. Len(r) + 1
          PROVE  /\ i < k => q[i] = r[i]
                 /\ i = k => q[i] = s[j]
                 /\ i > k => q[i] = r[i - 1]
      <4>1. CASE i <= k
        BY <3>1, <3>5, <3>6, <4>1
      <4>2. CASE ~(i <= k)
        <5>1. i - k \in 1 .. Len(r) + 1 - k /\ k + (i - k) - 1 = i - 1
          BY <3>1, <4>2
        <5> QED BY <3>1, <3>3, <3>6, <4>2, <5>1
      <4> QED BY <3>1, <4>1, <4>2
    <3>8. Len(s) = Len(r) + 1 /\ Len(s) \in Nat /\ k \in 1 .. Len(s)
      BY <1>1, <1>2
    <3>9. q \in Seq(U) /\ Len(q) = Len(s)
      BY <3>6, <3>8
    <3>10. q[k] = s[j]
      BY <3>7, <3>8
    <3>11. ASSUME NEW i \in 1 .. k - 1
           PROVE  q[i] = r[i]
      <4>1. i \in 1 .. Len(r) + 1 /\ i < k
        BY <3>8, <3>1
      <4> QED BY <4>1, <3>7
    <3>12. ASSUME NEW i \in k + 1 .. Len(s)
           PROVE  q[i] = r[i - 1]
      <4>1. i \in 1 .. Len(r) + 1 /\ i > k
        BY <3>8, <3>1
      <4> QED BY <4>1, <3>7
    <3> QED BY <3>9, <3>10, <3>11, <3>12
  <2> HIDE DEF q
  <2>2. ASSUME NEW i \in 1 .. Len(s) - 1
        PROVE  r[i] # s[j]
    <3>1. (IF i < j THEN i ELSE i + 1) \in 1 .. Len(s) /\ (IF i < j THEN i ELSE i + 1) # j
      BY <1>1
    <3> QED BY <1>1, <1>2, <3>1
  <2>3. DOMAIN q = 1 .. Len(s)
    BY <2>1
  <2>4. ASSUME NEW x \in 1 .. Len(s), NEW y \in 1 .. Len(s), q[x] = q[y], x < y
        PROVE  FALSE
    <3>1. CASE y < k
      <4>1. q[x] = r[x] /\ q[y] = r[y] /\ x \in DOMAIN r /\ y \in DOMAIN r
        BY <1>1, <1>3, <2>1, <2>4, <3>1
      <4>2. x = y
        BY <1>3, <2>4, <4>1
      <4> QED BY <2>4, <4>2
    <3>2. CASE x < k /\ y = k
      <4>1. q[x] = r[x] /\ x \in 1 .. Len(s) - 1
        BY <1>1, <2>1, <3>2
      <4> QED BY <2>1, <2>2, <2>4, <3>2, <4>1
    <3>3. CASE x = k
      BY <1>1, <2>1, <2>2, <2>4, <3>3
    <3>4. CASE x < k /\ y > k
      <4>1. r[x] = r[y - 1] /\ x \in DOMAIN r /\ y - 1 \in DOMAIN r
        <5>1. q[x] = r[x] /\ q[y] = r[y - 1]
          BY <1>1, <2>1, <3>4
        <5>2. x \in 1 .. Len(s) - 1 /\ y - 1 \in 1 .. Len(s) - 1
          BY <1>1, <3>4
        <5> QED BY <1>3, <2>4, <5>1, <5>2
      <4> QED BY <1>1, <1>3, <3>4, <4>1
    <3>5. CASE x > k
      <4>1. r[x - 1] = r[y - 1] /\ x - 1 \in DOMAIN r /\ y - 1 \in DOMAIN r
        BY <1>1, <1>3, <2>1, <2>4, <3>5
      <4> QED BY <1>1, <1>3, <2>4, <4>1
    <3> QED BY <1>1, <2>4, <3>1, <3>2, <3>3, <3>4, <3>5
  <2>5. \A x, y \in 1 .. Len(s) : q[x] = q[y] => x = y
    BY <1>1, <2>4
  <2> QED BY <2>1, <2>3, <2>5 DEF q, Lists, M!IsInjective
<1>5. r \in Lists
  BY <1>2, <1>3 DEF Lists, M!IsInjective
<1> QED BY <1>4, <1>5 DEF r
\* What a call asks for: an order that names no pattern twice, an AI that reads someone.
IsMailCall(c) == c = [no |-> c.no, kind |-> c.kind, arg |-> c.arg, sent |-> c.sent, ok |-> c.ok, answer |-> c.answer]
Wants(c) == /\ IsMailCall(c)
            /\ c.sent => ~c.ok
            /\ c.kind = "reorder" => c.arg \in Lists
            /\ c.kind = "ai" => M!SomeoneToRead(c.arg)
            /\ c.kind = "update" => "ai" \notin DOMAIN c.arg

\* An order on its way is the one shown once it is answered; any other call leaves the order
\* shown alone, or has it read again.
Follows(c) == IF c.kind = "reorder" THEN c.sent \/ ~c.ok \/ c.answer = order
              ELSE stale \/ list = order \/ (c.kind = "delete" /\ ~c.sent /\ c.ok)

\* The IMAP form is the record it was opened as.
FormIsWhole ==
  imap # None => /\ imap = [x \in DOMAIN imap |-> imap[x]] /\ {"server", "typed"} \subseteq DOMAIN imap
                 /\ imap.server = [x \in DOMAIN imap.server |-> imap.server[x]]
                 /\ {"port", "security"} \subseteq DOMAIN imap.server

MailInv ==
  /\ order \in Lists /\ list \in Lists
  /\ fields = [x \in DOMAIN fields |-> fields[x]] /\ "ai" \in DOMAIN fields /\ M!SomeoneToRead(fields.ai)
  /\ FormIsWhole /\ M!PortIsUsual
  /\ fetch \in {<<>>, <<order>>}
  /\ calls # {} => fetch = <<>>
  /\ calls = {} /\ fetch = <<>> => stale \/ list = order
  /\ \A c, d \in calls : c = d
  /\ \A c \in calls : Wants(c) /\ Follows(c)

MailAssumptions == M!MailConstants /\ ~Overlap

\* Steps that leave the lists, the calls and the mailbox alone.
LEMMA ListStays ==
  ASSUME MailInv, UNCHANGED <<order, fields, list, fetch, stale, calls>>, FormIsWhole' /\ M!PortIsUsual'
  PROVE  MailInv'
<1>1. \A c \in calls : Wants(c)' /\ Follows(c)'
  BY DEF MailInv, Wants, Follows
<1> QED BY <1>1 DEF MailInv

\* A call is sent, over a copy nothing is on its way to.
LEMMA CallSent ==
  ASSUME MailAssumptions, MailInv, NEW kind, NEW arg, M!mutate(kind, arg), UNCHANGED <<order, fields, fetch, stale, imap>>,
         kind = "reorder" => arg \in Lists, kind = "ai" => M!SomeoneToRead(arg),
         kind = "update" => "ai" \notin DOMAIN arg,
         list' \in Lists, kind = "reorder" \/ list' = list
  PROVE  MailInv'
<1> DEFINE c == [no |-> made', kind |-> kind, arg |-> arg, sent |-> TRUE, ok |-> FALSE, answer |-> None]
<1>1. calls = {} /\ fetch = <<>> /\ calls' = {c}
  BY DEF M!mutate, MailAssumptions
<1>2. c.kind = kind /\ c.arg = arg /\ c.sent /\ ~c.ok /\ IsMailCall(c)
  BY DEF IsMailCall
<1>4. FormIsWhole' /\ M!PortIsUsual'
  BY DEF MailInv, FormIsWhole, M!PortIsUsual
<1> HIDE DEF c
<1>3. ASSUME NEW d \in calls'
      PROVE  Wants(d)' /\ Follows(d)'
  <2>1. d = c
    BY <1>1
  <2>2. IsMailCall(d) /\ d.sent /\ ~d.ok /\ d.kind = kind /\ d.arg = arg
    BY <1>2, <2>1
  <2>3. stale' \/ list' = order' \/ kind = "reorder"
    BY <1>1 DEF MailInv
  <2> QED BY <2>2, <2>3 DEF Wants, Follows
<1>5. /\ order' \in Lists /\ list' \in Lists /\ fields' = fields /\ fetch' = <<>> /\ calls' # {}
      /\ fields = [x \in DOMAIN fields |-> fields[x]] /\ "ai" \in DOMAIN fields /\ M!SomeoneToRead(fields.ai)
  BY <1>1 DEF MailInv
<1> QED BY <1>1, <1>2, <1>3, <1>4, <1>5 DEF MailInv

LEMMA MovedByOne ==
  ASSUME MailAssumptions, MailInv, NEW from \in DOMAIN list, NEW to, M!move(from, to)
  PROVE  MailInv'
<1> DEFINE ids == M!InsertAt(M!RemoveAt(list, from), to, list[from])
<1>1. /\ to \in DOMAIN list /\ M!mutate("reorder", ids) /\ list' = ids
      /\ UNCHANGED <<order, fields, fetch, stale, imap>>
  BY DEF M!move, M!onMutate, M!server, M!forms
<1>2. ids \in Lists
  BY <1>1, StaysInjective DEF MailInv
<1> HIDE DEF ids
<1> QED BY <1>1, <1>2, CallSent

LEMMA PlaceIsOne ==
  ASSUME NEW s, NEW p \in M!Range(s)
  PROVE  M!At(s, p) \in DOMAIN s /\ s[M!At(s, p)] = p
BY DEF M!At, M!Range

LEMMA MailPressed ==
  ASSUME MailAssumptions, MailInv,
         M!drop \/ M!PatternList \/ M!askDelete \/ M!MailboxCard \/ M!saveAI \/ M!submit
  PROVE  MailInv'
<1>1. CASE M!drop
  BY <1>1, MovedByOne, PlaceIsOne DEF M!drop
<1>2. CASE M!PatternList
  BY <1>2, MovedByOne DEF M!PatternList
<1>3. CASE M!askDelete
  <2>1. PICK k \in DOMAIN list : M!mutate("delete", list[k])
    BY <1>3 DEF M!askDelete
  <2> QED BY <1>3, <2>1, CallSent DEF M!askDelete, M!server, M!theList, M!forms, MailInv
<1>4. CASE M!MailboxCard
  <2>1. UNCHANGED <<order, fields, fetch, stale, imap, list>> /\ list \in Lists
    BY <1>4 DEF M!MailboxCard, M!server, M!theList, M!forms, MailInv
  <2>2. CASE M!mutate("check", None)
    BY <2>1, <2>2, CallSent
  <2>3. CASE M!mutate("update", [paused |-> ~seen.paused])
    BY <2>1, <2>3, CallSent
  <2>4. ASSUME NEW f, M!mutate("update", [folder |-> f])
        PROVE  MailInv'
    BY <2>1, <2>4, CallSent
  <2> QED BY <1>4, <2>2, <2>3, <2>4 DEF M!MailboxCard
<1>5. CASE M!saveAI
  BY <1>5, CallSent DEF M!saveAI, M!server, M!theList, M!forms, MailInv
<1>6. CASE M!submit
  BY <1>6, CallSent DEF M!submit, M!server, M!theList, M!forms, MailInv
<1> QED BY <1>1, <1>2, <1>3, <1>4, <1>5, <1>6

LEMMA MailServed ==
  ASSUME MailInv, NEW c \in calls, M!Serve(c)
  PROVE  MailInv'
<1>0. /\ c.sent /\ calls = {c} /\ fetch = <<>> /\ Wants(c) /\ Follows(c)
      /\ UNCHANGED <<list, fetch, stale, imap>>
  BY DEF M!Serve, MailInv, M!theList, M!forms
<1>00. IsMailCall(c)
  BY <1>0 DEF Wants
<1>1. FormIsWhole' /\ M!PortIsUsual'
  BY <1>0 DEF MailInv, FormIsWhole, M!PortIsUsual
<1>2. CASE M!Served(c) /\ calls' = (calls \ {c}) \cup {M!Done(c, TRUE, order')}
  <2> DEFINE d == M!Done(c, TRUE, order')
  <2>1. calls' = {d} /\ d.kind = c.kind /\ d.arg = c.arg /\ ~d.sent /\ d.ok /\ d.answer = order' /\ Wants(d)
    <3>1. IsMailCall(d) /\ d.kind = c.kind /\ d.arg = c.arg /\ ~d.sent /\ d.ok /\ d.answer = order'
      BY DEF M!Done, IsMailCall
    <3> HIDE DEF d
    <3>2. calls' = {d}
      BY <1>0, <1>2 DEF d
    <3> QED BY <1>0, <3>1, <3>2 DEF Wants
  <2> HIDE DEF d
  <2>2. /\ order' \in Lists /\ fields' = [x \in DOMAIN fields' |-> fields'[x]] /\ "ai" \in DOMAIN fields'
        /\ M!SomeoneToRead(fields'.ai) /\ (c.kind \in {"reorder", "delete"} \/ order' = order)
    <3>1. CASE c.kind = "reorder"
      BY <1>0, <1>2, <3>1 DEF M!Served, MailInv, Wants
    <3>2. CASE c.kind = "delete"
      BY <1>2, <3>2, PlaceIsOne, StaysInjective DEF M!Served, MailInv
    <3>3. CASE c.kind = "ai"
      BY <1>0, <1>2, <3>3 DEF M!Served, MailInv, Wants
    <3>4. CASE c.kind = "update"
      <4>1. fields' = [x \in DOMAIN fields |-> IF x \in DOMAIN c.arg THEN c.arg[x] ELSE fields[x]]
            /\ order' = order
        BY <1>2, <3>4 DEF M!Served
      <4> QED BY <1>0, <3>4, <4>1 DEF MailInv, Wants
    <3>5. CASE c.kind \notin {"reorder", "delete", "ai", "update"}
      BY <1>2, <3>5 DEF M!Served, M!server, MailInv
    <3> QED BY <3>1, <3>2, <3>3, <3>4, <3>5
  <2>3. ASSUME NEW e \in calls'
        PROVE  Wants(e)' /\ Follows(e)'
    <3>1. e = d
      BY <2>1
    <3>2. c.kind # "reorder" => stale' \/ list' = order' \/ c.kind = "delete"
      BY <1>0, <2>2 DEF Follows
    <3> QED BY <2>1, <3>1, <3>2 DEF Wants, Follows
  <2>4. calls' # {} /\ \A e, f \in calls' : e = f
    BY <2>1
  <2> QED BY <1>0, <1>1, <2>2, <2>3, <2>4 DEF MailInv
<1>3. CASE calls' = (calls \ {c}) \cup {M!Done(c, FALSE, None)} /\ UNCHANGED M!server
  <2> DEFINE d == M!Done(c, FALSE, None)
  <2>1. calls' = {d} /\ Wants(d) /\ d.kind = c.kind /\ ~d.ok /\ ~d.sent
    <3>1. IsMailCall(d) /\ d.kind = c.kind /\ d.arg = c.arg /\ ~d.sent /\ ~d.ok
      BY DEF M!Done, IsMailCall
    <3> HIDE DEF d
    <3>2. calls' = {d}
      BY <1>0, <1>3 DEF d
    <3> QED BY <1>0, <3>1, <3>2 DEF Wants
  <2>2. order' = order /\ fields' = fields
    BY <1>3 DEF M!server
  <2> HIDE DEF d
  <2>3. ASSUME NEW e \in calls'
        PROVE  Wants(e)' /\ Follows(e)'
    <3>1. e = d
      BY <2>1
    <3>2. (c.kind # "reorder" => stale' \/ list' = order')
      BY <1>0, <2>2 DEF Follows, Wants
    <3> QED BY <2>1, <3>1, <3>2 DEF Wants, Follows
  <2>4. calls' # {} /\ \A e, f \in calls' : e = f
    BY <2>1
  <2>5. order \in Lists /\ fields = [x \in DOMAIN fields |-> fields[x]] /\ "ai" \in DOMAIN fields /\ M!SomeoneToRead(fields.ai) /\ list \in Lists
    BY DEF MailInv
  <2> QED BY <1>0, <1>1, <2>2, <2>3, <2>4, <2>5 DEF MailInv
<1> QED BY <1>2, <1>3 DEF M!Serve
LEMMA MailAnswered ==
  ASSUME MailInv, NEW c \in calls, M!Answer(c)
  PROVE  MailInv'
<1>1. /\ ~c.sent /\ calls' = {} /\ fetch = <<>> /\ fetch' = <<>> /\ Wants(c) /\ Follows(c)
      /\ list' = IF c.kind = "reorder" /\ c.ok THEN c.answer ELSE list
      /\ stale' = (stale \/ (c.kind = "reorder" /\ ~c.ok) \/ (c.kind = "delete" /\ c.ok))
      /\ UNCHANGED <<order, fields>> /\ imap' \in {None, imap}
  BY DEF M!Answer, MailInv, M!server, M!Refetches
<1>2. list' \in Lists /\ (stale' \/ list' = order')
  BY <1>1 DEF MailInv, Follows
<1>3. FormIsWhole' /\ M!PortIsUsual'
  BY <1>1 DEF MailInv, FormIsWhole, M!PortIsUsual
<1> QED BY <1>1, <1>2, <1>3 DEF MailInv

LEMMA MailFetched ==
  ASSUME MailAssumptions, MailInv, M!Fetch \/ M!Fetched
  PROVE  MailInv'
<1>1. FormIsWhole' /\ M!PortIsUsual'
  BY DEF MailInv, FormIsWhole, M!PortIsUsual, M!Fetch, M!Fetched, M!forms
<1>2. CASE M!Fetch
  <2>1. calls = {} /\ calls' = {} /\ fetch' = <<order>> /\ UNCHANGED <<order, fields, list>>
    BY <1>2 DEF M!Fetch, MailAssumptions, M!server, M!forms
  <2> QED BY <1>1, <2>1 DEF MailInv
<1>3. CASE M!Fetched
  <2>1. calls = {} /\ calls' = {} /\ fetch' = <<>> /\ list' = order /\ UNCHANGED <<order, fields>>
    BY <1>3 DEF M!Fetched, MailInv, M!server
  <2> QED BY <1>1, <2>1 DEF MailInv
<1> QED BY <1>2, <1>3

\* The IMAP form: a port follows the encryption until it is typed.
LEMMA FormEdited ==
  ASSUME MailInv, \/ M!OpenImap \/ M!EditServer
                  \/ \E id \in DOMAIN PROVIDERS : M!chooseProvider(id)
                  \/ \E d \in Domains : M!typeAddress(d)
                  \/ \E s \in DOMAIN Usual : M!chooseSecurity(s)
  PROVE  MailInv'
<1>1. UNCHANGED <<order, fields, list, fetch, stale, calls>>
  BY DEF M!OpenImap, M!EditServer, M!chooseProvider, M!typeAddress, M!chooseSecurity, M!Edit, M!server, M!theList
<1>2. FormIsWhole /\ M!PortIsUsual
  BY DEF MailInv
<1>3. ASSUME M!OpenImap
      PROVE  FormIsWhole' /\ M!PortIsUsual'
  <2>1. imap' = [domain |-> None, provider |-> "gmail", chosen |-> FALSE, server |-> M!ServerOf("gmail"),
                 typed |-> FALSE, edit |-> FALSE]
    BY <1>3 DEF M!OpenImap
  <2>2. imap' = [x \in DOMAIN imap' |-> imap'[x]] /\ {"server", "typed"} \subseteq DOMAIN imap'
        /\ imap'.server = M!ServerOf("gmail")
    BY <2>1
  <2>3. LET s == M!ServerOf("gmail")
        IN s = [x \in DOMAIN s |-> s[x]] /\ {"port", "security"} \subseteq DOMAIN s /\ s.port = Usual[s.security]
    BY DEF M!ServerOf
  <2> QED BY <2>2, <2>3 DEF FormIsWhole, M!PortIsUsual
<1>4. ASSUME M!EditServer
      PROVE  FormIsWhole' /\ M!PortIsUsual'
  <2>1. CASE imap' = None
    BY <2>1 DEF FormIsWhole, M!PortIsUsual
  <2>2. CASE imap # None /\ imap' = [imap EXCEPT !.edit = TRUE]
    BY <1>2, <2>2 DEF FormIsWhole, M!PortIsUsual
  <2>3. CASE imap # None /\ imap' = [imap EXCEPT !.server.port = 1, !.typed = TRUE]
    <3>1. /\ imap' = [x \in DOMAIN imap' |-> imap'[x]] /\ DOMAIN imap' = DOMAIN imap /\ imap'.typed
          /\ imap'.server = [imap.server EXCEPT !.port = 1]
      BY <1>2, <2>3 DEF FormIsWhole
    <3> QED BY <1>2, <2>3, <3>1 DEF FormIsWhole, M!PortIsUsual
  <2> QED BY <1>4, <2>1, <2>2, <2>3 DEF M!EditServer
<1>5. ASSUME NEW id \in DOMAIN PROVIDERS, M!chooseProvider(id)
      PROVE  FormIsWhole' /\ M!PortIsUsual'
  BY <1>2, <1>5 DEF M!chooseProvider, M!ServerOf, FormIsWhole, M!PortIsUsual
<1>6. ASSUME NEW d \in Domains, M!typeAddress(d)
      PROVE  FormIsWhole' /\ M!PortIsUsual'
  BY <1>2, <1>6 DEF M!typeAddress, M!ServerOf, FormIsWhole, M!PortIsUsual
<1>7. ASSUME NEW s \in DOMAIN Usual, M!chooseSecurity(s)
      PROVE  FormIsWhole' /\ M!PortIsUsual'
  <2> DEFINE new == [host |-> imap.server.host, port |-> M!PortFor(imap.server, s), security |-> s]
  <2>1. imap # None /\ imap' = [imap EXCEPT !.server = new]
    BY <1>7 DEF M!chooseSecurity
  <2>2. /\ new = [x \in DOMAIN new |-> new[x]] /\ {"port", "security"} \subseteq DOMAIN new
        /\ new.port = M!PortFor(imap.server, s) /\ new.security = s
    OBVIOUS
  <2> HIDE DEF new
  <2>3. /\ imap' = [x \in DOMAIN imap' |-> imap'[x]] /\ DOMAIN imap' = DOMAIN imap /\ imap'.server = new
        /\ imap'.typed = imap.typed
    BY <1>2, <2>1 DEF FormIsWhole
  <2> QED BY <1>2, <2>1, <2>2, <2>3 DEF FormIsWhole, M!PortIsUsual, M!PortFor
<1>8. FormIsWhole' /\ M!PortIsUsual'
  BY <1>3, <1>4, <1>5, <1>6, <1>7
<1> QED BY <1>1, <1>8, ListStays

\* Everything else: what is dragged, the AI's form, a sign-in, the overview, the listener.
LEMMA MailElsewhere ==
  ASSUME MailInv, \/ M!onDragStart \/ M!end \/ M!MailAI \/ M!refetchInterval \/ M!messages \/ M!MicrosoftSignIn
                  \/ (\E m \in {"patterns", "patterns_ai"} : M!chooseMode(m)) \/ UNCHANGED M!mailVars
  PROVE  MailInv'
<1>1. UNCHANGED <<order, fields, list, fetch, stale, calls, imap>>
  BY DEF M!onDragStart, M!end, M!MailAI, M!refetchInterval, M!messages, M!MicrosoftSignIn, M!chooseMode, M!Edit,
         M!server, M!theList, M!forms, M!mailVars
<1>2. FormIsWhole' /\ M!PortIsUsual'
  BY <1>1 DEF MailInv, FormIsWhole, M!PortIsUsual
<1> QED BY <1>1, <1>2, ListStays

LEMMA MailArrives ==
  ASSUME MailInv, M!Listener
  PROVE  MailInv'
<1>1. UNCHANGED <<order, list, fetch, stale, calls, imap>> /\ fields' = [fields EXCEPT !.mails = @ + 1]
  BY DEF M!Listener, M!theList, M!forms
<1>2. FormIsWhole' /\ M!PortIsUsual'
  BY <1>1 DEF MailInv, FormIsWhole, M!PortIsUsual
<1>3. fields' = [x \in DOMAIN fields' |-> fields'[x]] /\ "ai" \in DOMAIN fields' /\ fields'.ai = fields.ai
  BY <1>1 DEF MailInv
<1>4. \A c \in calls : Wants(c)' /\ Follows(c)'
  BY <1>1 DEF MailInv, Wants, Follows
<1> QED BY <1>1, <1>2, <1>3, <1>4 DEF MailInv

LEMMA MailStep ==
  ASSUME MailAssumptions, MailInv, [M!Next]_(M!mailVars)
  PROVE  MailInv'
BY MailPressed, MailServed, MailAnswered, MailFetched, FormEdited, MailElsewhere, MailArrives DEF M!Next

\* The bank-mails settings (PatternList.tsx, MailSettings.tsx), where one change is made at a
\* time and none while the patterns are being read again: once everything is answered the
\* patterns show in the order they are tried, whatever was dragged, deleted and refused; no
\* pattern is there twice, the AI reads someone or is off, and a port nobody typed follows
\* the encryption.
THEOREM PatternsAreShownAsTried ==
  ASSUME M!MailConstants, ~Overlap
  PROVE  M!Spec => [](M!TypeOK /\ M!ShownAsTried)
<1>0. MailAssumptions
  BY DEF MailAssumptions
<1>1. M!Init => MailInv
  BY <1>0 DEF M!Init, M!NewBox, MailInv, MailAssumptions, M!MailConstants, Lists, M!SomeoneToRead, FormIsWhole, M!PortIsUsual
<1>2. MailInv /\ [M!Next]_(M!mailVars) => MailInv'
  BY <1>0, MailStep
<1>3. MailInv => M!TypeOK /\ M!ShownAsTried
  BY DEF MailInv, Lists, M!TypeOK, M!ShownAsTried
<1> QED BY <1>1, <1>2, <1>3, PTL DEF M!Spec

(***************************************************************************)
(* Entry: the sheet of a transaction, in every interleaving of the reader's *)
(* hand, saves that land or fail and helpers that answer late. What it is   *)
(* compared with before it closes has to be what the server keeps, whatever *)
(* was saved, and what came, since it opened.                               *)
(***************************************************************************)
CONSTANTS Stored, Offers, Payees, Memos, Tags, Home, Dates, DateDefault, Typing,
          MaxTyped, MaxOpens, MaxSaves, MaxAsks, MaxFaults
VARIABLES book, stencils, asked, lastDate, crossed, spent

E == INSTANCE Entry

EntrySheets ==
  [kind : {"new", "edit", "copy"}, id : Nat \cup {None}, form : E!Forms, baseline : E!Forms,
   account : Accounts, template : Nat \cup {None}, keep : BOOLEAN,
   photo : {"none", "taken", "read"}, attach : BOOLEAN]
Entries == [form : E!Forms, account : Accounts, template : Nat \cup {None}, photo : BOOLEAN]
Sends ==
  [mode : {"close", "new"}, id : Nat \cup {None}, form : E!Forms, account : Accounts,
   template : Nat \cup {None}, photo : BOOLEAN]

EntryTypes ==
  /\ entry # None => entry \in EntrySheets
  /\ book \in Seq(Entries)
  /\ stencils \in Seq(E!Forms)
  /\ sending # None => sending \in Sends
  /\ asked \subseteq [kind : DOMAIN Offers, saw : E!Forms]
  /\ lastDate \in Dates \cup {None}
  /\ crossed \in BOOLEAN

\* A form nobody would miss: blank, or as a row of the server reads.
Kept(f, those) ==
  \/ f \in { E!Blank(d) : d \in Dates }
  \/ \E i \in DOMAIN those : E!Body(f) = E!Body(those[i].form)

\* A save that starts another entry is of a new one, what it sent adds up, and so do
\* the rows.
SavesAddUp ==
  /\ entry # None /\ entry.kind # "edit" => entry.id = None
  /\ sending # None => E!AddsUp(sending.form) /\ (sending.mode = "new" => sending.id = None)
  /\ \A i \in DOMAIN book : E!AddsUp(book[i].form)

\* What a sheet is compared with is kept by the server, and what is being saved is what
\* the sheet holds, unless something was filled or opened meanwhile.
SheetIsFollowed ==
  entry # None /\ ~crossed => /\ Kept(entry.baseline, book)
                              /\ sending # None => sending.form = E!Body(entry.form)

EntryInv == EntryTypes /\ SavesAddUp /\ SheetIsFollowed

\* What is sent is a form, and nothing more is taken off it the second time.
LEMMA BodyIsForm ==
  ASSUME NEW f \in E!Forms
  PROVE  /\ E!Body(f) \in E!Forms
         /\ E!Body(E!Body(f)) = E!Body(f)
         /\ ~E!splitMismatch(f) => E!AddsUp(E!Body(f))
<1>1. <<>> \in Seq(Nat)
  OBVIOUS
<1>2. E!Body(f) \in E!Forms
  BY <1>1 DEF E!Forms, E!Body
<1>3. E!Body(E!Body(f)) = E!Body(f)
  BY DEF E!Forms, E!Body
<1>4. ASSUME ~E!splitMismatch(f)
      PROVE  E!AddsUp(E!Body(f))
  BY <1>1, <1>4 DEF E!Forms, E!Body, E!AddsUp, E!splitMismatch
<1> QED BY <1>2, <1>3, <1>4

LEMMA BlankIsForm ==
  ASSUME E!EntryConstants, NEW d \in Dates
  PROVE  E!Blank(d) \in E!Forms
<1>1. <<>> \in Seq(Nat)
  OBVIOUS
<1> QED BY <1>1 DEF E!EntryConstants, E!Blank, E!Forms

\* What is typed leaves a form.
LEMMA TypedIsForm ==
  ASSUME E!EntryConstants, NEW g \in E!Forms, NEW f \in DOMAIN Typing, NEW v \in Typing[f]
  PROVE  [g EXCEPT ![f] = v] \in E!Forms
<1>1. [E!Blank(Today) EXCEPT ![f] = v] \in E!Forms /\ f \in DOMAIN E!Blank(Today)
  BY DEF E!EntryConstants
<1>2. f \in {"date", "direction", "amount", "payee", "category", "memo", "tags", "isSplit", "splits"}
  BY <1>1 DEF E!Blank
<1>3. CASE f = "date"
  BY <1>1, <1>3 DEF E!Forms, E!Blank
<1>4. CASE f = "direction"
  BY <1>1, <1>4 DEF E!Forms, E!Blank
<1>5. CASE f = "amount"
  BY <1>1, <1>5 DEF E!Forms, E!Blank
<1>6. CASE f = "payee"
  BY <1>1, <1>6 DEF E!Forms, E!Blank
<1>7. CASE f = "category"
  BY <1>1, <1>7 DEF E!Forms, E!Blank
<1>8. CASE f = "memo"
  BY <1>1, <1>8 DEF E!Forms, E!Blank
<1>9. CASE f = "tags"
  BY <1>1, <1>9 DEF E!Forms, E!Blank
<1>10. CASE f = "isSplit"
  BY <1>1, <1>10 DEF E!Forms, E!Blank
<1>11. CASE f = "splits"
  BY <1>1, <1>11 DEF E!Forms, E!Blank
<1> QED BY <1>2, <1>3, <1>4, <1>5, <1>6, <1>7, <1>8, <1>9, <1>10, <1>11

\* So does what a helper answers.
LEMMA AnsweredIsForm ==
  ASSUME E!EntryConstants, NEW g \in E!Forms, NEW q \in [kind : DOMAIN Offers, saw : E!Forms],
         NEW a \in Offers[q.kind]
  PROVE  E!Filled(g, q, a) \in E!Forms
<1>1. q.kind \in {"rules", "category", "create", "parse", "receipt"} /\ a \in E!Expected[q.kind] /\ q.saw \in E!Forms
  <2>1. q.kind \in DOMAIN Offers /\ q.saw \in E!Forms
    OBVIOUS
  <2>2. q.kind \in DOMAIN E!Expected /\ Offers[q.kind] \subseteq E!Expected[q.kind]
    BY <2>1 DEF E!EntryConstants
  <2>3. DOMAIN E!Expected = {"rules", "category", "create", "parse", "receipt"}
    BY DEF E!Expected
  <2> QED BY <2>1, <2>2, <2>3
<1>2. CASE q.kind = "rules"
  <2>1. a \in [payee : Payees \cup {None}, category : Categories \cup {None}, tags : SUBSET Tags]
    BY <1>1, <1>2 DEF E!Expected
  <2>2. E!Filled(g, q, a) = E!ByRules(g, q.saw, a)
    BY <1>2 DEF E!Filled
  <2>3. /\ a.payee \in Payees \cup {None} /\ a.category \in Categories \cup {None}
        /\ q.saw.tags \cup a.tags \in SUBSET Tags
    BY <1>1, <2>1 DEF E!Forms
  <2>4. \A p \in Payees \cup {None}, c \in Categories \cup {None}, t \in SUBSET Tags :
           [g EXCEPT !.payee = p, !.category = c, !.tags = t] \in E!Forms
    BY DEF E!Forms
  <2>5. \E p \in Payees \cup {None}, c \in Categories \cup {None}, t \in SUBSET Tags :
           E!ByRules(g, q.saw, a) = [g EXCEPT !.payee = p, !.category = c, !.tags = t]
    <3> DEFINE p == IF q.saw.payee = None /\ a.payee # None THEN a.payee ELSE g.payee
               c == IF ~q.saw.isSplit /\ q.saw.category = None /\ a.category # None
                      THEN a.category ELSE g.category
               t == IF a.tags \subseteq q.saw.tags THEN g.tags ELSE q.saw.tags \cup a.tags
    <3>1. p \in Payees \cup {None} /\ c \in Categories \cup {None} /\ t \in SUBSET Tags
      BY <2>3 DEF E!Forms
    <3>2. E!ByRules(g, q.saw, a) = [g EXCEPT !.payee = p, !.category = c, !.tags = t]
      BY DEF E!ByRules
    <3> HIDE DEF p, c, t
    <3> QED BY <3>1, <3>2
  <2>6. PICK p \in Payees \cup {None}, c \in Categories \cup {None}, t \in SUBSET Tags :
           E!ByRules(g, q.saw, a) = [g EXCEPT !.payee = p, !.category = c, !.tags = t]
    BY <2>5
  <2>7. [g EXCEPT !.payee = p, !.category = c, !.tags = t] \in E!Forms
    BY <2>4
  <2> QED BY <2>2, <2>6, <2>7
<1>3. CASE q.kind \in {"parse", "receipt"}
  <2>1. a \in [payee : Payees \cup {None}, category : Categories \cup {None}, amount : Nat,
               direction : {"expense", "income"}, memo : Memos, tags : SUBSET Tags]
    <3>1. CASE q.kind = "parse"
      BY <1>1, <3>1 DEF E!Expected
    <3>2. CASE q.kind = "receipt"
      BY <1>1, <3>2 DEF E!Expected
    <3> QED BY <1>3, <3>1, <3>2
  <2>2. E!Filled(g, q, a) = E!applyEntry(g, a)
    BY <1>3 DEF E!Filled
  <2> QED BY <2>1, <2>2 DEF E!applyEntry, E!Forms
<1>4. CASE q.kind \in {"category", "create"}
  <2>1. a \in [category : Categories \cup {None}]
    <3>1. CASE q.kind = "category"
      BY <1>1, <3>1 DEF E!Expected
    <3>2. CASE q.kind = "create"
      BY <1>1, <3>2 DEF E!Expected
    <3> QED BY <1>4, <3>1, <3>2
  <2>2. E!Filled(g, q, a) = E!Created(g, a)
    BY <1>4 DEF E!Filled
  <2> QED BY <2>1, <2>2 DEF E!Created, E!Forms
<1> QED BY <1>1, <1>2, <1>3, <1>4

LEMMA EntryStarts ==
  ASSUME E!EntryConstants
  PROVE  E!Init => EntryInv
<1> SUFFICES ASSUME E!Init
             PROVE  EntryInv
  OBVIOUS
<1>1. book \in Seq(Entries) /\ \A i \in DOMAIN book : E!AddsUp(book[i].form)
  <2> DEFINE laid(i) == [form |-> Stored[i], account |-> Home, template |-> None, photo |-> FALSE]
  <2>0. Stored \in Seq(E!Forms) /\ Home \in Accounts /\ \A i \in DOMAIN Stored : E!AddsUp(Stored[i])
    BY DEF E!EntryConstants
  <2>1. Len(Stored) \in Nat /\ DOMAIN Stored = 1 .. Len(Stored) /\ \A i \in 1 .. Len(Stored) : Stored[i] \in E!Forms
    BY <2>0
  <2>2. book = [i \in 1 .. Len(Stored) |-> laid(i)]
    BY <2>1 DEF E!Init
  <2>3. \A i \in 1 .. Len(Stored) : laid(i) \in Entries /\ E!AddsUp(laid(i).form)
    BY <2>0, <2>1 DEF Entries
  <2> HIDE DEF laid
  <2>4. book \in Seq(Entries)
    BY <2>1, <2>2, <2>3
  <2> QED BY <2>1, <2>2, <2>3, <2>4
<1>2. stencils \in Seq(E!Forms)
  BY DEF E!Init, E!EntryConstants
<1> QED BY <1>1, <1>2 DEF E!Init, EntryInv, EntryTypes, SavesAddUp, SheetIsFollowed

\* A sheet opens on what the server keeps.
LEMMA EntryOpens ==
  ASSUME E!EntryConstants, EntryInv, E!Open
  PROVE  EntryInv'
<1>1. /\ UNCHANGED <<book, stencils, sending, asked, lastDate>>
      /\ entry = None /\ crossed' = (crossed \/ sending # None)
  BY DEF E!Open
<1>2. E!StartDate \in Dates
  BY DEF E!StartDate, EntryInv, EntryTypes, E!EntryConstants
<1>3. ASSUME NEW d \in {"expense", "income"},
             entry' = [E!Sheet("new", None, E!initialValues(None, E!StartDate)) EXCEPT !.form.direction = d]
      PROVE  entry' \in EntrySheets /\ entry'.id = None /\ Kept(entry'.baseline, book)
  <2> DEFINE f == E!Blank(E!StartDate)
  <2>1. f \in E!Forms /\ E!initialValues(None, E!StartDate) = f
    BY <1>2, BlankIsForm DEF E!initialValues
  <2>2. [f EXCEPT !.direction = d] \in E!Forms
    BY <2>1 DEF E!Forms
  <2>3. f \in { E!Blank(x) : x \in Dates }
    BY <1>2
  <2> HIDE DEF f
  <2>4. entry' = [kind |-> "new", id |-> None, form |-> [f EXCEPT !.direction = d], baseline |-> f,
                  account |-> Home, template |-> None, keep |-> FALSE, photo |-> "none", attach |-> FALSE]
    BY <1>3, <2>1 DEF E!Sheet
  <2> QED BY <2>1, <2>2, <2>3, <2>4 DEF EntrySheets, Kept, E!EntryConstants
<1>4. ASSUME NEW id \in DOMAIN book, NEW kind \in {"edit", "copy"},
             entry' = E!Sheet(kind, IF kind = "edit" THEN id ELSE None,
                              E!initialValues(book[id].form, E!StartDate))
      PROVE  /\ entry' \in EntrySheets /\ (entry'.kind # "edit" => entry'.id = None)
             /\ Kept(entry'.baseline, book)
  <2> DEFINE f == E!initialValues(book[id].form, E!StartDate)
  <2>1. f \in E!Forms /\ Kept(f, book)
    <3>1. book[id].form \in E!Forms
      <4>1. book \in Seq(Entries)
        BY DEF EntryInv, EntryTypes
      <4>2. book[id] \in Entries
        BY <4>1
      <4> QED BY <4>2 DEF Entries
    <3>0. Kept(book[id].form, book)
      BY DEF Kept
    <3>2. E!Blank(E!StartDate) \in E!Forms /\ Kept(E!Blank(E!StartDate), book)
      BY <1>2, BlankIsForm DEF Kept
    <3> QED BY <3>0, <3>1, <3>2 DEF E!initialValues
  <2>2. id \in Nat
    BY DEF EntryInv, EntryTypes
  <2> HIDE DEF f
  <2>3. entry' = [kind |-> kind, id |-> IF kind = "edit" THEN id ELSE None, form |-> f, baseline |-> f,
                  account |-> Home, template |-> None, keep |-> FALSE, photo |-> "none", attach |-> FALSE]
    BY <1>4 DEF E!Sheet, f
  <2> QED BY <2>1, <2>2, <2>3 DEF EntrySheets, E!EntryConstants
<1>5. entry' \in EntrySheets /\ (entry'.kind # "edit" => entry'.id = None) /\ Kept(entry'.baseline, book)
  BY <1>3, <1>4 DEF E!Open
<1> QED BY <1>1, <1>5 DEF EntryInv, EntryTypes, SavesAddUp, SheetIsFollowed

\* What the reader does to a sheet leaves what it is compared with.
LEMMA TouchKeeps ==
  ASSUME EntryInv, E!Touch, entry' \in EntrySheets, entry'.baseline = entry.baseline,
         entry'.kind = entry.kind, entry'.id = entry.id
  PROVE  EntryInv'
<1>1. /\ UNCHANGED <<book, stencils, sending, asked, lastDate>>
      /\ entry # None /\ crossed' = (crossed \/ sending # None)
  BY DEF E!Touch
<1> QED BY <1>1 DEF EntryInv, EntryTypes, SavesAddUp, SheetIsFollowed

LEMMA FormTouched ==
  ASSUME EntryInv, E!Touch, NEW g \in E!Forms, E!Fill(g)
  PROVE  EntryInv'
<1>1. entry \in EntrySheets
  BY DEF E!Touch, EntryInv, EntryTypes
<1>2. entry' = [entry EXCEPT !.form = g]
  BY DEF E!Fill
<1>3. /\ entry' \in EntrySheets /\ entry'.baseline = entry.baseline
      /\ entry'.kind = entry.kind /\ entry'.id = entry.id
  BY <1>1, <1>2 DEF EntrySheets
<1> QED BY <1>3, TouchKeeps

\* A part of a split entry taken out.
LEMMA PartOut ==
  ASSUME NEW s \in Seq(Nat), NEW j \in DOMAIN s
  PROVE  E!RemoveAt(s, j) \in Seq(Nat)
<1>1. j \in 1 .. Len(s) /\ Len(s) \in Nat /\ \A i \in 1 .. Len(s) : s[i] \in Nat
  OBVIOUS
<1>2. SubSeq(s, 1, j - 1) \in Seq(Nat)
  BY <1>1, SubSeqProperties
<1>3. SubSeq(s, j + 1, Len(s)) \in Seq(Nat)
  BY <1>1, SubSeqProperties
<1> QED BY <1>2, <1>3, ConcatProperties DEF E!RemoveAt

LEMMA HandKeeps ==
  ASSUME E!EntryConstants, EntryInv,
         E!Type \/ E!TypeSplit \/ E!SetAccount \/ E!KeepFields \/ E!applyTemplate \/ E!Photo
  PROVE  EntryInv'
<1>1. E!Touch
  BY DEF E!Type, E!TypeSplit, E!SetAccount, E!KeepFields, E!applyTemplate, E!Photo
<1>2. entry \in EntrySheets /\ entry.form \in E!Forms
  BY <1>1 DEF E!Touch, EntryInv, EntryTypes, EntrySheets
<1>3. CASE E!Type
  <2>0. PICK f \in DOMAIN Typing : \E v \in Typing[f] : E!Fill([entry.form EXCEPT ![f] = v])
    BY <1>3 DEF E!Type
  <2>1. PICK v \in Typing[f] : E!Fill([entry.form EXCEPT ![f] = v])
    BY <2>0
  <2>2. [entry.form EXCEPT ![f] = v] \in E!Forms
    BY <1>2, TypedIsForm
  <2> QED BY <1>1, <2>1, <2>2, FormTouched
<1>4. CASE E!TypeSplit
  <2> DEFINE e == entry.form
  <2>1. e \in E!Forms /\ e.splits \in Seq(Nat) /\ e.isSplit \in BOOLEAN
    BY <1>2 DEF E!Forms
  <2>2. /\ [e EXCEPT !.isSplit = ~@] \in E!Forms
        /\ \A s \in Seq(Nat) : [e EXCEPT !.splits = s] \in E!Forms
    BY <2>1 DEF E!Forms
  <2>3. \A a \in Typing["amount"] : a \in Nat
    <3>1. ASSUME NEW a \in Typing["amount"]
          PROVE  a \in Nat
      <4>1. "amount" \in DOMAIN Typing
        BY DEF E!EntryConstants
      <4>2. [e EXCEPT !["amount"] = a] \in E!Forms
        BY <2>1, <4>1, TypedIsForm
      <4> QED BY <2>1, <4>2 DEF E!Forms
    <3> QED BY <3>1
  <2>4. \/ E!Fill([e EXCEPT !.isSplit = ~@])
        \/ \E a \in Typing["amount"] : E!Fill([e EXCEPT !.splits = Append(e.splits, a)])
        \/ \E i \in DOMAIN e.splits : E!Fill([e EXCEPT !.splits = E!RemoveAt(e.splits, i)])
    BY <1>4 DEF E!TypeSplit
  <2> HIDE DEF e
  <2>5. CASE E!Fill([e EXCEPT !.isSplit = ~@])
    BY <1>1, <2>2, <2>5, FormTouched
  <2>6. ASSUME NEW s \in Seq(Nat), E!Fill([e EXCEPT !.splits = s])
        PROVE  EntryInv'
    BY <1>1, <2>2, <2>6, FormTouched
  <2>7. \A a \in Nat : Append(e.splits, a) \in Seq(Nat)
    BY <2>1
  <2>8. \A i \in DOMAIN e.splits : E!RemoveAt(e.splits, i) \in Seq(Nat)
    BY <2>1, PartOut
  <2> QED BY <2>3, <2>4, <2>5, <2>6, <2>7, <2>8
<1>5. CASE E!SetAccount
  <2>1. PICK a \in Accounts : entry' = [entry EXCEPT !.account = a]
    BY <1>5 DEF E!SetAccount
  <2>2. /\ entry' \in EntrySheets /\ entry'.baseline = entry.baseline
        /\ entry'.kind = entry.kind /\ entry'.id = entry.id
    BY <1>2, <2>1 DEF EntrySheets
  <2> QED BY <1>1, <2>2, TouchKeeps
<1>6. CASE E!KeepFields
  <2>1. entry' = [entry EXCEPT !.keep = ~@]
    BY <1>6 DEF E!KeepFields
  <2>2. /\ entry' \in EntrySheets /\ entry'.baseline = entry.baseline
        /\ entry'.kind = entry.kind /\ entry'.id = entry.id
    BY <1>2, <2>1 DEF EntrySheets
  <2> QED BY <1>1, <2>2, TouchKeeps
<1>7. CASE E!applyTemplate
  <2>1. PICK tpl \in DOMAIN stencils : E!FromTemplate(tpl)
    BY <1>7 DEF E!applyTemplate
  <2> DEFINE f == [stencils[tpl] EXCEPT !.date = entry.form.date]
  <2>2. f \in E!Forms
    <3>1. stencils \in Seq(E!Forms)
      BY DEF EntryInv, EntryTypes
    <3>2. stencils[tpl] \in E!Forms
      BY <3>1
    <3> QED BY <1>2, <3>2 DEF E!Forms
  <2>3. tpl \in Nat
    BY DEF EntryInv, EntryTypes
  <2>4. entry' = [entry EXCEPT !.form = f, !.template = tpl]
    BY <2>1 DEF E!FromTemplate
  <2> HIDE DEF f
  <2>5. /\ entry' \in EntrySheets /\ entry'.baseline = entry.baseline
        /\ entry'.kind = entry.kind /\ entry'.id = entry.id
    BY <1>2, <2>2, <2>3, <2>4 DEF EntrySheets
  <2> QED BY <1>1, <2>5, TouchKeeps
<1>8. CASE E!Photo
  <2>1. \/ entry' = [entry EXCEPT !.photo = "taken"]
        \/ entry' = [entry EXCEPT !.attach = ~@]
        \/ entry' = [entry EXCEPT !.photo = "none", !.attach = FALSE]
    BY <1>8 DEF E!Photo
  <2>2. /\ entry' \in EntrySheets /\ entry'.baseline = entry.baseline
        /\ entry'.kind = entry.kind /\ entry'.id = entry.id
    BY <1>2, <2>1 DEF EntrySheets
  <2> QED BY <1>1, <2>2, TouchKeeps
<1> QED BY <1>3, <1>4, <1>5, <1>6, <1>7, <1>8

\* Saving takes what the sheet holds.
LEMMA SubmitKeeps ==
  ASSUME EntryInv, NEW mode \in {"close", "new"}, E!submit(mode)
  PROVE  EntryInv'
<1> DEFINE tpl == IF entry.kind = "edit" THEN None ELSE entry.template
           photo == entry.kind # "edit" /\ entry.attach
<1>1. /\ entry # None /\ sending = None /\ ~E!splitMismatch(entry.form)
      /\ mode = "new" => entry.kind # "edit"
      /\ UNCHANGED <<entry, book, stencils, asked, lastDate, crossed>>
      /\ sending' = [mode |-> mode, id |-> entry.id, form |-> E!Body(entry.form),
                     account |-> entry.account, template |-> tpl, photo |-> photo]
  BY DEF E!submit, E!canSave
<1>2. /\ entry \in EntrySheets /\ entry.form \in E!Forms
      /\ tpl \in Nat \cup {None} /\ photo \in BOOLEAN
  BY <1>1 DEF EntryInv, EntryTypes, EntrySheets
<1>3. E!Body(entry.form) \in E!Forms /\ E!AddsUp(E!Body(entry.form))
  BY <1>1, <1>2, BodyIsForm
<1> HIDE DEF tpl, photo
<1>4. sending' \in Sends
  BY <1>1, <1>2, <1>3 DEF Sends, EntrySheets
<1>5. EntryTypes'
  BY <1>1, <1>4 DEF EntryInv, EntryTypes
<1>6. SavesAddUp'
  BY <1>1, <1>3 DEF EntryInv, SavesAddUp
<1>7. SheetIsFollowed'
  BY <1>1 DEF EntryInv, SheetIsFollowed
<1> QED BY <1>5, <1>6, <1>7 DEF EntryInv

LEMMA TemplateKeeps ==
  ASSUME E!EntryConstants, EntryInv, E!saveTemplate
  PROVE  EntryInv'
<1>1. entry # None /\ UNCHANGED <<entry, book, sending, asked, lastDate, crossed>>
  BY DEF E!saveTemplate
<1> DEFINE f == [E!Body(entry.form) EXCEPT !.date = Today]
<1>2. f \in E!Forms
  <2>1. entry.form \in E!Forms
    BY <1>1 DEF EntryInv, EntryTypes, EntrySheets
  <2>2. E!Body(entry.form) \in E!Forms /\ Today \in Dates
    BY <2>1, BodyIsForm DEF E!EntryConstants
  <2> QED BY <2>2 DEF E!Forms
<1>3. stencils' = Append(stencils, f)
  BY DEF E!saveTemplate
<1> HIDE DEF f
<1>4. stencils' \in Seq(E!Forms)
  BY <1>2, <1>3 DEF EntryInv, EntryTypes
<1> QED BY <1>1, <1>4 DEF EntryInv, EntryTypes, SavesAddUp, SheetIsFollowed

\* A save leaves rows that add up, its own among them; one of a new entry leaves the
\* others as they are.
LEMMA CommitKeeps ==
  ASSUME EntryInv, sending # None, E!Commit
  PROVE  /\ book' \in Seq(Entries)
         /\ \A i \in DOMAIN book' : E!AddsUp(book'[i].form)
         /\ sending.mode = "new" =>
              /\ DOMAIN book \subseteq DOMAIN book'
              /\ \A i \in DOMAIN book : book'[i] = book[i]
              /\ \E i \in DOMAIN book' : book'[i].form = sending.form
<1> DEFINE new == [form |-> sending.form, account |-> sending.account,
                   template |-> sending.template, photo |-> sending.photo]
<1>1. /\ sending \in Sends /\ E!AddsUp(sending.form)
      /\ sending.mode = "new" => sending.id = None
      /\ book \in Seq(Entries) /\ Len(book) \in Nat /\ DOMAIN book = 1 .. Len(book)
      /\ \A i \in DOMAIN book : E!AddsUp(book[i].form) /\ book[i] \in Entries
  BY DEF EntryInv, EntryTypes, SavesAddUp
<1>2. new \in Entries /\ new.form = sending.form
  BY <1>1 DEF Sends, Entries
<1> HIDE DEF new
<1>3. CASE sending.id = None
  <2>1. book' = Append(book, new)
    BY <1>3 DEF E!Commit, new
  <2>2. book' \in Seq(Entries) /\ Len(book') = Len(book) + 1 /\ DOMAIN book' = 1 .. Len(book) + 1
        /\ (\A i \in 1 .. Len(book) : book'[i] = book[i]) /\ book'[Len(book) + 1] = new
    BY <1>1, <1>2, <2>1, AppendProperties
  <2>3. \A i \in 1 .. Len(book) + 1 : i \in 1 .. Len(book) \/ i = Len(book) + 1
    BY <1>1
  <2>4. \A i \in DOMAIN book' : E!AddsUp(book'[i].form)
    BY <1>1, <1>2, <2>2, <2>3
  <2>5. Len(book) + 1 \in DOMAIN book' /\ DOMAIN book \subseteq DOMAIN book'
    BY <1>1, <2>2
  <2> QED BY <1>1, <1>2, <2>2, <2>4, <2>5
<1>4. CASE sending.id # None
  <2>1. book' = [book EXCEPT ![sending.id].form = sending.form]
    BY <1>4 DEF E!Commit
  <2>2. DOMAIN book' = DOMAIN book
        /\ \A i \in DOMAIN book : book'[i] = IF i = sending.id THEN [book[i] EXCEPT !.form = sending.form] ELSE book[i]
    BY <1>1, <2>1
  <2>3. sending.form \in E!Forms
    BY <1>1 DEF Sends
  <2>4. ASSUME NEW i \in DOMAIN book
        PROVE  book'[i] \in Entries /\ E!AddsUp(book'[i].form)
    <3>1. [book[i] EXCEPT !.form = sending.form] \in Entries
          /\ [book[i] EXCEPT !.form = sending.form].form = sending.form
      BY <1>1, <2>3 DEF Entries
    <3> QED BY <1>1, <2>2, <3>1
  <2>5. book' = [i \in 1 .. Len(book) |-> book'[i]]
    BY <1>1, <2>1
  <2>6. book' \in Seq(Entries)
    BY <1>1, <2>4, <2>5
  <2> QED BY <1>1, <1>4, <2>2, <2>4, <2>6
<1> QED BY <1>3, <1>4

\* When a save lands, the sheet that stays open starts from what the server has now.
LEMMA SavedKeeps ==
  ASSUME E!EntryConstants, EntryInv, E!Saved
  PROVE  EntryInv'
<1>1. /\ sending # None /\ sending' = None /\ UNCHANGED <<stencils, asked>>
      /\ E!Commit /\ crossed' = (crossed /\ entry' # None)
      /\ lastDate' = IF entry = None \/ entry.kind = "edit" THEN lastDate ELSE entry.form.date
      /\ entry' = E!Settled(entry, sending.mode)
  BY DEF E!Saved
<1>2. /\ book' \in Seq(Entries) /\ \A i \in DOMAIN book' : E!AddsUp(book'[i].form)
      /\ sending.mode = "new" => /\ DOMAIN book \subseteq DOMAIN book'
                                 /\ \A i \in DOMAIN book : book'[i] = book[i]
                                 /\ \E i \in DOMAIN book' : book'[i].form = sending.form
  BY <1>1, CommitKeeps
<1>3. lastDate' \in Dates \cup {None}
  BY <1>1 DEF EntryInv, EntryTypes, EntrySheets, E!Forms
<1>4. crossed' \in BOOLEAN
  BY <1>1 DEF EntryInv, EntryTypes
<1>5. CASE entry' = None
  BY <1>1, <1>2, <1>3, <1>4, <1>5 DEF EntryInv, EntryTypes, SavesAddUp, SheetIsFollowed
<1>6. CASE entry' # None
  <2> DEFINE f == [entry EXCEPT !.photo = "none", !.attach = FALSE]
  <2>1. entry # None /\ sending.mode # "close" /\ entry' = IF f.keep THEN [f EXCEPT !.baseline = f.form] ELSE E!resetFields(f)
    BY <1>1, <1>6 DEF E!Settled
  <2>2. sending.mode = "new" /\ entry \in EntrySheets
    BY <1>1, <2>1 DEF EntryInv, EntryTypes, Sends
  <2>3. f \in EntrySheets /\ f.form = entry.form /\ f.kind = entry.kind /\ f.id = entry.id
    BY <2>2 DEF EntrySheets
  <2> HIDE DEF f
  <2>4. crossed' = crossed
    BY <1>1, <1>6 DEF EntryInv, EntryTypes
  <2>5. CASE f.keep
    <3>1. entry' = [f EXCEPT !.baseline = f.form]
      BY <2>1, <2>5
    <3>2. entry' \in EntrySheets /\ entry'.kind = entry.kind /\ entry'.id = entry.id /\ entry'.baseline = entry.form
      BY <2>3, <3>1 DEF EntrySheets
    <3>3. ~crossed => Kept(entry.form, book')
      <4>1. ASSUME ~crossed
            PROVE  Kept(entry.form, book')
        <5>1. sending.form = E!Body(entry.form) /\ entry.form \in E!Forms
          BY <1>1, <2>1, <2>2, <4>1 DEF EntryInv, SheetIsFollowed, EntrySheets
        <5>2. PICK i \in DOMAIN book' : book'[i].form = E!Body(entry.form)
          BY <1>2, <2>2, <5>1
        <5>3. E!Body(book'[i].form) = E!Body(entry.form)
          BY <5>1, <5>2, BodyIsForm
        <5> QED BY <5>3 DEF Kept
      <4> QED BY <4>1
    <3> QED BY <1>1, <1>2, <1>3, <1>4, <2>1, <2>4, <3>2, <3>3 DEF EntryInv, EntryTypes, SavesAddUp, SheetIsFollowed
  <2>6. CASE ~f.keep
    <3> DEFINE b == E!Blank(f.form.date)
    <3>1. entry' = [f EXCEPT !.form = b, !.baseline = b, !.template = None]
      BY <2>1, <2>6 DEF E!resetFields
    <3>2. f.form.date \in Dates
      BY <2>3 DEF EntrySheets, E!Forms
    <3>3. b \in E!Forms /\ Kept(b, book')
      BY <3>2, BlankIsForm DEF Kept
    <3> HIDE DEF b
    <3>4. entry' \in EntrySheets /\ entry'.kind = entry.kind /\ entry'.id = entry.id /\ entry'.baseline = b
      BY <2>3, <3>1, <3>3 DEF EntrySheets
    <3> QED BY <1>1, <1>2, <1>3, <1>4, <2>1, <3>3, <3>4 DEF EntryInv, EntryTypes, SavesAddUp, SheetIsFollowed
  <2> QED BY <2>5, <2>6
<1> QED BY <1>5, <1>6

LEMMA SaveFails ==
  ASSUME EntryInv, E!SaveFailed
  PROVE  EntryInv'
<1>1. /\ sending # None /\ sending' = None /\ UNCHANGED <<entry, stencils, asked, lastDate>>
      /\ \/ E!Commit /\ crossed' = (entry # None)
         \/ UNCHANGED <<book, crossed>>
  BY DEF E!SaveFailed
<1>2. CASE E!Commit /\ crossed' = (entry # None)
  <2>1. book' \in Seq(Entries) /\ \A i \in DOMAIN book' : E!AddsUp(book'[i].form)
    BY <1>1, <1>2, CommitKeeps
  <2> QED BY <1>1, <1>2, <2>1 DEF EntryInv, EntryTypes, SavesAddUp, SheetIsFollowed
<1>3. CASE UNCHANGED <<book, crossed>>
  BY <1>1, <1>3 DEF EntryInv, EntryTypes, SavesAddUp, SheetIsFollowed
<1> QED BY <1>1, <1>2, <1>3

\* A helper's answer never touches what the sheet is compared with.
LEMMA AnswerKeeps ==
  ASSUME E!EntryConstants, EntryInv, E!Answered
  PROVE  EntryInv'
<1>1. PICK q \in asked :
        /\ asked' = asked \ {q}
        /\ \/ UNCHANGED entry
           \/ /\ entry # None
              /\ \E a \in Offers[q.kind] :
                   entry' = [entry EXCEPT !.form = E!Filled(@, q, a),
                                          !.photo = IF q.kind = "receipt" /\ @ # "none" THEN "read" ELSE @]
        /\ crossed' = (crossed \/ (sending # None /\ entry' # entry))
        /\ UNCHANGED <<book, stencils, sending, lastDate>>
  BY DEF E!Answered
<1>2. q \in [kind : DOMAIN Offers, saw : E!Forms] /\ crossed' \in BOOLEAN
  BY <1>1 DEF EntryInv, EntryTypes
<1>3. CASE UNCHANGED entry
  BY <1>1, <1>2, <1>3 DEF EntryInv, EntryTypes, SavesAddUp, SheetIsFollowed
<1>4. ASSUME entry # None, NEW a \in Offers[q.kind],
             entry' = [entry EXCEPT !.form = E!Filled(@, q, a),
                                    !.photo = IF q.kind = "receipt" /\ @ # "none" THEN "read" ELSE @]
      PROVE  EntryInv'
  <2> DEFINE f == E!Filled(entry.form, q, a)
             p == IF q.kind = "receipt" /\ entry.photo # "none" THEN "read" ELSE entry.photo
  <2>1. entry \in EntrySheets
    BY <1>4 DEF EntryInv, EntryTypes
  <2>2. f \in E!Forms
    BY <1>2, <2>1, AnsweredIsForm DEF EntrySheets
  <2>3. p \in {"none", "taken", "read"}
    BY <2>1 DEF EntrySheets
  <2>4. entry' = [entry EXCEPT !.form = f, !.photo = p]
    BY <1>4
  <2> HIDE DEF f, p
  <2>5. /\ entry' \in EntrySheets /\ entry'.baseline = entry.baseline
        /\ entry'.kind = entry.kind /\ entry'.id = entry.id
    BY <2>1, <2>2, <2>3, <2>4 DEF EntrySheets
  <2>6. ~crossed' => ~crossed /\ (sending # None => entry' = entry)
    BY <1>1
  <2> QED BY <1>1, <1>2, <1>4, <2>5, <2>6 DEF EntryInv, EntryTypes, SavesAddUp, SheetIsFollowed
<1> QED BY <1>1, <1>3, <1>4

LEMMA EntrySteps ==
  ASSUME E!EntryConstants
  PROVE  EntryInv /\ [E!Next]_(E!vars) => EntryInv'
<1> SUFFICES ASSUME EntryInv, [E!Next]_(E!vars)
             PROVE  EntryInv'
  OBVIOUS
<1>1. CASE UNCHANGED E!vars
  BY <1>1 DEF E!vars, EntryInv, EntryTypes, SavesAddUp, SheetIsFollowed
<1>2. CASE \E mode \in {"close", "new"} : E!Press(mode)
  BY <1>2, SubmitKeeps DEF E!Press
<1>3. CASE \E shift \in BOOLEAN : E!onEnter(shift)
  BY <1>3, SubmitKeeps DEF E!onEnter
<1>4. CASE \E agreed \in BOOLEAN : E!requestClose(agreed)
  <2>1. entry' = None /\ UNCHANGED <<book, stencils, sending, asked, lastDate>> /\ crossed' \in BOOLEAN
    BY <1>4 DEF E!requestClose, EntryInv, EntryTypes
  <2> QED BY <2>1 DEF EntryInv, EntryTypes, SavesAddUp, SheetIsFollowed
<1>5. ASSUME NEW kind \in DOMAIN Offers, E!Ask(kind)
      PROVE  EntryInv'
  <2>1. /\ entry # None /\ asked' = asked \cup {[kind |-> kind, saw |-> entry.form]}
        /\ UNCHANGED <<entry, book, stencils, sending, lastDate, crossed>>
    BY <1>5 DEF E!Ask
  <2>2. asked' \subseteq [kind : DOMAIN Offers, saw : E!Forms]
    BY <2>1 DEF EntryInv, EntryTypes, EntrySheets
  <2> QED BY <2>1, <2>2 DEF EntryInv, EntryTypes, SavesAddUp, SheetIsFollowed
<1> QED BY <1>1, <1>2, <1>3, <1>4, <1>5, EntryOpens, HandKeeps, TemplateKeeps, SavedKeeps, SaveFails, AnswerKeeps
           DEF E!Next

LEMMA EntriesHold ==
  ASSUME E!EntryConstants
  PROVE  E!Spec => []EntryInv
<1>1. E!Init => EntryInv
  BY EntryStarts
<1>2. EntryInv /\ [E!Next]_(E!vars) => EntryInv'
  BY EntrySteps
<1> QED BY <1>1, <1>2, PTL DEF E!Spec

\* The sheet of a transaction (TransactionForm.tsx), in every interleaving of saves, failures
\* and helpers' answers: what it, a save and the rows hold are entries of the account's lists,
\* and a row that was saved split has no category of its own and parts that add up to it.
THEOREM EntriesAddUp ==
  ASSUME E!EntryConstants
  PROVE  E!Spec => []E!TypeOK
<1>1. EntryInv => E!TypeOK
  <2> SUFFICES ASSUME EntryInv
               PROVE  E!TypeOK
    OBVIOUS
  <2>1. entry # None => entry.form \in E!Forms /\ entry.baseline \in E!Forms
    BY DEF EntryInv, EntryTypes, EntrySheets
  <2>2. ASSUME NEW i \in DOMAIN book
        PROVE  book[i].form \in E!Forms /\ E!AddsUp(book[i].form) /\ book[i].account \in Accounts
    <3>1. book \in Seq(Entries) /\ E!AddsUp(book[i].form)
      BY DEF EntryInv, EntryTypes, SavesAddUp
    <3>2. book[i] \in Entries
      BY <3>1
    <3> QED BY <3>1, <3>2 DEF Entries
  <2>3. lastDate \in Dates \cup {None}
    BY DEF EntryInv, EntryTypes
  <2> QED BY <2>1, <2>2, <2>3 DEF E!TypeOK
<1> QED BY <1>1, EntriesHold, PTL

\* A sheet that may close without a question (TransactionForm.tsx, snapshot and requestClose) is
\* blank or reads as a row of the server's, unless it was filled or opened while a save was on
\* its way.
THEOREM QuietSheetsLoseNothing ==
  ASSUME E!EntryConstants
  PROVE  E!Spec => []E!QuietSheetHasNothingUnsaved
<1>1. EntryInv => E!QuietSheetHasNothingUnsaved
  BY DEF EntryInv, SheetIsFollowed, Kept, E!dirty, E!QuietSheetHasNothingUnsaved
<1> QED BY <1>1, EntriesHold, PTL

\* What the rules suggest (TransactionForm.tsx, runSuggest) leaves the payee and the category that
\* were there when they were asked, and takes no tag away that they were shown.
THEOREM SuggestionsSpareChoices ==
  ASSUME E!EntryConstants
  PROVE  E!Spec => [][E!SparesWhatItSaw]_(E!vars)
<1>1. ASSUME EntryInv, E!Answered
      PROVE  E!SparesWhatItSaw
  <2>1. PICK q \in asked :
          /\ asked' = asked \ {q}
          /\ \/ UNCHANGED entry
             \/ /\ entry # None
                /\ \E a \in Offers[q.kind] :
                     entry' = [entry EXCEPT !.form = E!Filled(@, q, a),
                                            !.photo = IF q.kind = "receipt" /\ @ # "none" THEN "read" ELSE @]
    BY <1>1 DEF E!Answered
  <2>2. asked \ asked' = {q}
    BY <2>1
  <2>3. ASSUME q.kind = "rules", entry # None
        PROVE  /\ entry'.form.payee # entry.form.payee => q.saw.payee = None
               /\ entry'.form.category # entry.form.category => q.saw.category = None
               /\ q.saw.tags \cap entry.form.tags \subseteq entry'.form.tags
    <3>1. entry.form \in E!Forms /\ entry \in EntrySheets
      BY <1>1, <2>3 DEF EntryInv, EntryTypes, EntrySheets
    <3>2. CASE UNCHANGED entry
      BY <3>2
    <3>3. ASSUME NEW a \in Offers[q.kind],
                 entry' = [entry EXCEPT !.form = E!Filled(@, q, a),
                                        !.photo = IF q.kind = "receipt" /\ @ # "none" THEN "read" ELSE @]
          PROVE  /\ entry'.form.payee # entry.form.payee => q.saw.payee = None
                 /\ entry'.form.category # entry.form.category => q.saw.category = None
                 /\ q.saw.tags \cap entry.form.tags \subseteq entry'.form.tags
      <4> DEFINE f == E!ByRules(entry.form, q.saw, a)
      <4>1. E!Filled(entry.form, q, a) = f
        BY <2>3 DEF E!Filled
      <4>2. /\ f.payee # entry.form.payee => q.saw.payee = None
            /\ f.category # entry.form.category => q.saw.category = None
            /\ q.saw.tags \cap entry.form.tags \subseteq f.tags
        BY <3>1 DEF E!ByRules, E!Forms
      <4> HIDE DEF f
      <4>3. entry'.form = f
        BY <3>1, <3>3, <4>1 DEF EntrySheets
      <4> QED BY <4>2, <4>3
    <3> QED BY <2>1, <2>3, <3>2, <3>3
  <2> QED BY <2>2, <2>3 DEF E!SparesWhatItSaw
<1>2. EntryInv /\ [E!Next]_(E!vars) => [E!SparesWhatItSaw]_(E!vars)
  <2> SUFFICES ASSUME EntryInv, E!Next
               PROVE  E!SparesWhatItSaw
    OBVIOUS
  <2>1. CASE E!Answered
    BY <1>1, <2>1
  <2>2. CASE ~E!Answered
    <3>1. asked \subseteq asked'
      BY <2>2 DEF E!Next, E!Open, E!Type, E!TypeSplit, E!SetAccount, E!KeepFields, E!applyTemplate, E!Photo,
                  E!Touch, E!Press, E!onEnter, E!submit, E!saveTemplate, E!Saved, E!SaveFailed,
                  E!requestClose, E!Ask
    <3> QED BY <3>1 DEF E!SparesWhatItSaw
  <2> QED BY <2>1, <2>2
<1> QED BY <1>2, EntriesHold, PTL DEF E!Spec

(***************************************************************************)
(* RegisterView: the filters of a register, in its address and in this      *)
(* browser's storage, and the chips that clear them, for any rows, links,   *)
(* texts and choices.                                                       *)
(***************************************************************************)
CONSTANTS Ledger, Children, Trim, Offered, Links, OtherKeys, Columns
VARIABLE sort

V == INSTANCE RegisterView

Keys == {"dp", "df", "dt", "st", "pe", "cat", "tg", "amin", "amax", "q", "hf", "xf", "nf", "unc"}

\* Filters as records of their fields, whatever those hold.
Fields14 == {"preset", "from", "to", "status", "payeeId", "categoryId", "tags", "amountMin", "amountMax",
             "text", "hideFuture", "transfers", "noFlags", "uncategorised"}
IsFilters(f) == f = [x \in Fields14 |-> f[x]] /\ V!Readable(f)

\* What filters say of a row, once written in the address and read back.
Alike(f, g) ==
  /\ g.preset = f.preset /\ (f.preset = "custom" => g.from = f.from /\ g.to = f.to)
  /\ g.status = f.status /\ g.payeeId = f.payeeId /\ g.categoryId = f.categoryId /\ g.tags = f.tags
  /\ g.amountMin = f.amountMin /\ g.amountMax = f.amountMax /\ Trim[g.text] = Trim[f.text]
  /\ g.hideFuture = f.hideFuture /\ g.transfers = f.transfers /\ g.noFlags = f.noFlags
  /\ g.uncategorised = f.uncategorised

LEMMA ReadBack ==
  ASSUME V!ViewConstants, NEW f, V!Readable(f)
  PROVE  Alike(f, V!parseFilters(V!filtersToParams(f))) /\ V!Readable(V!parseFilters(V!filtersToParams(f)))
<1> DEFINE p == V!filtersToParams(f)
           v == [dp |-> f.preset, df |-> f.from, dt |-> f.to, st |-> f.status, pe |-> f.payeeId,
                 cat |-> f.categoryId, tg |-> f.tags, amin |-> f.amountMin, amax |-> f.amountMax,
                 q |-> Trim[f.text], hf |-> f.hideFuture, xf |-> f.transfers, nf |-> f.noFlags,
                 unc |-> f.uncategorised]
<1>1. p = [key \in { k \in DOMAIN V!Unwritten : v[k] # V!Unwritten[k] /\ (k \in {"df", "dt"} => f.preset = "custom") }
             |-> v[key]]
  BY DEF V!filtersToParams
<1>2. DOMAIN V!Unwritten = Keys
  BY DEF V!Unwritten, Keys
<1> HIDE DEF p
<1>3. \A key \in Keys : (key \in {"df", "dt"} => f.preset = "custom") => V!Field(p, key) = v[key]
  BY <1>1, <1>2 DEF V!Field
<1>4. /\ V!Field(p, "dp") = f.preset /\ V!Field(p, "st") = f.status /\ V!Field(p, "pe") = f.payeeId
      /\ V!Field(p, "cat") = f.categoryId /\ V!Field(p, "tg") = f.tags /\ V!Field(p, "amin") = f.amountMin
      /\ V!Field(p, "amax") = f.amountMax /\ V!Field(p, "q") = Trim[f.text] /\ V!Field(p, "hf") = f.hideFuture
      /\ V!Field(p, "xf") = f.transfers /\ V!Field(p, "nf") = f.noFlags /\ V!Field(p, "unc") = f.uncategorised
      /\ f.preset = "custom" => V!Field(p, "df") = f.from /\ V!Field(p, "dt") = f.to
  BY <1>3 DEF Keys
<1> HIDE DEF v
<1>5. Alike(f, V!parseFilters(p)) /\ V!Readable(V!parseFilters(p))
  BY <1>4 DEF Alike, V!parseFilters, V!Readable, V!ViewConstants
<1> QED BY <1>5 DEF p

\* Filters that say the same keep the same rows.
LEMMA AlikeKeepTheSame ==
  ASSUME NEW f, NEW g, Alike(f, g), NEW r
  PROVE  V!Keeps(g, r) = V!Keeps(f, r)
<1>1. V!MonthsInto(g.preset, V!MonthOf(Today)) = V!MonthsInto(f.preset, V!MonthOf(Today))
  BY DEF Alike
<1>2. V!dateBounds(g, Today) = V!dateBounds(f, Today)
  <2>1. CASE f.preset = "custom"
    BY <2>1, <1>1 DEF Alike, V!dateBounds
  <2>2. CASE f.preset # "custom"
    BY <2>2, <1>1 DEF Alike, V!dateBounds
  <2> QED BY <2>1, <2>2
<1> QED BY <1>2 DEF Alike, V!Keeps

\* The other keys of an address are not the filters'.
LEMMA OthersDoNotCount ==
  ASSUME V!ViewConstants, NEW u, NEW p, DOMAIN p \cap OtherKeys = {}
  PROVE  /\ V!parseFilters(V!withFilters(u, p)) = V!parseFilters(p)
         /\ \A k \in OtherKeys : k \in DOMAIN u => /\ k \in DOMAIN V!withFilters(u, p)
                                                   /\ V!withFilters(u, p)[k] = u[k]
<1>1. \A key \in Keys : V!Field(V!withFilters(u, p), key) = V!Field(p, key)
  BY DEF V!Field, V!withFilters, V!ViewConstants, V!Unwritten, Keys
<1>2. V!parseFilters(V!withFilters(u, p)) = V!parseFilters(p)
  BY <1>1 DEF V!parseFilters, Keys
<1>3. \A k \in OtherKeys : k \in DOMAIN u => /\ k \in DOMAIN V!withFilters(u, p)
                                             /\ V!withFilters(u, p)[k] = u[k]
  BY DEF V!withFilters
<1> QED BY <1>2, <1>3

LEMMA WrittenKeys ==
  ASSUME V!ViewConstants, NEW f
  PROVE  DOMAIN V!filtersToParams(f) \cap OtherKeys = {}
BY DEF V!filtersToParams, V!ViewConstants

\* The filters chosen last are in the storage, or nothing is there, and the page can read those
\* of the address.
ViewInv ==
  /\ IsFilters(chosen)
  /\ V!Readable(V!filters)
  /\ DOMAIN saved # {} => saved = V!filtersToParams(chosen)
  /\ sort = None \/ sort.id \in Columns

LEMMA EmptyIsReadable ==
  ASSUME V!ViewConstants
  PROVE  IsFilters(V!emptyFilters)
BY DEF V!ViewConstants, V!emptyFilters, IsFilters, V!Readable, V!Presets, Fields14

\* Filters set are stored and put in the address.
LEMMA SetKeeps ==
  ASSUME V!ViewConstants, NEW f, IsFilters(f), V!SetFilters(f)
  PROVE  /\ IsFilters(chosen') /\ V!Readable(V!filters')
         /\ saved' = V!filtersToParams(chosen')
<1>1. url' = V!withFilters(url, V!filtersToParams(f)) /\ saved' = V!filtersToParams(f) /\ chosen' = f
  BY DEF V!SetFilters
<1>2. V!filters' = V!parseFilters(V!filtersToParams(f))
  BY <1>1, WrittenKeys, OthersDoNotCount DEF V!filters
<1>3. V!Readable(V!filters')
  BY <1>2, ReadBack DEF IsFilters
<1> QED BY <1>1, <1>3

\* What the address says are filters, field by field.
LEMMA FiltersAreFilters ==
  ASSUME V!Readable(V!filters)
  PROVE  IsFilters(V!filters)
BY DEF V!filters, V!parseFilters, IsFilters, Fields14

\* One field given another value it may have.
LEMMA OneFieldSet ==
  ASSUME V!ViewConstants, NEW f, IsFilters(f), NEW field \in Fields14, NEW v,
         V!Readable([V!emptyFilters EXCEPT ![field] = v])
  PROVE  IsFilters([f EXCEPT ![field] = v])
<1> DEFINE g == [f EXCEPT ![field] = v]
           e == [V!emptyFilters EXCEPT ![field] = v]
<1>1. g = [x \in Fields14 |-> IF x = field THEN v ELSE f[x]]
  BY DEF IsFilters
<1>2. e = [x \in Fields14 |-> IF x = field THEN v ELSE V!emptyFilters[x]]
  BY DEF V!emptyFilters, Fields14
<1> HIDE DEF g, e
<1>3. g.text = (IF "text" = field THEN v ELSE f.text) /\ e.text = (IF "text" = field THEN v ELSE V!emptyFilters.text)
      /\ g.preset = (IF "preset" = field THEN v ELSE f.preset)
      /\ e.preset = (IF "preset" = field THEN v ELSE V!emptyFilters.preset)
      /\ g.hideFuture = (IF "hideFuture" = field THEN v ELSE f.hideFuture)
      /\ e.hideFuture = (IF "hideFuture" = field THEN v ELSE V!emptyFilters.hideFuture)
      /\ g.noFlags = (IF "noFlags" = field THEN v ELSE f.noFlags)
      /\ e.noFlags = (IF "noFlags" = field THEN v ELSE V!emptyFilters.noFlags)
      /\ g.uncategorised = (IF "uncategorised" = field THEN v ELSE f.uncategorised)
      /\ e.uncategorised = (IF "uncategorised" = field THEN v ELSE V!emptyFilters.uncategorised)
  BY <1>1, <1>2 DEF Fields14
<1>4. V!Readable(e)
  BY DEF e
<1>5. V!Readable(g)
  BY <1>3, <1>4 DEF V!Readable, IsFilters
<1>6. g = [x \in Fields14 |-> g[x]]
  BY <1>1
<1> QED BY <1>5, <1>6 DEF g, IsFilters

\* Some fields put back as they were at first leave filters.
LEMMA ResetIsFilters ==
  ASSUME V!ViewConstants, NEW f, IsFilters(f), NEW some
  PROVE  IsFilters([x \in DOMAIN f |-> IF x \in some THEN V!emptyFilters[x] ELSE f[x]])
<1> DEFINE g == [x \in DOMAIN f |-> IF x \in some THEN V!emptyFilters[x] ELSE f[x]]
<1>1. DOMAIN f = Fields14
  BY DEF IsFilters
<1>2. g = [x \in Fields14 |-> IF x \in some THEN V!emptyFilters[x] ELSE f[x]]
  BY <1>1
<1> HIDE DEF g
<1>3. \A x \in Fields14 : g[x] \in {V!emptyFilters[x], f[x]}
  BY <1>2
<1>4. g.preset \in {V!emptyFilters.preset, f.preset} /\ g.text \in {V!emptyFilters.text, f.text}
      /\ g.hideFuture \in {V!emptyFilters.hideFuture, f.hideFuture} /\ g.noFlags \in {V!emptyFilters.noFlags, f.noFlags}
      /\ g.uncategorised \in {V!emptyFilters.uncategorised, f.uncategorised}
  BY <1>3 DEF Fields14
<1>5. V!Readable(V!emptyFilters) /\ V!Readable(f)
  BY EmptyIsReadable DEF IsFilters
<1>6. V!Readable(g)
  BY <1>4, <1>5 DEF V!Readable
<1>7. g = [x \in Fields14 |-> g[x]]
  BY <1>2
<1> QED BY <1>6, <1>7 DEF g, IsFilters

\* The fields of a facet, no two of which share one.
LEMMA FacetsApart ==
  /\ \A k \in V!Facets : V!FieldsOf(k) \subseteq Fields14
  /\ \A k, l \in V!Facets : \A x \in V!FieldsOf(k) : x \in V!FieldsOf(l) => k = l
<1>1. /\ V!FieldsOf("preset") = {"preset", "from", "to"} /\ V!FieldsOf("payee") = {"payeeId"}
      /\ V!FieldsOf("category") = {"categoryId"}
  BY DEF V!FieldsOf
<1>2. \A k \in V!Facets : k \notin {"preset", "payee", "category"} => V!FieldsOf(k) = {k}
  BY DEF V!FieldsOf
<1>3. \A k \in V!Facets : V!FieldsOf(k) \subseteq Fields14
  BY <1>1, <1>2 DEF V!Facets, Fields14
<1>4. ASSUME NEW k \in V!Facets, NEW x \in V!FieldsOf(k)
      PROVE  k = IF x \in {"from", "to"} THEN "preset" ELSE IF x = "payeeId" THEN "payee"
                 ELSE IF x = "categoryId" THEN "category" ELSE x
  <2>1. CASE k \in {"preset", "payee", "category"}
    BY <1>1, <1>4, <2>1
  <2>2. CASE k \notin {"preset", "payee", "category"}
    BY <1>2, <1>4, <2>2 DEF V!Facets
  <2> QED BY <2>1, <2>2
<1>5. ASSUME NEW k \in V!Facets, NEW l \in V!Facets, NEW x \in V!FieldsOf(k), x \in V!FieldsOf(l)
      PROVE  k = l
  BY <1>4, <1>5
<1> QED BY <1>3, <1>5

\* Whether a facet is on depends on its own fields, and at first none is.
LEMMA FacetsByTheirFields ==
  ASSUME V!ViewConstants, NEW f, NEW g, NEW k \in V!Facets
  PROVE  /\ (\A x \in V!FieldsOf(k) : g[x] = f[x]) => V!IsOn(g, k) = V!IsOn(f, k)
         /\ (\A x \in V!FieldsOf(k) : g[x] = V!emptyFilters[x]) => ~V!IsOn(g, k)
<1>1. CASE k = "preset"
  BY <1>1 DEF V!IsOn, V!FieldsOf, V!emptyFilters
<1>2. CASE k = "text"
  BY <1>2 DEF V!IsOn, V!FieldsOf, V!emptyFilters, V!ViewConstants
<1>3. CASE k # "preset" /\ k # "text"
  BY <1>3 DEF V!IsOn
<1> QED BY <1>1, <1>2, <1>3

\* A chip clears its own facet and no other.
LEMMA ChipClearsItsOwn ==
  ASSUME V!ViewConstants, NEW f, IsFilters(f), NEW facet \in V!Facets
  PROVE  V!activeFilters(V!clear(f, facet)) = V!activeFilters(f) \ {facet}
<1> DEFINE g == V!clear(f, facet)
<1>1. \A x \in Fields14 : g[x] = IF x \in V!FieldsOf(facet) THEN V!emptyFilters[x] ELSE f[x]
  BY DEF V!clear, IsFilters
<1> HIDE DEF g
<1>2. ASSUME NEW k \in V!Facets
      PROVE  V!IsOn(g, k) <=> (V!IsOn(f, k) /\ k # facet)
  <2>1. CASE k = facet
    <3>1. \A x \in V!FieldsOf(k) : g[x] = V!emptyFilters[x]
      BY <1>1, <2>1, FacetsApart
    <3> QED BY <2>1, <3>1, FacetsByTheirFields
  <2>2. CASE k # facet
    <3>1. \A x \in V!FieldsOf(k) : g[x] = f[x]
      BY <1>1, <2>2, FacetsApart
    <3>2. V!IsOn(g, k) = V!IsOn(f, k)
      BY <3>1, FacetsByTheirFields
    <3> QED BY <2>2, <3>2
  <2> QED BY <2>1, <2>2
<1>3. V!activeFilters(g) = V!activeFilters(f) \ {facet}
  BY <1>2 DEF V!activeFilters
<1> QED BY <1>3 DEF g

\* All of them cleared hide nothing.
LEMMA AllClearedHideNothing ==
  ASSUME V!ViewConstants, NEW f, IsFilters(f), NEW r
  PROVE  V!Keeps(V!clearedFacets(f), r)
<1> DEFINE g == V!clearedFacets(f)
<1>1. \A x \in Fields14 : g[x] = IF \E k \in V!activeFilters(f) : x \in V!FieldsOf(k)
                                   THEN V!emptyFilters[x] ELSE f[x]
  BY DEF V!clearedFacets, IsFilters
<1> HIDE DEF g
<1>2. ASSUME NEW k \in V!Facets, NEW x \in V!FieldsOf(k), V!IsOn(f, k)
      PROVE  g[x] = V!emptyFilters[x]
  BY <1>1, <1>2, FacetsApart DEF V!activeFilters
<1>3. ASSUME NEW k \in V!Facets \ {"text", "preset"}, NEW x \in V!FieldsOf(k)
      PROVE  g[x] = V!emptyFilters[x]
  <2>1. CASE V!IsOn(f, k)
    BY <1>2, <2>1
  <2>2. CASE ~V!IsOn(f, k)
    <3>1. f[x] = V!emptyFilters[x]
      BY <2>2 DEF V!IsOn
    <3>2. x \in Fields14
      BY FacetsApart
    <3> QED BY <1>1, <3>1, <3>2
  <2> QED BY <2>1, <2>2
<1>4. g.preset = "all"
  <2>1. "preset" \in V!Facets /\ "preset" \in V!FieldsOf("preset") /\ V!emptyFilters["preset"] = "all" /\ "preset" \in Fields14
    BY DEF V!Facets, V!FieldsOf, V!emptyFilters, Fields14
  <2>2. CASE V!IsOn(f, "preset")
    BY <1>2, <2>1, <2>2
  <2>3. CASE ~V!IsOn(f, "preset")
    BY <1>1, <2>1, <2>3 DEF V!IsOn
  <2> QED BY <2>2, <2>3
<1>5. Trim[g.text] = ""
  <2>1. "text" \in V!Facets /\ "text" \in V!FieldsOf("text") /\ V!emptyFilters["text"] = "" /\ "text" \in Fields14 /\ Trim[""] = ""
    BY DEF V!Facets, V!FieldsOf, V!emptyFilters, Fields14, V!ViewConstants
  <2>2. CASE V!IsOn(f, "text")
    BY <1>2, <2>1, <2>2
  <2>3. CASE ~V!IsOn(f, "text")
    BY <1>1, <2>1, <2>3 DEF V!IsOn
  <2> QED BY <2>2, <2>3
<1>6. /\ g.status = None /\ g.payeeId = None /\ g.categoryId = None /\ g.tags = {} /\ g.amountMin = None
      /\ g.amountMax = None /\ g.hideFuture = FALSE /\ g.transfers = "all" /\ g.noFlags = FALSE
      /\ g.uncategorised = FALSE
  <2>1. \A x \in {"status", "payeeId", "categoryId", "tags", "amountMin", "amountMax", "hideFuture", "transfers",
                  "noFlags", "uncategorised"} : \E k \in V!Facets \ {"text", "preset"} : x \in V!FieldsOf(k)
    <3>1. \A k \in {"status", "tags", "amountMin", "amountMax", "hideFuture", "transfers", "noFlags", "uncategorised"} :
             k \in V!Facets \ {"text", "preset"} /\ k \in V!FieldsOf(k)
      BY DEF V!Facets, V!FieldsOf
    <3>2. /\ "payee" \in V!Facets \ {"text", "preset"} /\ "payeeId" \in V!FieldsOf("payee")
          /\ "category" \in V!Facets \ {"text", "preset"} /\ "categoryId" \in V!FieldsOf("category")
      BY DEF V!Facets, V!FieldsOf
    <3> QED BY <3>1, <3>2
  <2>2. \A x \in {"status", "payeeId", "categoryId", "tags", "amountMin", "amountMax", "hideFuture", "transfers",
                  "noFlags", "uncategorised"} : g[x] = V!emptyFilters[x]
    BY <1>3, <2>1
  <2> QED BY <2>2 DEF V!emptyFilters
<1>7. V!dateBounds(g, Today).from = None /\ V!dateBounds(g, Today).to = None
  BY <1>4 DEF V!dateBounds
<1>8. V!Keeps(g, r)
  BY <1>5, <1>6, <1>7 DEF V!Keeps
<1> QED BY <1>8 DEF g

LEMMA ViewStarts ==
  ASSUME V!ViewConstants
  PROVE  V!Init => ViewInv
<1> SUFFICES ASSUME V!Init
             PROVE  ViewInv
  OBVIOUS
<1>1. url \in Links /\ saved = << >> /\ sort = None /\ chosen = V!emptyFilters
  BY DEF V!Init
<1>2. DOMAIN saved = {}
  BY <1>1
<1>3. V!Readable(V!filters)
  BY <1>1 DEF V!ViewConstants, V!filters
<1> QED BY <1>1, <1>2, <1>3, EmptyIsReadable DEF ViewInv

LEMMA ViewSteps ==
  ASSUME V!ViewConstants
  PROVE  ViewInv /\ [V!Next]_(V!vars) => ViewInv'
<1> SUFFICES ASSUME ViewInv, [V!Next]_(V!vars)
             PROVE  ViewInv'
  OBVIOUS
<1>1. IsFilters(V!filters) /\ IsFilters(chosen)
  BY FiltersAreFilters DEF ViewInv
<1>2. ASSUME NEW f, IsFilters(f), V!SetFilters(f)
      PROVE  ViewInv'
  BY <1>2, SetKeeps DEF ViewInv, V!SetFilters
<1>3. ASSUME NEW field \in DOMAIN Offered, V!Choose(field)
      PROVE  ViewInv'
  <2>1. PICK v \in Offered[field] : V!SetFilters([V!filters EXCEPT ![field] = v])
    BY <1>3 DEF V!Choose
  <2>2. field \in Fields14 /\ V!Readable([V!emptyFilters EXCEPT ![field] = v])
    <3>1. DOMAIN V!emptyFilters = Fields14
      BY DEF V!emptyFilters, Fields14
    <3> QED BY <3>1 DEF V!ViewConstants
  <2>3. IsFilters([V!filters EXCEPT ![field] = v])
    BY <1>1, <2>2, OneFieldSet
  <2> QED BY <1>2, <2>1, <2>3
<1>4. CASE V!RemoveChip
  <2>1. PICK facet \in V!activeFilters(V!filters) : V!SetFilters(V!clear(V!filters, facet))
    BY <1>4 DEF V!RemoveChip
  <2>2. IsFilters(V!clear(V!filters, facet))
    BY <1>1, ResetIsFilters DEF V!clear
  <2> QED BY <1>2, <2>1, <2>2
<1>5. CASE V!ClearAll
  <2> DEFINE some == {x \in Fields14 : \E facet \in V!activeFilters(V!filters) : x \in V!FieldsOf(facet)}
  <2>1. V!clearedFacets(V!filters) = [x \in DOMAIN V!filters |-> IF x \in some THEN V!emptyFilters[x] ELSE V!filters[x]]
    BY <1>1 DEF V!clearedFacets, IsFilters
  <2> HIDE DEF some
  <2>2. IsFilters(V!clearedFacets(V!filters))
    BY <1>1, <2>1, ResetIsFilters
  <2> QED BY <1>2, <1>5, <2>2 DEF V!ClearAll
<1>6. CASE V!ShowHidden
  BY <1>2, <1>6, EmptyIsReadable DEF V!ShowHidden
<1>7. CASE V!Open
  <2>1. PICK visit \in Links : url' = V!Restored(visit) /\ UNCHANGED <<saved, sort, chosen>>
    BY <1>7 DEF V!Open
  <2>2. CASE url' = visit
    BY <2>1, <2>2 DEF ViewInv, V!filters, V!ViewConstants
  <2>3. CASE url' = V!withFilters(visit, saved) /\ DOMAIN saved # {}
    <3>1. saved = V!filtersToParams(chosen)
      BY <2>3 DEF ViewInv
    <3>2. V!filters' = V!parseFilters(V!filtersToParams(chosen))
      BY <2>3, <3>1, WrittenKeys, OthersDoNotCount DEF V!filters
    <3>3. V!Readable(V!filters')
      BY <1>1, <3>2, ReadBack DEF IsFilters
    <3> QED BY <2>1, <3>3 DEF ViewInv
  <2> QED BY <2>1, <2>2, <2>3 DEF V!Restored
<1>8. ASSUME NEW col \in Columns, V!ToggleSort(col)
      PROVE  ViewInv'
  <2>1. UNCHANGED <<url, saved, chosen>> /\ (sort' = None \/ sort'.id \in Columns)
    BY <1>8 DEF V!ToggleSort
  <2> QED BY <2>1 DEF ViewInv, V!filters
<1>9. CASE UNCHANGED V!vars
  BY <1>9 DEF V!vars, ViewInv, V!filters
<1> QED BY <1>3, <1>4, <1>5, <1>6, <1>7, <1>8, <1>9 DEF V!Next

LEMMA ViewHolds ==
  ASSUME V!ViewConstants
  PROVE  V!Spec => []ViewInv
<1>1. V!Init => ViewInv
  BY ViewStarts
<1>2. ViewInv /\ [V!Next]_(V!vars) => ViewInv'
  BY ViewSteps
<1> QED BY <1>1, <1>2, PTL DEF V!Spec

\* The filters of a register (registerFilterModel.ts, filtersToParams and parseFilters;
\* TransactionsPage.tsx), for any rows, links and texts: written in the address and read back,
\* or put back from this browser's storage, they keep the rows they kept.
THEOREM FiltersComeBack ==
  ASSUME V!ViewConstants
  PROVE  V!Spec => [](V!TypeOK /\ V!ComingBackShowsTheSame)
<1>1. ViewInv => V!TypeOK /\ V!ComingBackShowsTheSame
  <2> SUFFICES ASSUME ViewInv
               PROVE  V!TypeOK /\ V!ComingBackShowsTheSame
    OBVIOUS
  <2>1. DOMAIN saved \cap OtherKeys = {}
    BY WrittenKeys DEF ViewInv
  <2>2. V!TypeOK
    BY <2>1 DEF V!TypeOK, ViewInv, V!Readable, V!activeFilters
  <2>3. ASSUME NEW f, V!Readable(f), NEW i \in DOMAIN Ledger
        PROVE  V!Keeps(V!parseFilters(V!filtersToParams(f)), Ledger[i]) = V!Keeps(f, Ledger[i])
    BY <2>3, ReadBack, AlikeKeepTheSame
  <2>4. ASSUME NEW visit \in Links, DOMAIN visit = {}, DOMAIN saved # {}
        PROVE  V!parseFilters(V!Restored(visit)) = V!parseFilters(V!filtersToParams(chosen))
    <3>1. V!parseFilters(visit) = V!emptyFilters
      BY <2>4 DEF V!parseFilters, V!Field, V!Unwritten, V!emptyFilters
    <3>2. V!activeFilters(V!parseFilters(visit)) = {}
      BY <3>1, FacetsByTheirFields DEF V!activeFilters
    <3>3. V!Restored(visit) = V!withFilters(visit, saved)
      BY <2>4, <3>2 DEF V!Restored
    <3>4. saved = V!filtersToParams(chosen)
      BY <2>4 DEF ViewInv
    <3> QED BY <2>1, <3>3, <3>4, OthersDoNotCount
  <2>5. V!Readable(chosen) /\ V!Readable(V!filters)
    BY DEF ViewInv, IsFilters
  <2>6. V!ComingBackShowsTheSame
    BY <2>3, <2>4, <2>5 DEF V!ComingBackShowsTheSame
  <2> QED BY <2>2, <2>6
<1> QED BY <1>1, ViewHolds, PTL

\* A chip of the register (registerFilterModel.ts, activeFilters; registerChips.ts) clears its own
\* facet and no other, and clearing them all hides no row.
THEOREM ChipsClearTheirOwn ==
  ASSUME V!ViewConstants
  PROVE  V!Spec => []V!ChipsArePrecise
<1>1. ViewInv => V!ChipsArePrecise
  <2> SUFFICES ASSUME ViewInv
               PROVE  V!ChipsArePrecise
    OBVIOUS
  <2>1. IsFilters(V!filters) /\ V!activeFilters(V!filters) \subseteq V!Facets
    BY FiltersAreFilters DEF ViewInv, V!activeFilters
  <2> QED BY <2>1, ChipClearsItsOwn, AllClearedHideNothing DEF V!ChipsArePrecise
<1> QED BY <1>1, ViewHolds, PTL

\* Filtering keeps what else the address says: the account, ?txn= and ?new=1, which holds the
\* entry sheet open (TransactionsPage.tsx, setFilters).
THEOREM OtherKeysAreSpared ==
  ASSUME V!ViewConstants
  PROVE  V!Spec => [][V!SparesOtherKeys]_(V!vars)
<1>1. V!Next => V!SparesOtherKeys
  <2>1. ASSUME NEW f, V!SetFilters(f)
        PROVE  V!SparesOtherKeys
    <3>1. url' = V!withFilters(url, V!filtersToParams(f))
      BY <2>1 DEF V!SetFilters
    <3> QED BY <3>1, WrittenKeys, OthersDoNotCount DEF V!SparesOtherKeys
  <2>2. CASE V!Open
    BY <2>2 DEF V!Open, V!SparesOtherKeys
  <2>3. CASE \E col \in Columns : V!ToggleSort(col)
    BY <2>3 DEF V!ToggleSort, V!SparesOtherKeys
  <2> QED BY <2>1, <2>2, <2>3 DEF V!Next, V!Choose, V!RemoveChip, V!ClearAll, V!ShowHidden
<1> QED BY <1>1, PTL DEF V!Spec
=============================================================================
