----------------------------- MODULE Addresses -----------------------------
(***************************************************************************)
(* A person's address on one notification channel: the server's SaveChannel,*)
(* ResendCode, ConfirmChannel and linkTelegram (server: notify/channels.go, *)
(* proof.go), and the card that calls them (web:                            *)
(* NotificationChannelCards.tsx).                                           *)
(*                                                                         *)
(* An address reached through the installation's own mail server or bots    *)
(* sends nothing until the code sent to it comes back. A handler reads the  *)
(* row, does its sending, and writes later: two of them may overlap.        *)
(***************************************************************************)
EXTENDS Integers, FiniteSets

CONSTANTS
  Channels,     \* the channels a behaviour may be of
  Targets,      \* mail addresses, rooms, chats, topics or URLs
  Overlap,      \* whether two requests of this person may be served at once
  codeTries,    \* how many times a code may be typed
  MaxCodes,     \* bound: codes sent
  MaxCalls,     \* bound: calls made
  None

VARIABLES
  ch,           \* the channel
  row,          \* the server's row: [target, own, secret, verified, code, tries, late], or None
  sentTo,       \* code -> the address it was sent to, None for one not sent
  proven,       \* the addresses whose code came back (only a property reads it)
  calls,        \* requests: [no, kind, body, stage, old, code]
  seen,         \* the cached state: [target, own, secret, pending], or None: not set up
  form,         \* what was typed: [mode, target, secret], None as saved
  typed,        \* the code being typed, None when blank
  made

\* What the theorems ask of the constants.
AddressConstants == /\ codeTries \in Nat /\ MaxCodes \in Nat
                    /\ None \notin Targets \cup {"link"}

addressVars == <<ch, row, sentTo, proven, calls, seen, form, typed, made>>

Codes == 1 .. MaxCodes
Untyped == [mode |-> None, target |-> None, secret |-> FALSE]

Init == /\ ch \in Channels
        /\ row = None /\ sentTo = [c \in Codes |-> None]
        /\ proven = {}
        /\ calls = {} /\ seen = None /\ form = Untyped /\ typed = None /\ made = 0

\* Delivered through the installation's own resources rather than the person's.
viaInstallation(own) == ch = "email" \/ (ch \in {"matrix", "telegram"} /\ ~own)

----------------------------------------------------------------------------
\* The card.

isPending(kind) == \E c \in calls : c.kind = kind

mutate(kind, body) == /\ made < MaxCalls
                      /\ made' = made + 1
                      /\ calls' = calls \cup {[no |-> made', kind |-> kind, body |-> body,
                                               stage |-> "sent", old |-> None, code |-> 0]}
                      /\ UNCHANGED <<ch, row, sentTo, proven, seen, form, typed>>

Or(x, saved) == IF x # None THEN x ELSE saved
pending == seen # None /\ seen.pending
savedTarget == IF seen = None THEN None ELSE seen.target
savedOwn == seen # None /\ seen.own
tokenKept == seen # None /\ seen.secret
target == Or(form.target, savedTarget)
own == Or(form.mode, savedOwn)

save(body) == ~isPending("save") /\ mutate("save", body)
Body(t, isOwn) == [target |-> t, own |-> isOwn, secret |-> form.secret]

\* One address; saving asks for another than the saved one.
EmailSetup == /\ ch = "email" /\ target # None
              /\ target # savedTarget
              /\ save(Body(target, FALSE))

\* A room, of the shared bot or of one's own, which needs a token unless one is kept.
MatrixSetup == /\ ch = "matrix" /\ target # None
               /\ own # savedOwn \/ target # savedTarget \/ form.secret
               /\ IF own THEN form.secret \/ tokenKept ELSE savedOwn \/ seen = None \/ pending
               /\ save(Body(target, own))

\* One's own bot takes a chat; the shared one none, the link tells it which.
TelegramSetup == /\ ch = "telegram"
                 /\ IF own THEN target # None /\ (form.secret \/ tokenKept) /\ save(Body(target, TRUE))
                    ELSE (savedOwn \/ ~pending) /\ save(Body(None, FALSE))

\* A topic, its token optional; a server with its application's token; one URL; a URL
\* or its signing secret alone.
NtfySetup == /\ ch = "ntfy" /\ target # None
             /\ target # savedTarget \/ form.secret
             /\ save(Body(target, TRUE))
GotifySetup == /\ ch = "gotify" /\ target # None /\ (form.secret \/ tokenKept)
               /\ target # savedTarget \/ form.secret
               /\ save(Body(target, TRUE))
IncomingWebhookSetup == ch = "slack" /\ form.target # None /\ save(Body(form.target, TRUE))
WebhookSetup == /\ ch = "webhook"
                /\ form.target # None \/ (seen # None /\ form.secret)
                /\ save(Body(form.target, TRUE))

ChannelSetup == \/ EmailSetup \/ MatrixSetup \/ TelegramSetup \/ NtfySetup
                \/ GotifySetup \/ IncomingWebhookSetup \/ WebhookSetup

Edit == /\ \/ \E t \in Targets : form' = [form EXCEPT !.target = t]
           \/ ch # "email" /\ form' = [form EXCEPT !.secret = TRUE]
           \/ ch \in {"matrix", "telegram"} /\ \E m \in BOOLEAN : form' = [form EXCEPT !.mode = m]
        /\ form' # form
        /\ UNCHANGED <<ch, row, sentTo, proven, calls, seen, typed, made>>

\* The code is typed, right or wrong; confirming waits for the answer before it, asking
\* for another code does not.
CodeConfirm == /\ ch \in {"email", "matrix"} /\ pending
               /\ \/ /\ \E c \in {x \in Codes : sentTo[x] # None} \cup {0} : typed' = c
                     /\ typed' # typed
                     /\ UNCHANGED <<ch, row, sentTo, proven, calls, seen, form, made>>
                  \/ typed # None /\ ~isPending("confirm") /\ mutate("confirm", typed)
                  \/ mutate("resend", None)

\* A new Telegram link, when the one before it is of no use any more.
NewLink == ch = "telegram" /\ pending /\ ~own /\ ~isPending("resend") /\ mutate("resend", None)

\* Remove.
Footer == seen # None /\ ~isPending("remove") /\ mutate("remove", None)

\* The cached state, fetched again after every call, or on the poll for a Telegram chat.
useChannel == /\ seen' = IF row = None THEN None
                         ELSE [target |-> row.target, own |-> row.own, secret |-> row.secret,
                               pending |-> ~row.verified]
              /\ seen' # seen
              \* The code's field is there only while the address waits for it.
              /\ typed' = IF seen' # None /\ seen'.pending THEN typed ELSE None
              /\ UNCHANGED <<ch, row, sentTo, proven, calls, form, made>>

\* What the answers do: a save that went well forgets what was typed, a code that did
\* not is emptied.
Answer(c, ok) == /\ calls' = calls \ {c}
                 /\ form' = IF c.kind = "save" /\ ok THEN Untyped ELSE form
                 /\ typed' = IF c.kind = "confirm" /\ ~ok THEN None ELSE typed
                 /\ UNCHANGED <<ch, seen, made>>

----------------------------------------------------------------------------
\* The server.

\* (Mutant: a changed address keeps the proof of the one before it.)
KeepsProofAnyway(old, t, via) == old # None /\ via = viaInstallation(old.own)

\* Nothing to prove changed: the same address, reached the same way.
KeepsProof(old, t, via) == old # None /\ t = old.target /\ via = viaInstallation(old.own)

\* The address, the token and the bot a save leaves: what was not sent stays, and the
\* shared Telegram bot keeps the chat it learned, or learns it from the link.
SavedTarget(old, b) == IF ch = "telegram" /\ ~b.own
                       THEN IF old # None /\ viaInstallation(old.own) THEN old.target ELSE None
                       ELSE IF b.target # None THEN b.target ELSE old.target
SavedSecret(old, b) == b.secret \/ (b.own /\ old # None /\ old.secret)

\* A code goes to the address; the Telegram link is only made. Each may fail, and one
\* code a few seconds after another is refused: then nothing is saved.
issueCode(c, t) == \E n \in Codes :
  /\ sentTo[n] = None /\ \A m \in 1 .. n - 1 : sentTo[m] # None
  /\ sentTo' = [sentTo EXCEPT ![n] = IF ch = "telegram" THEN "link" ELSE t]
  /\ calls' = (calls \ {c}) \cup {[c EXCEPT !.stage = "read", !.old = row, !.code = n]}

Free == Overlap \/ \A c \in calls : c.stage = "sent"
Reads(c) == /\ calls' = (calls \ {c}) \cup {[c EXCEPT !.stage = "read", !.old = row]}
            /\ UNCHANGED sentTo
still == <<ch, row, proven, seen, form, typed, made>>

\* SaveChannel reads the row, and sends the code a new address needs ...
SaveReads(c) == /\ c.kind = "save" /\ c.stage = "sent" /\ Free
                /\ c.body.target # None \/ row # None \/ ch \in {"telegram", "gotify"}
                /\ LET t == SavedTarget(row, c.body)
                       via == viaInstallation(c.body.own)
                   IN IF ~via \/ KeepsProof(row, t, via) THEN Reads(c) ELSE issueCode(c, t)
                /\ UNCHANGED still

\* ... and writes the whole row, the proof of the row it read included.
SaveWrites(c) ==
  LET t == SavedTarget(c.old, c.body)
      via == viaInstallation(c.body.own)
      kept == KeepsProof(c.old, t, via)
  IN /\ c.kind = "save" /\ c.stage = "read"
     /\ row' = [target |-> t, own |-> c.body.own, secret |-> SavedSecret(c.old, c.body),
                verified |-> IF kept THEN c.old.verified ELSE ~via,
                code |-> IF kept THEN c.old.code ELSE c.code,
                tries |-> IF kept THEN c.old.tries ELSE 0,
                late |-> kept /\ c.old.late]
     /\ Answer(c, TRUE)
     /\ UNCHANGED <<sentTo, proven>>

\* ResendCode: a new code for the address it read, written to whatever row waits by then.
ResendReads(c) == /\ c.kind = "resend" /\ c.stage = "sent" /\ Free
                  /\ row # None /\ ~row.verified
                  /\ issueCode(c, row.target)
                  /\ UNCHANGED still
ResendWrites(c) == /\ c.kind = "resend" /\ c.stage = "read"
                   /\ row' = IF row = None \/ row.verified THEN row
                             ELSE [row EXCEPT !.code = c.code, !.tries = 0, !.late = FALSE]
                   /\ Answer(c, TRUE)
                   /\ UNCHANGED <<sentTo, proven>>

Verified(t) == row' = IF row = None \/ row.verified THEN row
                      ELSE [row EXCEPT !.verified = TRUE, !.code = 0, !.tries = 0, !.target = t]

\* ConfirmChannel reads the row, spends a try on the one there is by then, and compares
\* with the code it read; what it lets send is the row at the end.
ConfirmReads(c) == /\ c.kind = "confirm" /\ c.stage = "sent" /\ Free
                   /\ row # None /\ ~row.verified /\ row.code # 0
                   /\ Reads(c)
                   /\ UNCHANGED still
ConfirmCounts(c) == /\ c.kind = "confirm" /\ c.stage = "read"
                    /\ row # None /\ ~row.verified /\ row.tries < codeTries
                    /\ row' = [row EXCEPT !.tries = @ + 1]
                    /\ calls' = (calls \ {c}) \cup {[c EXCEPT !.stage = "counted"]}
                    /\ UNCHANGED <<ch, sentTo, proven, seen, form, typed, made>>
ConfirmEnds(c) ==
  LET right == c.body = c.old.code /\ ~c.old.late
  IN /\ c.kind = "confirm" /\ c.stage = "counted"
     /\ IF right THEN Verified(IF row = None THEN None ELSE row.target) ELSE UNCHANGED row
     /\ proven' = IF right THEN proven \cup {sentTo[c.body]} ELSE proven
     /\ Answer(c, right)
     /\ UNCHANGED sentTo

\* A chat starts the shared bot with a link that is still good, and becomes the address.
linkTelegram(t) == /\ ch = "telegram" /\ row # None /\ ~row.verified /\ ~row.late /\ row.code # 0
                   /\ Verified(t)
                   /\ proven' = proven \cup {t}
                   /\ UNCHANGED <<ch, sentTo, calls, seen, form, typed, made>>

DeleteChannel(c) == /\ c.kind = "remove"
                    /\ row' = None
                    /\ Answer(c, TRUE)
                    /\ UNCHANGED <<sentTo, proven>>

\* Any request may be refused, or fail before it writes.
Refused(c) == /\ Answer(c, FALSE)
              /\ UNCHANGED <<row, sentTo, proven>>

Expire == /\ row # None /\ ~row.verified /\ ~row.late
          /\ row' = [row EXCEPT !.late = TRUE]
          /\ UNCHANGED <<ch, sentTo, proven, calls, seen, form, typed, made>>

Card == ChannelSetup \/ Edit \/ CodeConfirm \/ NewLink \/ Footer \/ useChannel

Next == \/ Card \/ Expire
        \/ \E t \in Targets : linkTelegram(t)
        \/ \E c \in calls : \/ SaveReads(c) \/ SaveWrites(c) \/ ResendReads(c) \/ ResendWrites(c)
                            \/ ConfirmReads(c) \/ ConfirmCounts(c) \/ ConfirmEnds(c)
                            \/ DeleteChannel(c) \/ Refused(c)

Spec == Init /\ [][Next]_addressVars

----------------------------------------------------------------------------

\* Types: an address that waits has a code, and no more tries than it may have.
TypeOK == /\ row # None => /\ row.target \in Targets \cup {None}
                           /\ row.tries \in 0 .. codeTries
                           /\ row.verified <=> row.code = 0
          /\ form.target \in Targets \cup {None}
          /\ typed \in 0 .. MaxCodes \cup {None}

\* An address of the installation's that sends is one whose code, or link, came back
\* ("sends nothing until its owner proves the address is theirs", proof.go:23).
SendsWhereProven == row # None /\ row.verified /\ viaInstallation(row.own) => row.target \in proven

\* While an address waits, the code that confirms it is one that was sent to it, whatever
\* was saved, sent again and confirmed in between ("the channel keeps its state, a pending
\* code included", channels.go:278).
CodeIsOfTheAddress == row # None /\ ~row.verified /\ ch # "telegram" => sentTo[row.code] = row.target
=============================================================================
