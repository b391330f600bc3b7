----------------------------- MODULE Mailboxes -----------------------------
(***************************************************************************)
(* The bank-mails settings (web: MailSettings.tsx, mail/PatternList.tsx,    *)
(* mail/MailAI.tsx, mail/ImapConnect.tsx, mail/imapProviders.ts): a mailbox *)
(* is connected, over IMAP or with Microsoft's code; its folder, its AI and *)
(* the order its patterns are tried in are chosen; what it read is shown.   *)
(***************************************************************************)
EXTENDS Integers, Sequences, Functions, SequencesExt

CONSTANTS
  Patterns,     \* the patterns, as first kept
  Senders,
  PROVIDERS,    \* the mail providers: id -> [host, domain]; "other" has neither
  Usual,        \* the usual port of each way of encrypting, PORTS: [tls, starttls]
  Domains,      \* the domains an address may have; "outlook" is Microsoft's
  Overlap,      \* several calls, or a call and a fetch, may be on their way at once
  MaxCalls,     \* bound: calls made
  MaxEdits,     \* bound: what is typed and chosen in the two forms
  None

MailConstants == Patterns \in Seq(Range(Patterns)) /\ IsInjective(Patterns)

VARIABLES
  order, fields,      \* the server's: the patterns in order; the mailbox's [paused, folder, ai, mails]
  list, seen,         \* the copies shown
  read,               \* the mails shown, for the last arrival of the copy
  fetch, stale,       \* the fetch of the patterns on its way: <<what it read>>, or <<>>; it is to be read again
  calls, made,        \* the calls on their way: [no, kind, arg, sent, ok, answer]
  dragged,            \* the pattern being dragged
  draft,              \* the AI form
  signIn,             \* Microsoft's sign-in: [state, attempt], or None
  imap, edits         \* the IMAP form, or None

mailVars == <<order, fields, list, seen, read, fetch, stale, calls, made, dragged, draft, signIn, imap, edits>>
server == <<order, fields>>
theList == <<list, fetch, stale, dragged>>
forms == <<draft, signIn, imap, edits>>

NewBox == [paused |-> FALSE, folder |-> "INBOX", ai |-> [mode |-> "patterns", senders |-> {}], mails |-> 0]
Init == /\ order = Patterns /\ list = Patterns /\ fields = NewBox /\ seen = NewBox /\ read = 0
        /\ fetch = <<>> /\ stale = FALSE /\ calls = {} /\ made = 0 /\ dragged = None
        /\ draft = NewBox.ai /\ signIn = None /\ imap = None /\ edits = 0

isPending(kind) == \E c \in calls : c.kind = kind
mutate(kind, arg) ==
  /\ made < MaxCalls /\ made' = made + 1
  /\ Overlap \/ (calls = {} /\ fetch = <<>>)
  /\ calls' = calls \cup {[no |-> made', kind |-> kind, arg |-> arg, sent |-> TRUE, ok |-> FALSE, answer |-> None]}

At(ids, p) == CHOOSE k \in DOMAIN ids : ids[k] = p
\* The order chosen shows at once.
onMutate(ids) == list' = ids /\ UNCHANGED <<fetch, stale>>
move(from, to) ==
  /\ to \in DOMAIN list /\ from # to
  /\ LET ids == InsertAt(RemoveAt(list, from), to, list[from])
     IN mutate("reorder", ids) /\ onMutate(ids)
  /\ UNCHANGED <<server, seen, read, forms>>

\* By the grip, or Move up and down.
onDragStart == /\ dragged = None /\ \E k \in DOMAIN list : dragged' = list[k]
               /\ UNCHANGED <<server, list, fetch, stale, seen, read, calls, made, forms>>
drop == /\ dragged # None /\ dragged' = None
        /\ \E k \in DOMAIN list : dragged \in Range(list) /\ move(At(list, dragged), k)
end == /\ dragged # None /\ dragged' = None
       /\ UNCHANGED <<server, list, fetch, stale, seen, read, calls, made, forms>>
PatternList == UNCHANGED dragged /\ \E k \in DOMAIN list : move(k, k - 1) \/ move(k, k + 1)
askDelete == /\ \E k \in DOMAIN list : mutate("delete", list[k])
             /\ UNCHANGED <<server, theList, seen, read, forms>>

\* Check now, pause and resume, another folder, disconnect.
MailboxCard == /\ \/ ~isPending("check") /\ mutate("check", None)
                  \/ mutate("update", [paused |-> ~seen.paused])
                  \/ ~isPending("update") /\ \E f \in {"INBOX", "Bank"} \ {seen.folder} : mutate("update", [folder |-> f])
               /\ UNCHANGED <<server, theList, seen, read, forms>>

\* The AI's form. The first time the AI is chosen, the patterns' senders are a start.
Edit == edits < MaxEdits /\ edits' = edits + 1 /\ UNCHANGED <<server, theList, seen, read, calls, made, signIn>>
chooseMode(mode) ==
  /\ Edit /\ UNCHANGED imap
  /\ draft' = [mode |-> mode, senders |-> IF draft.senders # {} \/ mode = "patterns" THEN draft.senders ELSE Senders]
MailAI == /\ Edit /\ UNCHANGED imap /\ draft.mode # "patterns"
          /\ draft' \in {[draft EXCEPT !.senders = @ \ {s}] : s \in draft.senders} \cup {seen.ai}
SomeoneToRead(ai) == ai.mode = "patterns" \/ ai.senders # {}
saveAI == /\ draft # seen.ai /\ SomeoneToRead(draft)
          /\ ~isPending("ai") /\ mutate("ai", draft)
          /\ UNCHANGED <<server, theList, seen, read, forms>>

\* The server's part of a call: an order must name every pattern once.
Served(c) ==
  CASE c.kind = "reorder" -> Len(c.arg) = Len(order) /\ Range(c.arg) = Range(order) /\ order' = c.arg /\ UNCHANGED fields
    [] c.kind = "delete" -> order' = (IF c.arg \in Range(order) THEN RemoveAt(order, At(order, c.arg)) ELSE order) /\ UNCHANGED fields
    [] c.kind = "ai" -> fields' = [fields EXCEPT !.ai = c.arg] /\ UNCHANGED order
    [] c.kind = "update" -> fields' = [x \in DOMAIN fields |-> IF x \in DOMAIN c.arg THEN c.arg[x] ELSE fields[x]] /\ UNCHANGED order
    [] OTHER -> UNCHANGED server
Done(c, ok, answer) == [no |-> c.no, kind |-> c.kind, arg |-> c.arg, sent |-> FALSE, ok |-> ok, answer |-> answer]
Serve(c) ==
  /\ c.sent
  /\ \/ /\ Served(c)
        /\ calls' = (calls \ {c}) \cup {Done(c, TRUE, order')}
     \/ calls' = (calls \ {c}) \cup {Done(c, FALSE, None)} /\ UNCHANGED server
  /\ UNCHANGED <<theList, seen, read, made, forms>>

\* An order refused is read again; so are the patterns after one is deleted.
Refetches(c) == stale \/ (c.kind = "reorder" /\ ~c.ok) \/ (c.kind = "delete" /\ c.ok)
\* What an answer brings. (The overview is read again after most: see refetchInterval.)
Answer(c) ==
  /\ ~c.sent /\ calls' = calls \ {c}
  /\ list' = IF c.kind = "reorder" /\ c.ok THEN c.answer ELSE list
  /\ stale' = Refetches(c)
  /\ draft' = IF c.kind = "ai" /\ c.ok THEN c.arg ELSE draft
  /\ imap' = IF c.kind = "imap" /\ c.ok THEN None ELSE imap
  /\ UNCHANGED <<server, fetch, dragged, seen, read, made, signIn, edits>>

Fetch == /\ stale /\ fetch = <<>> /\ (Overlap \/ calls = {})
         /\ fetch' = <<order>> /\ stale' = FALSE
         /\ UNCHANGED <<server, list, dragged, seen, read, calls, made, forms>>
Fetched == /\ fetch # <<>> /\ list' = fetch[1] /\ fetch' = <<>>
           /\ UNCHANGED <<server, stale, dragged, seen, read, calls, made, forms>>

\* Every half minute the overview is read; a new arrival has the mails read; a change of the
\* AI saved elsewhere starts its form again.
refetchInterval == /\ seen' = fields /\ seen' # seen
                   /\ draft' = IF fields.ai = seen.ai THEN draft ELSE fields.ai
                   /\ UNCHANGED <<server, theList, read, calls, made, signIn, imap, edits>>
messages == /\ read # seen.mails /\ read' = fields.mails
            /\ UNCHANGED <<server, theList, seen, calls, made, forms>>
\* The listener reads a mail.
Listener == /\ fields.mails < 1 /\ fields' = [fields EXCEPT !.mails = @ + 1]
            /\ UNCHANGED <<order, theList, seen, read, calls, made, forms>>

\* Microsoft's sign-in: a code, typed at theirs, and a poll until they say yes or no.
MicrosoftSignIn ==
  /\ \/ signIn = None /\ imap = None /\ edits < MaxEdits /\ signIn' = [state |-> "starting", attempt |-> 0]
     \/ IF signIn = None THEN FALSE
        ELSE \/ signIn.state = "starting" /\ signIn' \in {[signIn EXCEPT !.state = s] : s \in {"pending", "failed"}}
             \/ signIn.state \in {"pending", "expired"} /\ signIn' \in {[signIn EXCEPT !.state = s] : s \in {"declined", "failed"}} \cup {None}
             \/ signIn.state = "pending" /\ signIn' = [signIn EXCEPT !.state = "expired"]  \* by this browser's clock
             \/ /\ signIn.state \in {"declined", "expired", "failed"} /\ signIn.attempt < 1
                /\ signIn' = [state |-> "starting", attempt |-> signIn.attempt + 1]
             \/ signIn' = None
  /\ edits' = IF signIn = None THEN edits + 1 ELSE edits
  /\ UNCHANGED <<server, theList, seen, read, calls, made, draft, imap>>

\* The IMAP form. Until a provider is chosen it follows the address.
ServerOf(id) == [host |-> PROVIDERS[id].host, port |-> Usual.tls, security |-> "tls"]
providerForAddress(domain) == {id \in DOMAIN PROVIDERS : PROVIDERS[id].domain = domain}
isMicrosoftAddress(domain) == domain = "outlook"
OpenImap == /\ imap = None /\ signIn = None /\ Edit /\ UNCHANGED draft
            /\ imap' = [domain |-> None, provider |-> "gmail", chosen |-> FALSE, server |-> ServerOf("gmail"),
                        typed |-> FALSE, edit |-> FALSE]
chooseProvider(id) == /\ imap # None /\ Edit /\ UNCHANGED draft
                      /\ imap' = [imap EXCEPT !.provider = id, !.chosen = TRUE, !.server = ServerOf(id),
                                  !.edit = @ \/ id = "other", !.typed = FALSE]
typeAddress(d) ==
  /\ imap # None /\ Edit /\ UNCHANGED draft
  /\ LET found == providerForAddress(d) \ {imap.provider}
     IN imap' = IF ~imap.chosen /\ found # {}
                THEN LET id == CHOOSE x \in found : TRUE
                     IN [imap EXCEPT !.domain = d, !.provider = id, !.server = ServerOf(id), !.typed = FALSE]
                ELSE [imap EXCEPT !.domain = d]

\* A port that was the other way's usual one follows the change.
PortFor(s, security) == IF s.port = Usual[s.security] THEN Usual[security] ELSE s.port
chooseSecurity(security) ==
  /\ imap # None /\ Edit /\ UNCHANGED draft /\ imap.edit
  /\ imap' = [imap EXCEPT !.server = [host |-> @.host, port |-> PortFor(@, security), security |-> security]]
EditServer == /\ imap # None /\ Edit /\ UNCHANGED draft
              /\ \/ imap' \in {None, [imap EXCEPT !.edit = TRUE]}
                 \/ imap.edit /\ imap' = [imap EXCEPT !.server.port = 1, !.typed = TRUE]
submit == /\ imap # None /\ imap.domain # None /\ ~isMicrosoftAddress(imap.domain) /\ imap.server.host # None
          /\ ~isPending("imap") /\ mutate("imap", imap.server)
          /\ UNCHANGED <<server, theList, seen, read, forms>>

Next == \/ onDragStart \/ drop \/ end \/ PatternList \/ askDelete \/ MailboxCard \/ MailAI \/ saveAI
        \/ Fetch \/ Fetched \/ refetchInterval \/ messages \/ Listener \/ MicrosoftSignIn
        \/ OpenImap \/ EditServer \/ submit
        \/ \E m \in {"patterns", "patterns_ai"} : chooseMode(m)
        \/ \E id \in DOMAIN PROVIDERS : chooseProvider(id)
        \/ \E d \in Domains : typeAddress(d)
        \/ \E s \in DOMAIN Usual : chooseSecurity(s)
        \/ \E c \in calls : Serve(c) \/ Answer(c)

Spec == Init /\ [][Next]_mailVars

----------------------------------------------------------------------------

\* Types: a port nobody typed is the usual one of the encryption chosen, the AI is never on
\* for no sender, and no pattern shows, or is tried, twice.
PortIsUsual == imap # None => imap.typed \/ imap.server.port = Usual[imap.server.security]
TypeOK == /\ PortIsUsual /\ SomeoneToRead(fields.ai)
          /\ IsInjective(list) /\ IsInjective(order)

\* With nothing on its way, the patterns show in the order they are tried ("a mailbox's
\* patterns, in the order they are tried: the first that reads a mail wins",
\* PatternList.tsx:24).
ShownAsTried == calls = {} /\ fetch = <<>> /\ ~stale => list = order
=============================================================================
