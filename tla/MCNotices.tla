----------------------------- MODULE MCNotices ------------------------------
(* Notifications in small: the rules and the queue of the server, in a day of   *)
(* three hours, the digest in the second, the third one quiet; the addresses    *)
(* they go to, the pages where they are chosen, and the mails they are read     *)
(* from, with their patterns.  A behaviour is of one of the five.               *)
EXTENDS Notify, Integers, Sequences

CONSTANTS
  Parts,   \* those this instance runs
  Overlap,   \* of the addresses and the mails
  None

VARIABLES
  part,   \* the one this behaviour is of
  ch, row, sentTo, proven, calls, seen, form, typed, made, chosen, ticks, fetch, stale,
  settings, shown, limits, saved, fields, included, ticked, unread, bellShown, opened,
  wallet, zoneSent, push, order, list, read, dragged, draft, signIn, imap, typing,
  samples, cur, pick, manual, expr, direction, inWords, dateFormat, cards, accountId,
  loads, loading, tried, saving, stored, own, steps

\* The queue: a message that waits for the digest, and one that waits for the morning.
MixedKinds == [a |-> "bank", b |-> "large"]
MixedRefs  == [a |-> "none", b |-> "none"]
MixedGroup == [bank |-> "problems", large |-> "other"]
MixedOn    == {"bank", "large"} \X (Channels \cup {InApp})

Amounts == {-5, 0}
OneNote == [n \in {"n1"} |-> "w2"]

TwoPatterns == <<"p1", "p2">>
Known == [gmail |-> [host |-> "h1", domain |-> "g"], libero |-> [host |-> "h2", domain |-> "l"],
          other |-> [host |-> None, domain |-> None]]
Ports == [tls |-> 993, starttls |-> 143]

\* The patterns: "12 at Shop" and "7 EUR at Bar ok", marked already or not.
Mark(f, k) == [field |-> f, start |-> k, end |-> k + 1]
Wordings == [m1 |-> <<"12", "_", "at", "_", "Shop", "/">>,
             m2 |-> <<"7", "_", "EUR", "_", "at", "_", "Bar", "_", "ok">>]
Both == <<[samples |-> <<[mail |-> "m1", marks |-> {Mark("amount", 1), Mark("payee", 5)}],
                        [mail |-> "m2", marks |-> {Mark("amount", 1), Mark("payee", 7)}]>>,
           manual |-> FALSE, direction |-> "out"]>>

-----------------------------------------------------------------------------
A == INSTANCE Addresses
  WITH
       Channels <- {"email", "matrix", "telegram", "ntfy", "gotify", "slack", "webhook"},
       Targets <- {"a", "b"}, codeTries <- 2, MaxCodes <- 2, MaxCalls <- 2
P == INSTANCE NotifyPages
  WITH Kinds <- {"security", "bills"}, Slots <- {"inapp", "digest"},
       Fields <- {"timezone"}, Typeable <- Amounts, Wallets <- {"w2"}, Notes <- OneNote,
       MaxCalls <- 2, prefs <- chosen, bell <- bellShown
M == INSTANCE Mailboxes
  WITH Patterns <- TwoPatterns, Senders <- {"s1", "s2"}, PROVIDERS <- Known,
       Usual <- Ports, Domains <- {"g", "l", "outlook"}, MaxCalls <- 2, MaxEdits <- 1,
       edits <- typing
E == INSTANCE PatternEditor
  WITH Mails <- Wordings, Fields <- {"amount", "payee", "direction"},
       TEXT_FIELDS <- {"payee"}, Numbers <- {"12", "7", "3"}, Space <- "_", Line <- "/",
       Accounts <- {"a1"}, Stored <- Both, Reach <- 1, MaxSteps <- 3

\* Variables a part does not have are None in its behaviours; those of Notify stay at their
\* start.
PartsInit ==
  /\ part \in Parts
  /\ Init
  /\ \/ /\ part = "core"
        /\ ch = None /\ row = None /\ sentTo = None /\ proven = None /\ calls = None
        /\ seen = None /\ form = None /\ typed = None /\ made = None
        /\ chosen = None /\ ticks = None /\ fetch = None /\ stale = None
        /\ settings = None /\ shown = None /\ limits = None /\ saved = None
        /\ fields = None /\ included = None /\ ticked = None /\ unread = None
        /\ bellShown = None /\ opened = None /\ wallet = None /\ zoneSent = None
        /\ push = None /\ order = None /\ list = None /\ read = None
        /\ dragged = None /\ draft = None /\ signIn = None /\ imap = None
        /\ typing = None /\ samples = None /\ cur = None /\ pick = None
        /\ manual = None /\ expr = None /\ direction = None /\ inWords = None
        /\ dateFormat = None /\ cards = None /\ accountId = None /\ loads = None
        /\ loading = None /\ tried = None /\ saving = None /\ stored = None
        /\ own = None /\ steps = None
     \/ /\ part = "addresses" /\ A!Init /\ digestKinds = {} /\ ~quietHours
        /\ chosen = None /\ ticks = None /\ fetch = None /\ stale = None
        /\ settings = None /\ shown = None /\ limits = None /\ saved = None
        /\ fields = None /\ included = None /\ ticked = None /\ unread = None
        /\ bellShown = None /\ opened = None /\ wallet = None /\ zoneSent = None
        /\ push = None /\ order = None /\ list = None /\ read = None
        /\ dragged = None /\ draft = None /\ signIn = None /\ imap = None
        /\ typing = None /\ samples = None /\ cur = None /\ pick = None
        /\ manual = None /\ expr = None /\ direction = None /\ inWords = None
        /\ dateFormat = None /\ cards = None /\ accountId = None /\ loads = None
        /\ loading = None /\ tried = None /\ saving = None /\ stored = None
        /\ own = None /\ steps = None
     \/ /\ part = "pages" /\ P!Init /\ digestKinds = {} /\ ~quietHours
        /\ ch = None /\ row = None /\ sentTo = None /\ proven = None /\ seen = None
        /\ form = None /\ typed = None /\ order = None /\ list = None /\ read = None
        /\ dragged = None /\ draft = None /\ signIn = None /\ imap = None
        /\ typing = None /\ samples = None /\ cur = None /\ pick = None
        /\ manual = None /\ expr = None /\ direction = None /\ inWords = None
        /\ dateFormat = None /\ cards = None /\ accountId = None /\ loads = None
        /\ loading = None /\ tried = None /\ saving = None /\ stored = None
        /\ own = None /\ steps = None
     \/ /\ part = "mails" /\ M!Init /\ digestKinds = {} /\ ~quietHours
        /\ ch = None /\ row = None /\ sentTo = None /\ proven = None /\ form = None
        /\ typed = None /\ chosen = None /\ ticks = None /\ settings = None
        /\ shown = None /\ limits = None /\ saved = None /\ included = None
        /\ ticked = None /\ unread = None /\ bellShown = None /\ opened = None
        /\ wallet = None /\ zoneSent = None /\ push = None /\ samples = None
        /\ cur = None /\ pick = None /\ manual = None /\ expr = None
        /\ direction = None /\ inWords = None /\ dateFormat = None /\ cards = None
        /\ accountId = None /\ loads = None /\ loading = None /\ tried = None
        /\ saving = None /\ stored = None /\ own = None /\ steps = None
     \/ /\ part = "pattern" /\ E!Init /\ digestKinds = {} /\ ~quietHours
        /\ ch = None /\ row = None /\ sentTo = None /\ proven = None /\ calls = None
        /\ seen = None /\ form = None /\ typed = None /\ made = None
        /\ chosen = None /\ ticks = None /\ fetch = None /\ stale = None
        /\ settings = None /\ shown = None /\ limits = None /\ saved = None
        /\ fields = None /\ included = None /\ ticked = None /\ unread = None
        /\ bellShown = None /\ opened = None /\ wallet = None /\ zoneSent = None
        /\ push = None /\ order = None /\ list = None /\ read = None
        /\ dragged = None /\ draft = None /\ signIn = None /\ imap = None
        /\ typing = None

PartsNext ==
  /\ UNCHANGED part
  /\ \/ /\ part = "core" /\ Next
        /\ UNCHANGED <<ch, row, sentTo, proven, calls, seen, form, typed, made, chosen,
                      ticks, fetch, stale, settings, shown, limits, saved, fields,
                      included, ticked, unread, bellShown, opened, wallet, zoneSent,
                      push, order, list, read, dragged, draft, signIn, imap, typing,
                      samples, cur, pick, manual, expr, direction, inWords, dateFormat,
                      cards, accountId, loads, loading, tried, saving, stored, own,
                      steps>>
     \/ /\ part = "addresses" /\ A!Next
        /\ UNCHANGED <<vars, chosen, ticks, fetch, stale, settings, shown, limits,
                      saved, fields, included, ticked, unread, bellShown, opened,
                      wallet, zoneSent, push, order, list, read, dragged, draft, signIn,
                      imap, typing, samples, cur, pick, manual, expr, direction,
                      inWords, dateFormat, cards, accountId, loads, loading, tried,
                      saving, stored, own, steps>>
     \/ /\ part = "pages" /\ P!Next
        /\ UNCHANGED <<vars, ch, row, sentTo, proven, seen, form, typed, order, list,
                      read, dragged, draft, signIn, imap, typing, samples, cur, pick,
                      manual, expr, direction, inWords, dateFormat, cards, accountId,
                      loads, loading, tried, saving, stored, own, steps>>
     \/ /\ part = "mails" /\ M!Next
        /\ UNCHANGED <<vars, ch, row, sentTo, proven, form, typed, chosen, ticks,
                      settings, shown, limits, saved, included, ticked, unread,
                      bellShown, opened, wallet, zoneSent, push, samples, cur, pick,
                      manual, expr, direction, inWords, dateFormat, cards, accountId,
                      loads, loading, tried, saving, stored, own, steps>>
     \/ /\ part = "pattern" /\ E!Next
        /\ UNCHANGED <<vars, ch, row, sentTo, proven, calls, seen, form, typed, made,
                      chosen, ticks, fetch, stale, settings, shown, limits, saved,
                      fields, included, ticked, unread, bellShown, opened, wallet,
                      zoneSent, push, order, list, read, dragged, draft, signIn, imap,
                      typing>>

partsVars == <<part, vars, ch, row, sentTo, proven, calls, seen, form, typed, made,
    chosen, ticks, fetch, stale, settings, shown, limits, saved, fields, included,
    ticked, unread, bellShown, opened, wallet, zoneSent, push, order, list, read,
    dragged, draft, signIn, imap, typing, samples, cur, pick, manual, expr, direction,
    inWords, dateFormat, cards, accountId, loads, loading, tried, saving, stored, own,
    steps>>

PartsSpec == PartsInit /\ [][PartsNext]_partsVars

-----------------------------------------------------------------------------
\* What the theorems about these two ask of their constants.
ASSUME CardConstants == A!AddressConstants /\ P!ChoicesConstants /\ M!MailConstants

\* A channel of the installation's sends only where the person proved to be, and
\* the code that waits is of the address that waits (channels.go, proof.go).
SendsWhereProven ==
  part = "addresses" => A!TypeOK /\ A!SendsWhereProven /\ A!CodeIsOfTheAddress

\* A pattern reads the mails it was marked in, and what was marked in them
\* (patternBuilder.ts, PatternSheet.tsx).
ReadsItsExamples == part = "pattern" => E!TypeOK /\ E!ReadsItsExamples

\* With no call on its way the pages show what the server has: the ticks of the
\* events, and the patterns in the order they are tried (NotificationsPages.tsx,
\* PatternList.tsx).
TicksSettle ==
  /\ part = "pages" => P!TypeOK /\ P!TicksSettle
  /\ part = "mails" => M!TypeOK /\ M!ShownAsTried
=============================================================================
