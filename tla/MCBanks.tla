------------------------------ MODULE MCBanks -------------------------------
(* The banks in small: one connection, its syncs and the register it feeds,   *)
(* and the screens that connect a bank, show a connection and import a file.  *)
(* A behaviour is of one of the four.                                         *)
EXTENDS BankSync, TLC

CONSTANTS
  Parts,   \* those this instance runs
  e1, e2,   \* the accounts of the sync
  Offset,   \* of the screens
  None

VARIABLES
  part,   \* the one this behaviour is of
  apps, cfg, consents, connected, modal, token, config, item, consent, sending, page,
  callback, inflight, begun, completions, used, established, doubtful, steps, connection, linked, history, seen, seenLinks, stale,
  calls, latest, asking, historyOpen, made, chosen, phase, format, account, content,
  reading, rules, mapping, previews, proposing, reviewed, committing, kept

Symmetry == Permutations(Moves)

\* The sync: everything happens on the first account, the second one is quiet.
AllOnOne == [m \in Moves |-> e1]
OneAmount == [m \in Moves |-> 1]

\* Days go by over one movement, or somebody edits two alike within half a day.
\* Both bounds are of the instance only.
OneMovement == edits = 0 /\ Cardinality({m \in Moves : bank[m].state # "none"}) <= 1
HalfADay ==
  /\ clock = 0 /\ links[e2] # NoAccount
  /\ \A m \in Moves : bank[m].day = 0
  /\ \A i \in Live : rows[i].day = 0
  /\ \A p \in Syncs : job[p].answered \in {{}, Linked(p)}
SmallSync ==
  \/ /\ Tick \/ Bank \/ SyncDue \/ \E p \in Syncs : Sync(p)
     /\ OneMovement' \/ HalfADay'
  \/ /\ clock = 0
     /\ Editing \/ Merging
     /\ HalfADay'

TwoCountries == [c \in {"IT", "FR"} |-> IF c = "IT" THEN {"b1"} ELSE {"b2"}]

\* Minutes from local time to UTC: two hours east, and India's five and a half.
East == -120

\* The import: the columns of the first file are remembered from an earlier one.
TwoFiles == [f \in {"a", "b"} |-> 2]
OneRemembered == [f \in {"a", "b"} |-> IF f = "a" THEN "date" :> 1 @@ "amount" :> 2 ELSE None]
Read == [f \in {"a", "b"} |-> "date" :> 2 @@ "amount" :> 1]

-----------------------------------------------------------------------------
C == INSTANCE BankConnect
  WITH Texts <- {"x"}, Countries <- {"IT", "FR"}, Banks <- TwoCountries, MaxSteps <- 9
B == INSTANCE BankScreens
  WITH Hours <- {1, 3}, Days <- {0, 6}, Remotes <- {"r1"}, Accounts <- {"a1"},
       MaxCalls <- 2, conn <- connection, links <- linked, runs <- history
W == INSTANCE ImportWizard
  WITH Files <- TwoFiles, Accounts <- {"checking", "card"},
       Formats <- {"generic", "ofx"}, Fields <- {"date", "amount"},
       Remembered <- OneRemembered, Proposed <- Read, MaxSteps <- 9, rows <- reviewed

\* Variables a part does not have are None in its behaviours; those of BankSync stay at their
\* start.
PartsInit ==
  /\ part \in Parts
  /\ Init
  /\ \/ /\ part = "sync"
        /\ apps = None /\ cfg = None /\ consents = None /\ connected = None
        /\ modal = None /\ token = None /\ config = None /\ item = None
        /\ consent = None /\ sending = None /\ page = None /\ callback = None
        /\ inflight = None /\ begun = None /\ completions = None /\ used = None
        /\ established = None /\ doubtful = None /\ steps = None /\ connection = None
        /\ linked = None /\ history = None /\ seen = None /\ seenLinks = None
        /\ stale = None /\ calls = None /\ latest = None /\ asking = None
        /\ historyOpen = None /\ made = None /\ chosen = None /\ phase = None
        /\ format = None /\ account = None /\ content = None /\ reading = None
        /\ rules = None /\ mapping = None /\ previews = None /\ proposing = None
        /\ reviewed = None /\ committing = None /\ kept = None
     \/ /\ part = "connect" /\ C!Init
        /\ connection = None /\ linked = None /\ history = None /\ seen = None
        /\ seenLinks = None /\ stale = None /\ calls = None /\ latest = None
        /\ asking = None /\ historyOpen = None /\ made = None /\ chosen = None
        /\ phase = None /\ format = None /\ account = None /\ content = None
        /\ reading = None /\ rules = None /\ mapping = None /\ previews = None
        /\ proposing = None /\ reviewed = None /\ committing = None /\ kept = None
     \/ /\ part = "screens" /\ B!Init
        /\ apps = None /\ cfg = None /\ consents = None /\ connected = None
        /\ modal = None /\ token = None /\ config = None /\ item = None
        /\ consent = None /\ sending = None /\ page = None /\ callback = None
        /\ inflight = None /\ begun = None /\ completions = None /\ used = None
        /\ established = None /\ doubtful = None /\ steps = None /\ phase = None
        /\ format = None /\ account = None /\ content = None /\ reading = None
        /\ rules = None /\ mapping = None /\ previews = None /\ proposing = None
        /\ reviewed = None /\ committing = None /\ kept = None
     \/ /\ part = "import" /\ W!Init
        /\ apps = None /\ cfg = None /\ consents = None /\ connected = None
        /\ modal = None /\ token = None /\ config = None /\ item = None
        /\ consent = None /\ sending = None /\ page = None /\ callback = None
        /\ inflight = None /\ begun = None /\ completions = None /\ used = None
        /\ established = None /\ doubtful = None /\ connection = None /\ linked = None
        /\ history = None /\ seen = None /\ seenLinks = None /\ stale = None
        /\ calls = None /\ latest = None /\ asking = None /\ historyOpen = None
        /\ made = None /\ chosen = None

PartsNext ==
  /\ UNCHANGED part
  /\ \/ /\ part = "sync" /\ SmallSync
        /\ UNCHANGED <<apps, cfg, consents, connected, modal, token, config, item,
                      consent, sending, page, callback, inflight, begun, completions, used, established, doubtful, steps,
                      connection, linked, history, seen, seenLinks, stale, calls,
                      latest, asking, historyOpen, made, chosen, phase, format, account,
                      content, reading, rules, mapping, previews, proposing, reviewed,
                      committing, kept>>
     \/ /\ part = "connect" /\ C!Next
        /\ UNCHANGED <<vars, connection, linked, history, seen, seenLinks, stale, calls,
                      latest, asking, historyOpen, made, chosen, phase, format, account,
                      content, reading, rules, mapping, previews, proposing, reviewed,
                      committing, kept>>
     \/ /\ part = "screens" /\ B!Next
        /\ UNCHANGED <<vars, apps, cfg, consents, connected, modal, token, config, item,
                      consent, sending, page, callback, inflight, begun, completions, used, established, doubtful, steps, phase,
                      format, account, content, reading, rules, mapping, previews,
                      proposing, reviewed, committing, kept>>
     \/ /\ part = "import" /\ W!Next
        /\ UNCHANGED <<vars, apps, cfg, consents, connected, modal, token, config, item,
                      consent, sending, page, callback, inflight, begun, completions, used, established, doubtful, connection,
                      linked, history, seen, seenLinks, stale, calls, latest, asking,
                      historyOpen, made, chosen>>

partsVars == <<part, vars, apps, cfg, consents, connected, modal, token, config,
    item, consent, sending, page, callback, inflight, begun, completions, used, established, doubtful, steps, connection, linked,
    history, seen, seenLinks, stale, calls, latest, asking, historyOpen, made, chosen,
    phase, format, account, content, reading, rules, mapping, previews, proposing,
    reviewed, committing, kept>>

PartsSpec == PartsInit /\ [][PartsNext]_partsVars

-----------------------------------------------------------------------------
\* What the theorems about these two ask of their constants.
ASSUME PageConstants == C!ConnectConstants /\ W!WizardConstants /\ B!ScreenConstants

\* A consent makes one connection and is told of as it went, though the callback page may be
\* loaded again and its completion may stop anywhere (BankSyncCallback.tsx,
\* enablebanking_service.go EBankingCompleteAuth).
ConsentsAreTold == part = "connect" => C!TypeOK /\ C!ConsentsAreToldAsTheyWent

\* The hour and days a connection's card shows are some the reader chose, over
\* the turn of the UTC day both ways (schedule.ts, BankSyncPage.tsx).
ShownWasChosen == part = "screens" => B!TypeOK /\ B!ShownWasChosen

\* The rows under review, and those committed, were read with what is chosen on
\* the screen (ImportWizard.tsx).
ReviewIsOfWhatIsChosen == part = "import" => W!TypeOK /\ W!ReviewIsOfWhatIsChosen
=============================================================================
