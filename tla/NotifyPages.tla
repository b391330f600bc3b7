---------------------------- MODULE NotifyPages ----------------------------
(***************************************************************************)
(* The notification settings and the bell (web: NotificationsPages.tsx,     *)
(* NotificationTiming.tsx, NotificationMoney.tsx, NotificationsCard.tsx,    *)
(* NotificationBell.tsx): which events reach which channel, at once or in   *)
(* the digest; the quiet hours; each account's thresholds; the wallets told *)
(* of; and what was told, read or not.                                      *)
(*                                                                         *)
(* Every control saves at once, from the copy its query cached, and several *)
(* calls may be in flight.                                                  *)
(***************************************************************************)
EXTENDS Integers, FiniteSets

CONSTANTS
  Kinds,        \* the events; "security" always reaches the bell
  Slots,        \* the channels, "inapp" among them, and "digest"
  Fields,       \* the settings saved one by one, "timezone" among them
  Typeable,     \* the amounts typed in a threshold, 0 for none
  Wallets,
  Notes,        \* what the bell may tell: note -> its wallet, or None
  MaxCalls,     \* bound: calls made
  None

VARIABLES
  prefs, ticks,           \* the (kind, slot) pairs that are on: the server's, the cached
  fetch,                  \* the fetch of them in flight: what it read, or None
  stale,                  \* they are to be fetched again
  settings, shown,        \* the settings: the server's, the cached
  limits, saved,          \* the thresholds [largeOver, lowUnder]: the server's, the cached
  fields,                 \* what the two fields hold
  included, ticked,       \* the wallets told of: the server's, the cached
  unread, bell,           \* the notes not read: the server's, the cached
  opened, wallet,         \* the bell's panel; the wallet on the screen
  zoneSent,               \* "no", "asked" or "sent"
  push,                   \* this device's: [busy, subscribed, denied]
  calls, made             \* the calls in flight: [no, kind, arg]

\* What the theorems ask of the constants.
ChoicesConstants == /\ {"inapp", "digest"} \subseteq Slots /\ Typeable \subseteq Int
                    /\ \A n \in DOMAIN Notes : Notes[n] \in Wallets \cup {None}
                    /\ \A S \in SUBSET (Kinds \X Slots) : S # None

pageVars == <<prefs, ticks, fetch, stale, settings, shown, limits, saved, fields, included,
              ticked, unread, bell, opened, wallet, zoneSent, push, calls, made>>

NoLimits == [largeOver |-> 0, lowUnder |-> 0]

Init == /\ prefs = Kinds \X {"inapp"} /\ ticks = prefs /\ fetch = None /\ stale = FALSE
        /\ settings = [f \in Fields |-> 0] /\ shown = settings
        /\ limits = NoLimits /\ saved = NoLimits /\ fields = NoLimits
        /\ included = Wallets /\ ticked = Wallets
        /\ unread = {} /\ bell = {} /\ opened = FALSE /\ wallet \in Wallets
        /\ zoneSent = "no" /\ push = [busy |-> FALSE, subscribed |-> FALSE, denied |-> FALSE]
        /\ calls = {} /\ made = 0

events == <<ticks, fetch, stale>>
money == <<saved, fields, ticked>>
theBell == <<bell, opened, wallet>>
server == <<prefs, settings, limits, included, unread>>

mutate(kind, arg) == /\ made < MaxCalls /\ made' = made + 1
                     /\ calls' = calls \cup {[no |-> made', kind |-> kind, arg |-> arg]}
isPending(kind) == \E c \in calls : c.kind = kind

\* A tick shows at once, and a fetch still on its way is called off.
onMutate(v) == /\ ticks' = IF v.on THEN ticks \cup {v.at} ELSE ticks \ {v.at}
               /\ fetch' = None
               /\ UNCHANGED stale

Tick(kind, slot) == LET v == [at |-> <<kind, slot>>, on |-> <<kind, slot>> \notin ticks]
                    IN /\ mutate("tick", v) /\ onMutate(v)
                       /\ UNCHANGED <<server, shown, money, theBell, zoneSent, push>>

\* A security event always reaches the bell, and is never in the digest.
ChannelEvents == \E k \in Kinds, s \in Slots \ {"digest"} : ~(k = "security" /\ s = "inapp") /\ Tick(k, s)
ModeList == \E k \in Kinds \ {"security"} : Tick(k, "digest")

\* The settings are saved one field at a time.
SaveField(f) == /\ f # "timezone" \/ zoneSent = "asked"
                /\ mutate("settings", f)
                /\ zoneSent' = IF f = "timezone" THEN "sent" ELSE zoneSent
                /\ UNCHANGED <<server, events, shown, money, theBell, push>>
WhenCard == \E f \in Fields \ {"timezone"} : SaveField(f)

\* Once per load, the browser's time zone when it is another; a failure lets it try again.
useSendTimeZone ==
  \/ /\ zoneSent = "no" /\ zoneSent' = "asked"
     /\ UNCHANGED <<server, events, shown, money, theBell, push, calls, made>>
  \/ SaveField("timezone")
  \/ /\ zoneSent = "asked" /\ zoneSent' = "no"
     /\ UNCHANGED <<server, events, shown, money, theBell, push, calls, made>>

\* An expense over a threshold is a size: the sign typed does not matter.
Amount(field, v) == IF field = "largeOver" /\ v < 0 THEN -v ELSE v

\* A threshold is saved when its field is left: both go, the other one as last seen. An
\* expense over zero is refused (0 stands for the empty field, none).
AmountField(field, v) ==
  /\ fields' = [fields EXCEPT ![field] = Amount(field, v)]
  /\ IF fields'[field] = saved[field] THEN UNCHANGED <<calls, made>>
     ELSE mutate("threshold", [saved EXCEPT ![field] = fields'[field]])
  /\ UNCHANGED <<server, events, shown, saved, ticked, theBell, zoneSent, push>>

\* The thresholds of a wallet's open accounts, and the wallets told of.
WalletThresholds == \E field \in DOMAIN NoLimits, v \in Typeable : AmountField(field, v)
TickWallet(w) == /\ mutate("wallet", [wallet |-> w, on |-> w \notin ticked])
                 /\ UNCHANGED <<server, events, shown, money, theBell, zoneSent, push>>

\* Opening a note reads it, goes to its wallet, and closes the panel.
Open(n) == /\ opened /\ n \in bell
           /\ mutate("read", {n})
           /\ wallet' = IF Notes[n] = None THEN wallet ELSE Notes[n]
           /\ opened' = FALSE
           /\ UNCHANGED <<server, events, shown, money, bell, zoneSent, push>>
MarkAll == /\ opened /\ bell # {} /\ ~isPending("readAll")
           /\ mutate("readAll", None)
           /\ UNCHANGED <<server, events, shown, money, theBell, zoneSent, push>>
Panel == MarkAll \/ \E n \in bell : Open(n)
NotificationBell == /\ opened' = ~opened
                    /\ UNCHANGED <<server, events, shown, money, bell, wallet, zoneSent, push, calls, made>>
\* The poll, every minute.
Poll == /\ bell' = unread /\ bell' # bell
        /\ UNCHANGED <<server, events, shown, money, opened, wallet, zoneSent, push, calls, made>>

\* Push is on or off per device: the browser is asked, then the server told.
toggle == /\ ~push.busy /\ ~push.denied
          /\ push' = [push EXCEPT !.busy = TRUE]
          /\ UNCHANGED <<server, events, shown, money, theBell, zoneSent, calls, made>>
Toggled == /\ push.busy
           /\ \/ push' = [push EXCEPT !.busy = FALSE]
              \/ push' = [push EXCEPT !.busy = FALSE, !.subscribed = ~@]
              \/ ~push.subscribed /\ push' = [push EXCEPT !.busy = FALSE, !.denied = TRUE]
           /\ UNCHANGED <<server, events, shown, money, theBell, zoneSent, calls, made>>

\* The server's part of a call.
Served(c) ==
  CASE c.kind = "tick" -> /\ prefs' = IF c.arg.on THEN prefs \cup {c.arg.at} ELSE prefs \ {c.arg.at}
                          /\ UNCHANGED <<settings, limits, included, unread>>
    [] c.kind = "settings" -> /\ settings' = [settings EXCEPT ![c.arg] = 1 - @]
                              /\ UNCHANGED <<prefs, limits, included, unread>>
    [] c.kind = "threshold" -> limits' = c.arg /\ UNCHANGED <<prefs, settings, included, unread>>
    [] c.kind = "wallet" -> /\ included' = IF c.arg.on THEN included \cup {c.arg.wallet}
                                           ELSE included \ {c.arg.wallet}
                            /\ UNCHANGED <<prefs, settings, limits, unread>>
    [] OTHER -> /\ unread' = IF c.kind = "readAll" THEN {} ELSE unread \ c.arg
                /\ UNCHANGED <<prefs, settings, limits, included>>

\* (Mutant: only a success fetches the ticks again.)
SettledIfServed(c, ok) == stale' = (stale \/ (c.kind = "tick" /\ ok))

\* A tick's answer, good or bad, has the ticks fetched again.
onSettled(c, ok) == stale' = (stale \/ c.kind = "tick")

\* What an answer brings: the settings and wallets come with it, the thresholds and the
\* bell are fetched again.
Answer(c, ok) ==
  /\ calls' = calls \ {c}
  /\ IF ok THEN Served(c) ELSE UNCHANGED server
  /\ onSettled(c, ok)
  /\ shown' = IF ok /\ c.kind = "settings" THEN settings' ELSE shown
  /\ ticked' = IF ok /\ c.kind = "wallet" THEN included' ELSE ticked
  /\ saved' = IF c.kind = "threshold" THEN limits' ELSE saved
  /\ bell' = IF c.kind \in {"read", "readAll"} THEN unread' ELSE bell
  /\ zoneSent' = IF ~ok /\ c.kind = "settings" /\ c.arg = "timezone" THEN "no" ELSE zoneSent
  /\ UNCHANGED <<ticks, fetch, fields, opened, wallet, push, made>>

usePreferences == /\ stale /\ fetch = None
                  /\ fetch' = prefs /\ stale' = FALSE
                  /\ UNCHANGED <<server, ticks, shown, money, theBell, zoneSent, push, calls, made>>
Fetched == /\ fetch # None
           /\ ticks' = fetch /\ fetch' = None
           /\ UNCHANGED <<server, stale, shown, money, theBell, zoneSent, push, calls, made>>
Focused == /\ ~stale /\ stale' = TRUE
           /\ UNCHANGED <<server, ticks, fetch, shown, money, theBell, zoneSent, push, calls, made>>

\* The server tells something.
Told(n) == /\ n \notin unread /\ unread' = unread \cup {n}
           /\ UNCHANGED <<prefs, settings, limits, included, events, shown, money, theBell, zoneSent, push, calls, made>>

Next == \/ ChannelEvents \/ ModeList \/ WhenCard \/ useSendTimeZone \/ WalletThresholds
        \/ Panel \/ NotificationBell \/ Poll \/ toggle \/ Toggled
        \/ usePreferences \/ Fetched \/ Focused
        \/ \E w \in Wallets : TickWallet(w)
        \/ \E n \in DOMAIN Notes : Told(n)
        \/ \E c \in calls, ok \in BOOLEAN : Answer(c, ok)

Spec == Init /\ [][Next]_pageVars

----------------------------------------------------------------------------

\* Types: an expense is told over a size, never under zero; a security event always
\* reaches the bell; only a device that is not refused is subscribed.
TypeOK == /\ limits.largeOver >= 0 /\ fields.largeOver >= 0
          /\ "security" \in Kinds => <<"security", "inapp">> \in prefs
          /\ prefs \subseteq Kinds \X Slots /\ ticks \subseteq Kinds \X Slots
          /\ wallet \in Wallets /\ push.subscribed => ~push.denied

\* When nothing is on its way the ticks are the server's, whatever was ticked, refused,
\* called off and fetched in between ("tick at once; the server's answer settles it",
\* NotificationsPages.tsx:200).
TicksSettle == calls = {} /\ fetch = None /\ ~stale => ticks = prefs
=============================================================================
