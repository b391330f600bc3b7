---------------------------- MODULE BankConnect ----------------------------
(***************************************************************************)
(* Connecting a bank (web: BankSyncPage.tsx, BankSyncCallback.tsx): the      *)
(* SimpleFIN token, the Pluggy application and item, the Enable Banking      *)
(* application and consent, and the page the bank sends the reader back to. *)
(*                                                                         *)
(* A typed text is a member of Texts, None when blank.                      *)
(***************************************************************************)
EXTENDS Integers, FiniteSets

CONSTANTS
  Texts,        \* what the reader may type
  Countries,    \* "IT", which the form opens with, among them
  Banks,        \* country -> the banks it lists
  MaxSteps,     \* bound: things the reader does, and loads the page again
  None

VARIABLES
  apps,       \* the server's applications: provider -> [id, secret] or None
  cfg,        \* their cached copies: provider -> id, or None
  begun,      \* how many authorizations were begun; each one's state is its number
  consents,   \* those the server waits for: [state, again], of a new connection or one again
  completions,  \* the calls that complete one: [no, state, step, again, answer]
  used,       \* the bank's codes that were exchanged, by state
  connected,  \* how many connections there are, by provider
  modal,      \* the form on the screen: a provider's "config" or "connect", or None
  token,      \* what the SimpleFIN form holds
  config,     \* what the application form holds: [id, secret]
  item,       \* what the Pluggy connection form holds
  consent,    \* what the Enable Banking connection form holds: [country, bank]
  sending,    \* the calls in flight: [kind, arg]
  page,       \* "settings", "bank" (the bank's own site), or "callback"
  callback,   \* the callback page: [state, code, status]
  inflight,   \* of this load of the app: state -> the completion it sent
  steps,
  \* What only the properties read: the connections written, by state, and the states whose
  \* answer may be wrong: an earlier load completes it, or its request was cut off.
  established, doubtful

completing == <<completions, used, established, doubtful>>
connectVars == <<apps, cfg, begun, consents, connected, modal, token, config, item, consent,
                 sending, page, callback, inflight, steps, completing>>

\* What the theorems ask of the constants.
ConnectConstants == None \notin Texts \cup {"ok", "failed"} \cup Nat /\ MaxSteps \in Nat

Providers == {"pluggy", "enablebanking"}
States == 1 .. MaxSteps
NoConsent == [country |-> "IT", bank |-> None]
NoCallback == [state |-> None, code |-> FALSE, status |-> "error"]

Init == /\ apps = [p \in Providers |-> None] /\ cfg = [p \in Providers |-> None]
        /\ begun = 0 /\ consents = {} /\ connected = [p \in Providers \cup {"simplefin", "demo"} |-> 0]
        /\ modal = None /\ token = None /\ config = [id |-> None, secret |-> None]
        /\ item = None /\ consent = NoConsent
        /\ sending = {} /\ page = "settings" /\ callback = NoCallback
        /\ inflight = [s \in States |-> None] /\ steps = 0
        /\ completions = {} /\ used = {} /\ established = [s \in States |-> 0] /\ doubtful = {}

server == <<apps, begun, consents, connected>>
forms == <<modal, token, config, item, consent>>
away == <<page, callback, inflight, completing>>

Does == page = "settings" /\ steps < MaxSteps /\ steps' = steps + 1 /\ UNCHANGED <<server, cfg, away>>
isPending(kind) == \E c \in sending : c.kind = kind
mutate(kind, arg) == ~isPending(kind) /\ sending' = sending \cup {[kind |-> kind, arg |-> arg]}

\* Opening a form. The Pluggy ones mount blank (their application with its id); the
\* Enable Banking application is put in as the form opens, its key blank; the SimpleFIN
\* and consent forms keep what they held.
Open(m) == /\ modal = None
           /\ modal' = m
           /\ config' = IF m.form = "config" THEN [id |-> cfg[m.of], secret |-> None] ELSE config
           /\ item' = IF m.of = "pluggy" THEN None ELSE item
           /\ UNCHANGED <<token, consent, sending>>

BankSyncSettings == Open([of |-> "simplefin", form |-> "connect"])

\* Without an application there is only its form; with one, connecting, and removing it
\* (which asks first).
Panel(p) == \/ Open([of |-> p, form |-> "config"])
            \/ cfg[p] # None /\ Open([of |-> p, form |-> "connect"])
            \/ cfg[p] # None /\ modal = None /\ mutate("remove", p) /\ UNCHANGED forms

PluggyPanel == Panel("pluggy")
EnableBankingPanel == Panel("enablebanking")
\* An expiring consent is given again.
ConnectionCard == modal = None /\ mutate("reauth", None) /\ UNCHANGED forms

DemoBankPanel == modal = None /\ mutate("demo", None) /\ UNCHANGED forms

Closed == modal' = None /\ UNCHANGED <<token, config, item, consent>>

On(p, form) == modal # None /\ modal.of = p /\ modal.form = form

ConnectModal == /\ On("simplefin", "connect")
                /\ \/ \E x \in Texts : token' = x /\ UNCHANGED <<modal, config, item, consent, sending>>
                   \/ Closed /\ UNCHANGED sending
                   \/ token # None /\ mutate("simplefin", token) /\ UNCHANGED forms

PluggyConfigForm ==
  /\ On("pluggy", "config")
  /\ \/ \E x \in Texts : config' \in {[config EXCEPT !.id = x], [config EXCEPT !.secret = x]}
          /\ UNCHANGED <<modal, token, item, consent, sending>>
     \/ Closed /\ UNCHANGED sending
     \/ config.id # None /\ config.secret # None /\ mutate("pluggyConfig", config) /\ UNCHANGED forms

PluggyConnectForm == /\ On("pluggy", "connect")
                     /\ \/ \E x \in Texts : item' = x /\ UNCHANGED <<modal, token, config, consent, sending>>
                        \/ Closed /\ UNCHANGED sending
                        \/ item # None /\ mutate("pluggy", item) /\ UNCHANGED forms

\* A blank key keeps the stored one, once there is one.
EnableBankingConfigModal ==
  /\ On("enablebanking", "config")
  /\ \/ \E x \in Texts : config' \in {[config EXCEPT !.id = x], [config EXCEPT !.secret = x]}
          /\ UNCHANGED <<modal, token, item, consent, sending>>
     \/ Closed /\ UNCHANGED sending
     \/ /\ config.id # None /\ (config.secret # None \/ cfg["enablebanking"] # None)
        /\ mutate("ebConfig", config) /\ UNCHANGED forms

\* Another country lists other banks; the one chosen stays chosen.
EnableBankingConnectModal ==
  /\ On("enablebanking", "connect")
  /\ \/ \E c \in Countries : consent' = [consent EXCEPT !.country = c]
          /\ UNCHANGED <<modal, token, config, item, sending>>
     \/ \E b \in Banks[consent.country] : consent' = [consent EXCEPT !.bank = b]
          /\ UNCHANGED <<modal, token, config, item, sending>>
     \/ Closed /\ UNCHANGED sending
     \/ consent.bank # None /\ mutate("start", consent) /\ UNCHANGED forms

Reader == Does /\ (\/ BankSyncSettings \/ PluggyPanel \/ EnableBankingPanel \/ DemoBankPanel \/ ConnectionCard
                   \/ ConnectModal \/ PluggyConfigForm \/ PluggyConnectForm
                   \/ EnableBankingConfigModal \/ EnableBankingConnectModal)

Connected(p) == connected' = [connected EXCEPT ![p] = @ + 1]

\* The Enable Banking application is written with the key it has when none comes.
SetEBankingConfig(c) == /\ c.secret # None \/ apps["enablebanking"] # None
                        /\ apps' = [apps EXCEPT !["enablebanking"] = [id |-> c.id,
                             secret |-> IF c.secret = None THEN apps["enablebanking"].secret ELSE c.secret]]

\* An authorization begins, and those left for an hour go.
ebStartAuth(again) == /\ apps["enablebanking"] # None /\ begun' = begun + 1 /\ begun' \in States
                      /\ \E left \in SUBSET consents :
                           consents' = (consents \ left) \cup {[state |-> begun', again |-> again]}
                      /\ UNCHANGED <<apps, connected>>

\* The server's part of each call that succeeds.
Served(c) ==
  CASE c.kind = "remove" -> apps' = [apps EXCEPT ![c.arg] = None] /\ UNCHANGED <<begun, consents, connected>>
    [] c.kind = "pluggyConfig" -> apps' = [apps EXCEPT !["pluggy"] = c.arg] /\ UNCHANGED <<begun, consents, connected>>
    [] c.kind = "ebConfig" -> SetEBankingConfig(c.arg) /\ UNCHANGED <<begun, consents, connected>>
    [] c.kind \in {"simplefin", "demo"} -> Connected(c.kind) /\ UNCHANGED <<apps, begun, consents>>
    [] c.kind = "pluggy" -> apps["pluggy"] # None /\ Connected("pluggy") /\ UNCHANGED <<apps, begun, consents>>
    [] c.kind = "start" -> ebStartAuth(FALSE)
    [] c.kind = "reauth" -> connected["enablebanking"] > 0 /\ ebStartAuth(TRUE)

\* A success closes the form of its kind, and the token's is emptied; a consent leaves
\* for the bank. The answer does so whatever that form holds by then.
Succeed(c) == /\ page = "settings"
              /\ sending' = sending \ {c}
              /\ Served(c)
              /\ page' = IF c.kind \in {"start", "reauth"} THEN "bank" ELSE page
              /\ modal' = IF \/ c.kind \in {"simplefin", "pluggy"} /\ On(c.kind, "connect")
                             \/ c.kind = "pluggyConfig" /\ On("pluggy", "config")
                             \/ c.kind = "ebConfig" /\ On("enablebanking", "config")
                          THEN None ELSE modal
              /\ token' = IF c.kind = "simplefin" THEN None ELSE token
              /\ config' = IF c.kind = "ebConfig" THEN [config EXCEPT !.secret = None] ELSE config
              /\ UNCHANGED <<cfg, item, consent, callback, inflight, steps, completing>>

\* An answer that is an error, or is lost, leaves the form as it is.
Fail(c) == /\ sending' = sending \ {c}
           /\ UNCHANGED server \/ (page = "settings" /\ Served(c))
           /\ UNCHANGED <<cfg, forms, away, steps>>

Refetch == /\ cfg' = [p \in Providers |-> IF apps[p] = None THEN None ELSE apps[p].id]
           /\ cfg' # cfg
           /\ UNCHANGED <<server, forms, sending, away, steps>>

\* A new load of the app has forms that are blank and has sent nothing.
NewLoad == /\ modal' = None /\ token' = None /\ item' = None /\ config' = [id |-> None, secret |-> None]
           /\ consent' = NoConsent /\ sending' = {}
           /\ inflight' = [t \in States |-> None]
           /\ doubtful' = doubtful \cup {c.state : c \in completions}
           /\ UNCHANGED <<server, cfg, completions, used, established>>
Opens(s, code) == /\ page' = "callback"
                  /\ callback' = [state |-> s, code |-> code, status |-> IF code THEN "working" ELSE "error"]

\* The bank's site sends the reader back with its code or without one, an authorization has
\* one code; the page opens in "error" when the redirect is broken.
Redirect(s, code) == page = "bank" /\ Opens(s, code) /\ NewLoad /\ UNCHANGED steps

\* The page is loaded again, wherever its completion is.
Reload == /\ page = "callback" /\ steps < MaxSteps /\ steps' = steps + 1
          /\ Opens(callback.state, callback.code) /\ NewLoad

\* (Mutant: every mount sends its own.)
CompletionAlways(s) == TRUE

\* A mount sends the completion unless one of this state was sent by this load.
Completion(s) == inflight[s] = None

\* The page mounts, mounts again (StrictMode) or runs its effect again for the wallet.
Mount == LET s == callback.state no == Cardinality(completions) + 1 IN
         /\ page = "callback" /\ callback.code /\ callback.status = "working"
         /\ Completion(s)
         /\ inflight' = [inflight EXCEPT ![s] = no]
         /\ completions' = completions \cup {[no |-> no, state |-> s, step |-> "sent", again |-> FALSE, answer |-> None]}
         /\ UNCHANGED <<server, cfg, forms, sending, page, callback, steps, used, established, doubtful>>

(* The server completes an authorization: it reads what waits, has the bank exchange the   *)
(* code, writes the connection and forgets the authorization, with nothing around them.    *)
Takes(c, step, again, answer) ==
  completions' = (completions \ {c}) \cup
    {[no |-> c.no, state |-> c.state, step |-> step, again |-> again, answer |-> answer]}
Ends(c, answer) == Takes(c, "over", c.again, IF c.answer = None THEN answer ELSE c.answer)
Reads(c) ==
  /\ c.step = "sent"
  /\ \/ \E t \in consents : /\ t.state = c.state /\ apps["enablebanking"] # None
                            /\ Takes(c, "read", t.again, c.answer)
     \/ ((\A t \in consents : t.state # c.state) \/ apps["enablebanking"] = None) /\ Ends(c, "failed")
  /\ UNCHANGED <<consents, connected, used, established, doubtful>>
\* A code is good for one session.
createSession(c) ==
  /\ c.step = "read"
  /\ \/ c.state \notin used /\ used' = used \cup {c.state} /\ Takes(c, "exchanged", c.again, c.answer)
     \/ c.state \in used /\ UNCHANGED used /\ Ends(c, "failed")
  /\ UNCHANGED <<consents, connected, established, doubtful>>
Writes(c) == /\ c.step = "exchanged"
             /\ IF c.again THEN UNCHANGED connected ELSE Connected("enablebanking")
             /\ established' = [established EXCEPT ![c.state] = @ + 1]
             /\ Takes(c, "written", c.again, c.answer) /\ UNCHANGED <<consents, used, doubtful>>
\* The authorization stays when it cannot be deleted.
Forgets(c) == /\ c.step = "written" /\ Ends(c, "ok")
              /\ consents' \in {consents, {t \in consents : t.state # c.state}}
              /\ UNCHANGED <<connected, used, established, doubtful>>
\* A statement fails, the bank does, or the server goes down; the answer may be lost alone.
Stops(c) == /\ c.step # "over" /\ Ends(c, "failed")
            /\ doubtful' = IF c.step = "written" THEN doubtful \cup {c.state} ELSE doubtful
            /\ UNCHANGED <<consents, connected, used, established>>
IsLost(c) == /\ c.step # "over" /\ c.answer = None /\ Takes(c, c.step, c.again, "failed")
             /\ doubtful' = doubtful \cup {c.state} /\ UNCHANGED <<consents, connected, used, established>>
EBankingCompleteAuth(c) ==
  /\ Reads(c) \/ createSession(c) \/ Writes(c) \/ Forgets(c) \/ Stops(c) \/ IsLost(c)
  /\ UNCHANGED <<apps, begun, cfg, forms, sending, page, callback, inflight, steps>>

\* What the mounted page shows of the answer: the remembered one, when it came before.
Told == /\ page = "callback" /\ callback.status = "working"
        /\ \E c \in completions : /\ c.no = inflight[callback.state] /\ c.answer # None
                                  /\ callback' = [callback EXCEPT !.status = IF c.answer = "ok" THEN "done" ELSE "error"]
        /\ UNCHANGED <<server, cfg, forms, sending, page, inflight, steps, completing>>

\* Back to the settings: by itself after "done", by the button after "error".
Back == /\ page = "callback" /\ callback.status # "working"
        /\ page' = "settings" /\ callback' = NoCallback
        /\ UNCHANGED <<server, cfg, forms, sending, inflight, steps, completing>>

Next == \/ Reader \/ Refetch \/ Reload \/ Mount \/ Told \/ Back
        \/ \E c \in sending : Succeed(c) \/ Fail(c)
        \/ \E s \in 1..begun, code \in BOOLEAN : Redirect(s, code)
        \/ \E c \in completions : EBankingCompleteAuth(c)

Spec == Init /\ [][Next]_connectVars

----------------------------------------------------------------------------

\* Types: an application has its secret, whatever was left blank.
TypeOK == /\ \A p \in Providers : apps[p] = None \/ (apps[p].id \in Texts /\ apps[p].secret \in Texts)
          /\ token \in Texts \cup {None}
          /\ page \in {"settings", "bank", "callback"}

\* A consent makes one connection, however often its callback page mounts and is loaded again
\* and wherever its completion stops; the page says it is done when there is one, and says it
\* failed when there is none, unless its call was cut off or an earlier load had sent one
\* ("rather than firing a second one against an already-consumed state", BankSyncCallback.tsx:13).
ConsentsAreToldAsTheyWent ==
  /\ \A s \in States : established[s] <= 1
  /\ callback.code /\ callback.status = "done" => established[callback.state] = 1
  /\ callback.code /\ callback.status = "error" /\ callback.state \notin doubtful =>
       established[callback.state] = 0
=============================================================================
