------------------------------ MODULE Session ------------------------------
(***************************************************************************)
(* Signing in and keeping an account (web: AuthProvider.tsx, LoginPage.tsx, *)
(* SetupPage.tsx, TwoFactorCard.tsx, PasswordCard.tsx, AccessCodesCard.tsx, *)
(* ApiTokensPage.tsx, UsersPage.tsx, App.tsx; server: auth/service.go):     *)
(* passwords, second factor, one-time codes, sessions and tokens, used from *)
(* several devices at once.                                                 *)
(***************************************************************************)
EXTENDS Integers, FiniteSets

CONSTANTS
  Devices, Names, First,   \* the browsers; the people; who sets the server up
  Starts,       \* the accounts there may be at the start, and who is in where
  Passwords,    \* numbers, each a password
  MaxTries,     \* failed sign-ins allowed in a window
  recoveryCodeCount,    \* the codes issued at once
  MaxCalls, MaxEdits,   \* bounds
  None

Account(admin, pw) == [admin |-> admin, disabled |-> FALSE, pw |-> pw, totp |-> 0, codes |-> {}]
Accounts == [admin : BOOLEAN, disabled : BOOLEAN, pw : Passwords, totp : Int, codes : SUBSET Int]

\* What is there at the start was numbered below zero, every code is one account's, and
\* nobody disabled is in.
ASSUME SessionConstants ==
  /\ IsFiniteSet(Devices) /\ Devices \subseteq 1..Cardinality(Devices)
  /\ First \in Names /\ {MaxTries, recoveryCodeCount} \subseteq Nat \ {0}
  /\ None \notin Names \cup Accounts /\ None \notin Int
  /\ \A start \in Starts :
       /\ start.accounts \in [Names -> Accounts \cup {None}]
       /\ start.in \in [Devices -> {n \in Names : start.accounts[n] # None} \cup {None}]
       /\ \A d \in Devices : start.in[d] # None => ~start.accounts[start.in[d]].disabled
       /\ \A n, m \in {k \in Names : start.accounts[k] # None} :
            /\ \A code \in start.accounts[n].codes : code < 0
            /\ n # m => start.accounts[n].codes \cap start.accounts[m].codes = {}

VARIABLES
  ssoOnly,      \* the server signs in through the provider alone
  accounts, sessions, tokens, fails,   \* the server's; a session has the password its holder knows
  minted,       \* secrets, codes, sessions and tokens are numbered as they are made
  cookie, me, page,   \* of each device: its session, the user it shows, the page open
  calls, made, edits,
  \* What only the properties read: the sessions each code opened; the codes each person has
  \* been shown, and the call each came with; the sessions a change has still to end, each
  \* with the call it is of; the calls that were stopped, or overtaken by something.
  opened, seen, issued, owed, overtaken

history == <<issued, owed, overtaken>>
server == <<accounts, sessions, tokens, fails, minted, opened, history>>
vars == <<ssoOnly, server, cookie, me, page, calls, made, edits, seen>>

\* A page just opened: the code typed, whether one is asked for, the secret
\* and the codes shown.
Blank(at) == [at |-> at, code |-> None, challenged |-> FALSE, secret |-> 0, shown |-> {}]
There == {n \in Names : accounts[n] # None}
NeedsSetup == There = {}
sessionOf(no) == {s \in sessions : s.no = no}
enabledUser(n) == accounts[n] # None /\ ~accounts[n].disabled

Init == \E start \in Starts :
  LET in == {d \in Devices : start.in[d] # None} IN
  /\ ssoOnly \in BOOLEAN /\ accounts = start.accounts
  /\ sessions = {[no |-> d, user |-> start.in[d], pw |-> accounts[start.in[d]].pw] : d \in in}
  /\ tokens = {} /\ fails = [n \in Names |-> 0] /\ minted = Cardinality(Devices)
  /\ cookie = [d \in Devices |-> IF d \in in THEN d ELSE None] /\ me = start.in
  /\ page = [d \in Devices |-> Blank(IF d \in in THEN "home" ELSE "login")]
  /\ calls = {} /\ made = 0 /\ edits = 0 /\ opened = {}
  /\ seen = [n \in Names |-> IF accounts[n] = None THEN {} ELSE accounts[n].codes]
  /\ issued = {} /\ owed = {} /\ overtaken = {}

isPending(d) == \E c \in calls : c.dev = d
mutate(d, kind, arg) == /\ made < MaxCalls /\ made' = made + 1 /\ ~isPending(d)
                        /\ calls' = calls \cup {[no |-> made', dev |-> d, kind |-> kind, cookie |-> cookie[d], arg |-> arg, step |-> "sent", read |-> None]}
                        /\ UNCHANGED <<ssoOnly, server, cookie, me, edits, seen>>
Edit(d, p) == /\ edits < MaxEdits /\ edits' = edits + 1 /\ page' = [page EXCEPT ![d] = p]
              /\ UNCHANGED <<ssoOnly, accounts, sessions, tokens, fails, minted, opened, issued, owed, cookie, me, calls, made, seen>>

(* The pages. *)
\* Who is in moves between the pages; a modal may be closed under its call.
App(d) == \E at \in {"home", "enrol", "disable", "password", "access", "tokens", "users"} :
            /\ me[d] # None /\ page[d].at # at
            /\ at \in {"enrol", "disable", "password"} => ~ssoOnly
            /\ at = "access" => ssoOnly
            /\ at = "users" => accounts[me[d]].admin
            /\ Edit(d, Blank(at))
            /\ overtaken' = overtaken \cup {c.no : c \in {x \in calls : x.dev = d /\ x.kind \in {"enable", "codes"}}}
SetupPage(d) == /\ me[d] = None /\ NeedsSetup /\ ~ssoOnly
                /\ \E pw \in Passwords : mutate(d, "setup", [user |-> First, pw |-> pw, code |-> None]) /\ UNCHANGED page
\* The codes a person can type: a wrong one, their authenticator's, one they were shown.
Codes(n) == {0} \cup seen[n] \cup IF accounts[n] = None \/ accounts[n].totp = 0 THEN {} ELSE {accounts[n].totp}
Signing(d) == me[d] = None /\ page[d].at = "login" /\ ~NeedsSetup
\* The form: the code is typed while it is asked for, and sent whenever it is there.
PasswordForm(d) ==
  /\ Signing(d) /\ ~ssoOnly
  /\ \E n \in Names, pw \in Passwords : \E code \in IF page[d].challenged THEN Codes(n) ELSE {page[d].code} :
       /\ mutate(d, "login", [user |-> n, pw |-> pw, code |-> code, asked |-> page[d].challenged])
       /\ page' = [page EXCEPT ![d].code = code, ![d].challenged = FALSE]
SsoOnlyForm(d) ==
  /\ Signing(d) /\ ssoOnly
  /\ \E n \in Names : \E code \in Codes(n) : mutate(d, "recovery", [user |-> n, code |-> code]) /\ UNCHANGED page
EnrollModal(d) ==
  /\ me[d] # None /\ page[d].at = "enrol" /\ page[d].shown = {}
  /\ \/ page[d].secret = 0 /\ mutate(d, "secret", None) /\ UNCHANGED page
     \/ page[d].secret # 0 /\ \E code \in {0, page[d].secret} : mutate(d, "enable", [secret |-> page[d].secret, code |-> code]) /\ UNCHANGED page
\* "Done" reads the account again.
finish(d) == /\ page[d].at = "enrol" /\ page[d].shown # {} /\ mutate(d, "me", None)
             /\ page' = [page EXCEPT ![d] = Blank("home")]
DisableModal(d) == /\ me[d] # None /\ page[d].at = "disable"
                   /\ \E pw \in Passwords : mutate(d, "disable", pw) /\ UNCHANGED page
PasswordCard(d) == /\ me[d] # None /\ page[d].at = "password"
                   /\ \E now, next \in Passwords : mutate(d, "password", [now |-> now, next |-> next]) /\ UNCHANGED page
AccessCodesCard(d) == me[d] # None /\ page[d].at = "access" /\ mutate(d, "codes", None) /\ UNCHANGED page
ApiTokensPage(d) == /\ me[d] # None /\ page[d].at = "tokens" /\ UNCHANGED page
                    /\ \/ \E scope \in {"read", "write"} : mutate(d, "token", scope)
                       \/ \E t \in tokens : t.user = me[d] /\ mutate(d, "revoke", t.no)
CreateUserModal(d) == \E n \in Names, admin \in BOOLEAN, pw \in Passwords :
                        accounts[n] = None /\ mutate(d, "create", [user |-> n, admin |-> admin, pw |-> pw])
ResetPasswordModal(d) == ~ssoOnly /\ \E n \in There, pw \in Passwords : mutate(d, "reset", [user |-> n, pw |-> pw])
UsersPage(d) == /\ me[d] # None /\ page[d].at = "users" /\ UNCHANGED page
                /\ \/ CreateUserModal(d) \/ ResetPasswordModal(d)
                   \/ \E n \in There \ {me[d]}, off \in BOOLEAN : mutate(d, "bar", [user |-> n, disabled |-> off])
useLogout(d) == me[d] # None /\ mutate(d, "logout", None) /\ UNCHANGED page
\* The account is read again on focus, and when the page is loaded again.
AuthProvider(d) == \/ me[d] # None /\ mutate(d, "me", None) /\ UNCHANGED page
                   \/ me[d] = None /\ Edit(d, Blank("login")) /\ UNCHANGED overtaken

(* The server. *)
Step(c, step, read) == /\ calls' = (calls \ {c}) \cup {[c EXCEPT !.step = step, !.read = read]}
                       /\ UNCHANGED <<ssoOnly, cookie, me, page, made, edits, seen>>
\* The person a request comes from: nobody when its session is not one any more.
requireAuth(c) == {s.user : s \in {x \in sessionOf(c.cookie) : enabledUser(x.user)}}
record(n) == fails' = [fails EXCEPT ![n] = @ + 1]
openSession(c) == /\ c.step = "verified" /\ minted' = minted + 1
                  /\ sessions' = sessions \cup {[no |-> minted', user |-> c.arg.user, pw |-> c.read.pw]}
                  /\ opened' = IF c.read.once THEN opened \cup {<<c.arg.code, minted'>>} ELSE opened
                  /\ owed' = IF c.no \in overtaken THEN owed \cup {<<minted', c.no>>} ELSE owed
                  /\ Step(c, "ok", minted') /\ UNCHANGED <<accounts, tokens, fails, issued, overtaken>>
\* (Mutant: a code is looked up and stays.)
ConsumesNothing(a, code) == [a EXCEPT !.codes = @]

\* A one-time code goes as it is used.
ConsumeRecoveryCode(a, code) == [a EXCEPT !.codes = @ \ {code}]
checkSecondFactor(a, code) == code = a.totp \/ code \in a.codes

\* The failures of the window are looked at before the password, which takes a while.
allow(n) == fails[n] < MaxTries
Allowed(c) == /\ c.step = "sent" /\ c.kind \in {"login", "recovery"}
              /\ Step(c, IF allow(c.arg.user) THEN "allowed" ELSE "refused", None) /\ UNCHANGED server
Rejected(c) == record(c.arg.user) /\ Step(c, "refused", None) /\ UNCHANGED <<accounts, sessions, tokens, minted, opened, history>>
Passed(c) == LET n == c.arg.user a == accounts[n]
             IN /\ fails' = [fails EXCEPT ![n] = 0]
                /\ accounts' = [accounts EXCEPT ![n] = ConsumeRecoveryCode(a, c.arg.code)]
                /\ Step(c, "verified", [pw |-> a.pw, once |-> c.arg.code \in a.codes]) /\ UNCHANGED <<sessions, tokens, minted, opened, history>>
Login(c) ==
  LET n == c.arg.user a == accounts[n] right == enabledUser(n) /\ a.pw = c.arg.pw asks == right /\ a.totp # 0 IN
  /\ c.kind = "login" /\ c.step = "allowed"
  /\ \/ ~right /\ Rejected(c)
     \/ asks /\ c.arg.code = None /\ Step(c, "challenge", None) /\ UNCHANGED server
     \/ asks /\ c.arg.code # None /\ ~checkSecondFactor(a, c.arg.code) /\ Rejected(c)
     \/ right /\ (asks => c.arg.code # None /\ checkSecondFactor(a, c.arg.code)) /\ Passed(c)
LoginWithAccessCode(c) ==
  LET found == enabledUser(c.arg.user) /\ c.arg.code \in accounts[c.arg.user].codes
  IN /\ c.kind = "recovery" /\ c.step = "allowed"
     /\ (found /\ Passed(c)) \/ (~found /\ Rejected(c))
\* The first account is made when nobody is there, and signs in.
Setup(c) ==
  /\ c.kind = "setup"
  /\ \/ c.step = "sent" /\ NeedsSetup /\ Step(c, "counted", None) /\ UNCHANGED server
     \/ c.step = "sent" /\ ~NeedsSetup /\ Step(c, "refused", None) /\ UNCHANGED server
     \/ c.step = "counted" /\ accounts[c.arg.user] # None /\ Step(c, "refused", None) /\ UNCHANGED server
     \/ /\ c.step = "counted" /\ accounts[c.arg.user] = None
        /\ accounts' = [accounts EXCEPT ![c.arg.user] = Account(TRUE, c.arg.pw)]
        /\ Step(c, "verified", [pw |-> c.arg.pw, once |-> FALSE])
        /\ UNCHANGED <<sessions, tokens, fails, minted, opened, history>>
Logout(c) == /\ c.kind = "logout" /\ c.step = "sent"
             /\ sessions' = sessions \ sessionOf(c.cookie) /\ Step(c, "ok", None)
             /\ UNCHANGED <<accounts, tokens, fails, minted, opened, history>>

(* A change of several statements, each a step: nothing holds them together. *)
DeleteOtherUserSessions(n, no) == {s \in sessions : s.user = n /\ s.no # no}
Kept(c) == IF c.kind = "password" THEN c.cookie ELSE None
\* The first statement of a change that is to sign somebody out: until the second, the
\* sessions are owed, and a sign-in that is through its check is overtaken.
Update(c, n, a) ==
  /\ accounts' = [accounts EXCEPT ![n] = a]
  /\ owed' = owed \cup {<<s.no, c.no>> : s \in DeleteOtherUserSessions(n, Kept(c))}
  /\ overtaken' = overtaken \cup {x.no : x \in {y \in calls : y.step = "verified" /\ y.arg.user = n}}
  /\ Step(c, "changed", n) /\ UNCHANGED <<tokens, fails, minted, opened, issued>>
SignsOut(c) ==
  /\ c.kind \in {"password", "reset", "bar"} /\ c.step = "changed"
  /\ sessions' = sessions \ DeleteOtherUserSessions(c.read, Kept(c))
  /\ owed' = {o \in owed : o[2] # c.no}
  /\ Step(c, "ok", None) /\ UNCHANGED <<accounts, tokens, fails, minted, opened, issued, overtaken>>
Checked(c, n, right) == Step(c, IF right THEN "checked" ELSE "refused", n) /\ UNCHANGED server
Only(c, n, a, step, read) ==
  /\ accounts' = [accounts EXCEPT ![n] = a] /\ Step(c, step, read)
  /\ UNCHANGED <<sessions, tokens, fails, minted, opened, history>>

\* A password changed signs the other sessions of the person out; one set by an
\* administrator, all of them.
ChangePassword(c, n) ==
  /\ c.kind = "password"
  /\ \/ c.step = "sent" /\ Checked(c, n, accounts[n].pw = c.arg.now)
     \/ /\ c.step = "checked" /\ Update(c, n, [accounts[n] EXCEPT !.pw = c.arg.next])
        /\ sessions' = {IF s.no = c.cookie THEN [s EXCEPT !.pw = c.arg.next] ELSE s : s \in sessions}
ResetPassword(c) == /\ c.kind = "reset" /\ UNCHANGED sessions
                    /\ Update(c, c.arg.user, [accounts[c.arg.user] EXCEPT !.pw = c.arg.pw])
SetDisabled(c) ==
  LET n == c.arg.user a == [accounts[n] EXCEPT !.disabled = c.arg.disabled]
  IN /\ c.kind = "bar"
     /\ \/ c.arg.disabled /\ Update(c, n, a) /\ UNCHANGED sessions
        \/ ~c.arg.disabled /\ Only(c, n, a, "ok", None)
CreateUser(c) ==
  /\ c.kind = "create"
  /\ \/ accounts[c.arg.user] # None /\ Step(c, "refused", None) /\ UNCHANGED server
     \/ /\ accounts[c.arg.user] = None
        /\ accounts' = [accounts EXCEPT ![c.arg.user] = Account(c.arg.admin, c.arg.pw)]
        /\ Step(c, "ok", None) /\ UNCHANGED <<sessions, tokens, fails, minted, opened, history>>
\* New codes come one by one, once the old ones are gone.
issueRecoveryCodes(c) ==
  LET n == c.read.user codes == c.read.codes \cup {minted'}
      step == IF Cardinality(codes) = recoveryCodeCount THEN "ok" ELSE "cleared"
  IN /\ c.kind \in {"enable", "codes"} /\ c.step = "cleared" /\ minted' = minted + 1
     /\ accounts' = [accounts EXCEPT ![n].codes = @ \cup {minted'}]
     /\ issued' = issued \cup {<<minted', c.no>>}
     /\ Step(c, step, [user |-> n, codes |-> codes])
     /\ UNCHANGED <<sessions, tokens, fails, opened, owed, overtaken>>
DeleteRecoveryCodes(c, n, step, read) == Only(c, n, [accounts[n] EXCEPT !.codes = {}], step, read)
Begin2FASetup(c, n) ==
  /\ c.kind = "secret"
  /\ \/ accounts[n].totp # 0 /\ Step(c, "refused", None) /\ UNCHANGED server
     \/ /\ accounts[n].totp = 0 /\ minted' = minted + 1 /\ Step(c, "ok", minted')
        /\ UNCHANGED <<accounts, sessions, tokens, fails, opened, history>>
Enable2FA(c, n) ==
  /\ c.kind = "enable"
  /\ \/ c.step = "sent" /\ Checked(c, n, accounts[n].totp = 0 /\ c.arg.code = c.arg.secret)
     \/ c.step = "checked" /\ Only(c, n, [accounts[n] EXCEPT !.totp = c.arg.secret], "changed", n)
     \/ c.step = "changed" /\ DeleteRecoveryCodes(c, n, "cleared", [user |-> n, codes |-> {}])
Disable2FA(c, n) ==
  /\ c.kind = "disable"
  /\ \/ c.step = "sent" /\ Checked(c, n, accounts[n].totp # 0 /\ accounts[n].pw = c.arg)
     \/ c.step = "checked" /\ Only(c, n, [accounts[n] EXCEPT !.totp = 0], "changed", n)
     \/ c.step = "changed" /\ DeleteRecoveryCodes(c, n, "ok", None)
NewAccessCodes(c, n) == /\ c.kind = "codes"
                        /\ DeleteRecoveryCodes(c, n, "cleared", [user |-> n, codes |-> {}])
CreateAPIToken(c, n) == /\ c.kind = "token"
                        /\ minted' = minted + 1 /\ tokens' = tokens \cup {[no |-> minted', user |-> n, scope |-> c.arg]}
                        /\ Step(c, "ok", minted') /\ UNCHANGED <<accounts, sessions, fails, opened, history>>
RevokeAPIToken(c, n) == /\ c.kind = "revoke"
                        /\ tokens' = {t \in tokens : ~(t.no = c.arg /\ t.user = n)}
                        /\ Step(c, IF tokens' = tokens THEN "refused" ELSE "ok", None)
                        /\ UNCHANGED <<accounts, sessions, fails, minted, opened, history>>
Me(c, n) == c.kind = "me" /\ Step(c, "ok", n) /\ UNCHANGED server
Admin(c, n) ==
  \/ accounts[n].admin /\ (CreateUser(c) \/ ResetPassword(c) \/ SetDisabled(c))
  \/ ~accounts[n].admin /\ c.kind \in {"create", "reset", "bar"} /\ Step(c, "refused", None) /\ UNCHANGED server
Own(c, n) == \/ Me(c, n) \/ Begin2FASetup(c, n) \/ Enable2FA(c, n) \/ Disable2FA(c, n) \/ ChangePassword(c, n)
             \/ NewAccessCodes(c, n) \/ CreateAPIToken(c, n) \/ RevokeAPIToken(c, n) \/ Admin(c, n)
SignsIn(c) == c.kind \in {"login", "recovery", "setup"}
\* A session of somebody disabled goes as it is met.
Authenticate(c) == /\ requireAuth(c) = {} /\ Step(c, "unknown", None)
                   /\ sessions' \in {sessions, sessions \ sessionOf(c.cookie)}
                   /\ UNCHANGED <<accounts, tokens, fails, minted, opened, history>>
Goes(c, n) == ChangePassword(c, n) \/ Enable2FA(c, n) \/ Disable2FA(c, n)
\* A request may be stopped between two of its statements, the first of which is done.
Stop(c) == /\ c.step \in {"verified", "changed", "cleared"}
           /\ Step(c, "failed", None) /\ overtaken' = overtaken \cup {c.no}
           /\ UNCHANGED <<accounts, sessions, tokens, fails, minted, opened, issued, owed>>
Serve(c) ==
  \/ Allowed(c) \/ Login(c) \/ LoginWithAccessCode(c) \/ Setup(c) \/ openSession(c) \/ Logout(c)
  \/ /\ c.step = "sent" /\ ~SignsIn(c) /\ c.kind # "logout"
     /\ Authenticate(c) \/ \E n \in requireAuth(c) : Own(c, n)
  \/ c.step \in {"checked", "changed"} /\ Goes(c, c.read)
  \/ SignsOut(c) \/ issueRecoveryCodes(c) \/ Stop(c)

(* What an answer brings. *)
Bring(c, p, user, no) == /\ page' = [page EXCEPT ![c.dev] = p] /\ me' = [me EXCEPT ![c.dev] = user] /\ cookie' = [cookie EXCEPT ![c.dev] = no]
useLogin(c) ==
  LET d == c.dev p == page[d] IN
  /\ SignsIn(c)
  /\ \/ c.step = "ok" /\ Bring(c, Blank("home"), c.arg.user, c.read)
     \/ c.step = "challenge" /\ Bring(c, [p EXCEPT !.challenged = TRUE], me[d], cookie[d])
     \/ c.step \in {"refused", "failed"} /\ Bring(c, p, me[d], cookie[d])
useMe(c) ==
  LET d == c.dev IN
  /\ c.kind = "me"
  /\ \/ c.step = "unknown" /\ Bring(c, Blank("login"), None, cookie[d])
     \/ c.step = "ok" /\ Bring(c, page[d], c.read, cookie[d])

\* The codes are on screen, if the page that asked for them still is.
IssuesCodes(c) == c.kind \in {"enable", "codes"} /\ c.step \in {"cleared", "ok"}
Shows(c) == IssuesCodes(c) /\ c.step = "ok" /\ page[c.dev].at = (IF c.kind = "enable" THEN "enrol" ELSE "access")
ShowCodes(c) ==
  LET p == page[c.dev] IN
  IF Shows(c) THEN [p EXCEPT !.shown = c.read.codes]
  ELSE IF c.step = "ok" /\ c.kind = "secret" /\ p.at = "enrol" THEN [p EXCEPT !.secret = c.read]
  ELSE IF c.step = "ok" /\ c.kind = "disable" THEN Blank("home") ELSE p
Answer(c) ==
  LET d == c.dev IN
  /\ c.step \in {"ok", "refused", "challenge", "unknown", "failed"} /\ calls' = calls \ {c}
  /\ \/ useLogin(c) \/ useMe(c)
     \/ c.kind = "logout" /\ Bring(c, Blank("login"), None, None)
     \/ ~SignsIn(c) /\ c.kind \notin {"me", "logout"} /\ Bring(c, ShowCodes(c), me[d], cookie[d])
  /\ seen' = IF Shows(c) THEN [seen EXCEPT ![me[d]] = @ \cup c.read.codes] ELSE seen
  /\ UNCHANGED <<ssoOnly, server, made, edits>>

(* Time, bounded with the pages turned. *)
Expire == /\ \E s \in sessions : sessions' = sessions \ {s}
          /\ edits < MaxEdits /\ edits' = edits + 1
          /\ UNCHANGED <<ssoOnly, accounts, tokens, fails, minted, opened, history, cookie, me, page, calls, made, seen>>
WindowPasses == /\ \E n \in Names : fails[n] > 0 /\ fails' = [fails EXCEPT ![n] = 0]
                /\ edits < MaxEdits /\ edits' = edits + 1
                /\ UNCHANGED <<ssoOnly, accounts, sessions, tokens, minted, opened, history, cookie, me, page, calls, made, seen>>

Next == \/ \E d \in Devices : \/ App(d) \/ SetupPage(d) \/ PasswordForm(d) \/ SsoOnlyForm(d) \/ EnrollModal(d) \/ finish(d)
                              \/ DisableModal(d) \/ PasswordCard(d) \/ AccessCodesCard(d) \/ ApiTokensPage(d) \/ UsersPage(d)
                              \/ useLogout(d) \/ AuthProvider(d)
        \/ \E c \in calls : Serve(c) \/ Answer(c)
        \/ Expire \/ WindowPasses

Spec == Init /\ [][Next]_vars

----------------------------------------------------------------------------

\* What is stored has its shape, and a session or a token is of someone who is there.
TypeOK == /\ accounts \in [Names -> Accounts \cup {None}] /\ {minted, made} \subseteq Nat
          /\ sessions \subseteq [no : Int, user : There, pw : Passwords]
          /\ tokens \subseteq [no : Int, user : There, scope : {"read", "write"}]
          /\ fails \in [Names -> Nat] /\ opened \subseteq Int \X Int
          /\ cookie \in [Devices -> Int \cup {None}] /\ me \in [Devices -> Names \cup {None}]
          /\ seen \in [Names -> SUBSET Int] /\ overtaken \subseteq Nat
          /\ issued \subseteq Int \X Nat /\ owed \subseteq Int \X Nat

\* Whoever guesses at a password has MaxTries in a window, and with several at once
\* no more than those that were let in before the last of them failed (ratelimit.go).
TriesAreLimited == \A n \in Names : fails[n] < MaxTries + Cardinality(Devices)

\* A one-time code opens one session, whoever else types it ("Each code works once",
\* en.json; auth/service.go checkSecondFactor, LoginWithAccessCode).
CodesOpenOnce == \A x, y \in opened : x[1] = y[1] => x = y

\* The codes a person keeps are codes they were shown or are about to be, but for those of a
\* request that was stopped half way and of a page that was left before its answer came: an
\* account whose codes nobody saw has no way in when the other one fails (Enable2FA,
\* NewAccessCodes: "shown once").
OnTheirWay == UNION {c.read.codes : c \in {x \in calls : IssuesCodes(x)}}
Unseen == {i[1] : i \in {j \in issued : j[2] \in overtaken}}
KeptCodesWereShown == \A n \in There : accounts[n].codes \subseteq seen[n] \cup OnTheirWay \cup Unseen

\* No session outlives the password it was opened with, but the one that changed it, and
\* nobody disabled is in (auth/service.go ChangePassword: "whoever else knew the old password
\* loses access at once"; SetDisabled: "disabling also revokes its sessions").  What the code
\* leaves in are the sessions whose deletion is still to come or was stopped before it came,
\* and the one of a sign-in that had passed its check when the change came.
OthersAreOut ==
  \A s \in sessions : \/ s.pw = accounts[s.user].pw /\ ~accounts[s.user].disabled
                      \/ \E o \in owed : o[1] = s.no

\* All of them: who has a way in keeps it, and nobody else gets one.
AccessIsKept == TypeOK /\ CodesOpenOnce /\ TriesAreLimited /\ KeptCodesWereShown /\ OthersAreOut

=============================================================================
