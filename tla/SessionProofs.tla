---------------------------- MODULE SessionProofs ----------------------------
(***************************************************************************)
(* Who has a way in keeps it and nobody else gets one, for any people,     *)
(* devices, passwords and number of calls, wherever a request stops        *)
(* between two of its statements: a one-time code opens one session and    *)
(* guesses are limited; nobody is in with a password that was changed or   *)
(* after being disabled, and the codes kept were shown, but for what the   *)
(* definitions of the two name.                                            *)
(***************************************************************************)
EXTENDS Session, FiniteSetTheorems, TLAPS

-----------------------------------------------------------------------------
(***************************************************************************)
(* The invariant                                                           *)
(***************************************************************************)

\* The requests that change something and then something else, and what those that issue codes
\* have so far.
Changing == {"password", "enable", "disable", "reset", "bar"}
IsIssue(r) == r = [user |-> r.user, codes |-> r.codes] /\ r.user \in There /\ r.codes \subseteq Int

\* A call has the fields of a call, and what its kind and its step call for.
IsCall(c) ==
  /\ c = [no |-> c.no, dev |-> c.dev, kind |-> c.kind, cookie |-> c.cookie, arg |-> c.arg,
          step |-> c.step, read |-> c.read]
  /\ c.no \in Nat /\ c.dev \in Devices /\ c.cookie = cookie[c.dev]
  /\ SignsIn(c) => c.arg.user \in Names
  /\ c.kind \in {"setup", "create", "reset"} => c.arg.user \in Names /\ c.arg.pw \in Passwords
  /\ c.kind \in {"reset", "bar"} => c.arg.user \in There
  /\ c.kind = "create" => c.arg.admin \in BOOLEAN
  /\ c.kind = "bar" => c.arg.disabled \in BOOLEAN
  /\ c.kind = "password" => c.arg.next \in Passwords
  /\ c.kind = "enable" => c.arg.secret \in Int
  /\ c.kind = "token" => c.arg \in {"read", "write"}
  /\ c.step = "allowed" => c.kind \in {"login", "recovery"}
  /\ c.step = "verified" => /\ SignsIn(c) /\ c.arg.user \in There
                            /\ c.read.pw \in Passwords /\ (c.read.once => c.arg.code \in Int)
  /\ c.step = "ok" /\ (SignsIn(c) \/ c.kind = "secret") => c.read \in Int
  /\ c.step = "ok" /\ c.kind = "me" => c.read \in Names
  /\ c.step = "checked" => c.kind \in {"password", "enable", "disable"}
  /\ c.step \in {"checked", "changed"} => c.read \in There /\ c.kind \in Changing
  /\ IssuesCodes(c) => IsIssue(c.read)

IsPage(p) ==
  /\ p = [at |-> p.at, code |-> p.code, challenged |-> p.challenged, secret |-> p.secret,
          shown |-> p.shown]
  /\ p.secret \in Int

Shape ==
  /\ TypeOK
  /\ \A c \in calls : IsCall(c)
  /\ \A c, x \in calls : c.dev = x.dev => c = x
  /\ page = [d \in Devices |-> page[d]] /\ \A d \in Devices : IsPage(page[d])

\* The session a code is about to open.
Using(c) == c.step = "verified" /\ c.read.once

\* All there is was numbered, and no number is given twice.
Numbered ==
  /\ \A s \in sessions : s.no <= minted
  /\ \A s, t \in sessions : s.no = t.no => s = t
  /\ \A n \in There : \A k \in accounts[n].codes : k <= minted
  /\ \A x \in opened : x[1] <= minted
  /\ \A d \in Devices : cookie[d] # None => cookie[d] <= minted
  /\ \A c \in calls : /\ SignsIn(c) /\ c.step = "ok" => c.read <= minted
                      /\ IssuesCodes(c) => \A k \in c.read.codes : k <= minted
                      /\ Using(c) => c.arg.code <= minted

\* A code is one account's until it is used, and nobody's afterwards.
CodesGo ==
  /\ \A n, m \in There : n # m => accounts[n].codes \cap accounts[m].codes = {}
  /\ \A x \in opened : \A n \in There : x[1] \notin accounts[n].codes
  /\ \A c \in calls : Using(c) =>
       /\ \A n \in There : c.arg.code \notin accounts[n].codes
       /\ \A x \in opened : x[1] # c.arg.code
       /\ \A y \in calls : Using(y) /\ y.arg.code = c.arg.code => y = c
  /\ CodesOpenOnce

\* The devices whose guess at n was let in and is not answered yet.
Trying(n) == {d \in Devices : \E c \in calls : c.dev = d /\ c.step = "allowed" /\ c.arg.user = n}
Tries == \A n \in Names : fails[n] + Cardinality(Trying(n)) < MaxTries + Cardinality(Devices)

\* A device shows the person its session is of, and changes the password of that person.
Told(c) == \/ c.kind = "me" /\ c.step = "ok"
           \/ c.kind = "password" /\ c.step \in {"checked", "changed"}
Holders ==
  /\ \A d \in Devices : me[d] # None => \A s \in sessions : s.no = cookie[d] => s.user = me[d]
  /\ \A c \in calls : SignsIn(c) /\ c.step = "ok" =>
       \A s \in sessions : s.no = c.read => s.user = c.arg.user
  /\ \A c \in calls : Told(c) => \A s \in sessions : s.no = c.cookie => s.user = c.read

\* Codes on their way find the page that is to show them, unless it was left, and the
\* person they are of.
Issuing(c) == c.kind \in {"enable", "codes"}
Awaits(c) == \/ page[c.dev].at = (IF c.kind = "enable" THEN "enrol" ELSE "access")
             \/ c.no \in overtaken
OnScreen ==
  /\ \A c \in calls : Issuing(c) =>
       /\ me[c.dev] # None /\ Awaits(c)
       /\ c.step \in {"checked", "changed"} => me[c.dev] = c.read
  /\ \A c \in calls : IssuesCodes(c) =>
       /\ me[c.dev] = c.read.user
       /\ \A n \in There : accounts[n].codes \cap c.read.codes # {} => me[c.dev] = n
       /\ \A k \in c.read.codes : <<k, c.no>> \in issued
  /\ \A n \in There : \A k \in accounts[n].codes :
       \/ k \in seen[n] \cup Unseen
       \/ \E c \in calls : IssuesCodes(c) /\ k \in c.read.codes

\* Calls are numbered as they are made, and what a change owes is of a call already made.
Counted ==
  /\ \A c \in calls : c.no <= made
  /\ \A c, x \in calls : c.no = x.no => c = x
  /\ \A o \in owed : o[1] <= minted /\ o[2] <= made

\* A sign-in under way was checked against what there is or is overtaken; what a change
\* owes it is about to delete.
SignsPeopleOut(c) == c.kind \in {"password", "reset", "bar"} /\ c.step = "changed"
StillRight ==
  /\ OthersAreOut
  /\ \A c \in calls : c.step = "verified" =>
       \/ c.read.pw = accounts[c.arg.user].pw /\ ~accounts[c.arg.user].disabled
       \/ c.no \in overtaken
  /\ \A c \in calls : \A o \in owed : o[2] = c.no =>
       /\ c.step \notin {"sent", "checked"}
       /\ SignsPeopleOut(c) =>
            \A s \in sessions : s.no = o[1] => s \in DeleteOtherUserSessions(c.read, Kept(c))

SignInInv == Shape /\ Numbered /\ CodesGo /\ Tries /\ Holders

-----------------------------------------------------------------------------
(***************************************************************************)
(* What a step comes to, for the invariant                                 *)
(***************************************************************************)

\* A call is sent by a device that has none; a page turns, over a call or not.
Sends(d) ==
  \E c, p :
    /\ IsCall(c) /\ c.dev = d /\ c.step = "sent" /\ ~isPending(d) /\ calls' = calls \cup {c}
    /\ c.no = made + 1 /\ made' = made + 1
    /\ IsPage(p) /\ page' = [page EXCEPT ![d] = p]
    /\ Issuing(c) => me[d] # None /\ p.at = (IF c.kind = "enable" THEN "enrol" ELSE "access")
    /\ UNCHANGED <<server, cookie, me, seen>>
Turns(d) ==
  /\ \E p : IsPage(p) /\ page' = [page EXCEPT ![d] = p]
  /\ overtaken \subseteq overtaken' /\ overtaken' \subseteq Nat
  /\ me[d] = None \/ \A c \in calls : c.dev = d /\ Issuing(c) => c.no \in overtaken'
  /\ UNCHANGED <<accounts, sessions, tokens, fails, minted, opened, issued, owed, cookie, me,
                 seen, calls, made>>

\* A call gets to a step, having read something, and the pages stay.
Becomes(c, step, read) ==
  /\ calls' = (calls \ {c}) \cup
       {[no |-> c.no, dev |-> c.dev, kind |-> c.kind, cookie |-> c.cookie, arg |-> c.arg,
         step |-> step, read |-> read]}
  /\ UNCHANGED <<cookie, me, page, seen, made>>

\* It is let in to guess, guesses wrong, guesses right.
Enters(c) == /\ c.kind \in {"login", "recovery"} /\ fails[c.arg.user] < MaxTries
             /\ Becomes(c, "allowed", None) /\ UNCHANGED server
Misses(c) == /\ c.step = "allowed" /\ fails' = [fails EXCEPT ![c.arg.user] = fails[c.arg.user] + 1]
             /\ Becomes(c, "refused", None) /\ UNCHANGED <<accounts, sessions, tokens, minted, opened, history>>
Hits(c) ==
  LET n == c.arg.user a == accounts[n]
  IN /\ c.step = "allowed" /\ n \in There /\ ~a.disabled /\ fails' = [fails EXCEPT ![n] = 0]
     /\ accounts' = [accounts EXCEPT ![n] = [a EXCEPT !.codes = a.codes \ {c.arg.code}]]
     /\ Becomes(c, "verified", [pw |-> a.pw, once |-> c.arg.code \in a.codes])
     /\ UNCHANGED <<sessions, tokens, minted, opened, history>>
Opens(c) ==
  /\ c.step = "verified" /\ minted' = minted + 1
  /\ sessions' = sessions \cup {[no |-> minted + 1, user |-> c.arg.user, pw |-> c.read.pw]}
  /\ opened' = IF c.read.once THEN opened \cup {<<c.arg.code, minted + 1>>} ELSE opened
  /\ owed' = IF c.no \in overtaken THEN owed \cup {<<minted + 1, c.no>>} ELSE owed
  /\ Becomes(c, "ok", minted + 1) /\ UNCHANGED <<accounts, tokens, fails, issued, overtaken>>

\* Somebody new is there.
Joins(c) ==
  /\ c.kind \in {"setup", "create"} /\ accounts[c.arg.user] = None
  /\ \E admin \in BOOLEAN :
       accounts' = [accounts EXCEPT ![c.arg.user] = Account(admin, c.arg.pw)]
  /\ IF c.kind = "setup" THEN Becomes(c, "verified", [pw |-> c.arg.pw, once |-> FALSE])
                         ELSE Becomes(c, "ok", None)
  /\ UNCHANGED <<sessions, tokens, fails, minted, opened, history>>

\* Nothing but the answer, or a session or a token less.
Waves(c) ==
  /\ \E step \in {"refused", "unknown", "counted", "challenge", "failed", "ok"} :
       /\ \E read : Becomes(c, step, read)
       /\ step = "ok" => c.kind \in {"revoke", "logout"}
       /\ step = "failed" => c.no \in overtaken'
  /\ c.step # "ok" /\ (c.step = "cleared" => c.no \in overtaken')
  /\ sessions' \subseteq sessions /\ tokens' \subseteq tokens
  /\ overtaken \subseteq overtaken' /\ overtaken' \subseteq Nat
  /\ UNCHANGED <<accounts, fails, minted, opened, issued, owed>>
Knows(c, n) == c.kind = "me" /\ Becomes(c, "ok", n) /\ UNCHANGED server
\* It is found right, and goes on.
Holds(c, n) == /\ c.kind \in {"password", "enable", "disable"} /\ Becomes(c, "checked", n)
               /\ UNCHANGED server
\* A number is given to a secret, a token, or a code.
Mints(c) ==
  /\ c.kind \in {"secret", "token"} /\ minted' = minted + 1 /\ Becomes(c, "ok", minted + 1)
  /\ tokens' \subseteq [no : Int, user : There, scope : {"read", "write"}]
  /\ UNCHANGED <<accounts, sessions, fails, opened, history>>
Issues(c) ==
  LET n == c.read.user k == minted + 1 a == accounts[n] codes == c.read.codes \cup {k}
  IN /\ Issuing(c) /\ c.step = "cleared" /\ minted' = k
     /\ accounts' = [accounts EXCEPT ![n] = [a EXCEPT !.codes = a.codes \cup {k}]]
     /\ \E step \in {"cleared", "ok"} : Becomes(c, step, [user |-> n, codes |-> codes])
     /\ issued' = issued \cup {<<k, c.no>>}
     /\ UNCHANGED <<sessions, tokens, fails, opened, owed, overtaken>>

\* What an account that is changed becomes: no more codes, and another password, or out,
\* only with its sessions owed and its sign-ins overtaken.
Clears(c, n, a) ==
  /\ c.kind \in {"enable", "disable", "bar", "codes"}
  /\ a.pw = accounts[n].pw /\ (a.disabled => accounts[n].disabled)
  /\ \/ c.kind \in {"enable", "disable"} /\ Becomes(c, "changed", n)
     \/ Issuing(c) /\ Becomes(c, "cleared", [user |-> n, codes |-> {}])
     \/ c.kind \in {"disable", "bar"} /\ Becomes(c, "ok", None)
  /\ c.step = "sent" \/ c.read = n
  /\ Issuing(c) /\ c.step = "sent" => \E s \in sessions : s.no = c.cookie /\ s.user = n
  /\ UNCHANGED <<sessions, owed, overtaken>>
Updates(c, n, a) ==
  /\ c.kind \in {"password", "reset", "bar"} /\ Becomes(c, "changed", n)
  /\ c.step \in {"sent", "checked"} /\ (c.kind = "password" => c.step = "checked" /\ c.read = n)
  /\ owed' = owed \cup {<<s.no, c.no>> : s \in DeleteOtherUserSessions(n, Kept(c))}
  /\ overtaken' = overtaken \cup {x.no : x \in {y \in calls : y.step = "verified" /\ y.arg.user = n}}
  /\ c.kind # "password" => UNCHANGED sessions
  /\ c.kind = "password" =>
       /\ a.disabled = accounts[n].disabled
       /\ \A s \in sessions' : \E t \in sessions :
            t.no = s.no /\ t.user = s.user /\ s.pw = (IF s.no = c.cookie THEN a.pw ELSE t.pw)
Tames(c, n) ==
  /\ \E a \in Accounts :
       /\ a.codes \subseteq accounts[n].codes /\ accounts' = [accounts EXCEPT ![n] = a]
       /\ Clears(c, n, a) \/ Updates(c, n, a)
  /\ \A s \in sessions' : /\ s = [no |-> s.no, user |-> s.user, pw |-> s.pw] /\ s.pw \in Passwords
                          /\ \E t \in sessions : t.no = s.no /\ t.user = s.user
  /\ \A s, t \in sessions' : s.no = t.no => s = t
  /\ UNCHANGED <<tokens, fails, minted, opened, issued>>
\* What was owed is done.
Empties(c) ==
  /\ SignsPeopleOut(c) /\ Becomes(c, "ok", None)
  /\ sessions' = sessions \ DeleteOtherUserSessions(c.read, Kept(c))
  /\ owed' = {o \in owed : o[2] # c.no}
  /\ UNCHANGED <<accounts, tokens, fails, minted, opened, issued, overtaken>>

Serves(c) ==
  \/ c.step = "sent" /\ Enters(c)
  \/ c.kind \in {"login", "recovery"} /\ (Misses(c) \/ Hits(c))
  \/ SignsIn(c) /\ Opens(c)
  \/ Waves(c) \/ Empties(c) \/ Issues(c)
  \/ c.step \in {"sent", "counted"} /\ Joins(c)
  \/ c.step = "sent" /\ Mints(c)
  \/ c.step \in {"sent", "checked", "changed"} /\ \E n \in There : Tames(c, n)
  \/ c.step = "sent" /\ \E s \in sessions : /\ s.no = c.cookie
                                            /\ Knows(c, s.user) \/ Holds(c, s.user)

\* An answer brings a person in, shows who is in, or shows nobody; codes it brings are
\* shown when their page still is there.
Brings(c) ==
  LET d == c.dev IN
  /\ c.step \in {"ok", "refused", "challenge", "unknown", "failed"} /\ calls' = calls \ {c}
  /\ \E p : IsPage(p) /\ page' = [page EXCEPT ![d] = p]
  /\ \E user, no :
       /\ me' = [me EXCEPT ![d] = user] /\ cookie' = [cookie EXCEPT ![d] = no]
       /\ \/ user = None /\ no \in {None, cookie[d]}
          \/ user = me[d] /\ no = cookie[d]
          \/ c.step = "ok" /\ SignsIn(c) /\ user = c.arg.user /\ no = c.read
          \/ c.step = "ok" /\ c.kind = "me" /\ user = c.read /\ no = cookie[d]
  /\ seen' = IF Shows(c) THEN [seen EXCEPT ![me[d]] = seen[me[d]] \cup c.read.codes] ELSE seen
  /\ UNCHANGED <<server, made>>

\* A session is over, or a window.
Passes ==
  /\ sessions' \subseteq sessions
  /\ fails' \in [Names -> Nat] /\ \A n \in Names : fails'[n] <= fails[n]
  /\ UNCHANGED <<accounts, tokens, minted, opened, history, cookie, me, page, calls, seen, made>>

\* A call made by a page is well formed when its argument is what its kind calls for.
LEMMA Sending ==
  ASSUME Shape, NEW d \in Devices, NEW kind, NEW arg, mutate(d, kind, arg),
         NEW p, IsPage(p), page' = [page EXCEPT ![d] = p],
         LET c == [no |-> made + 1, dev |-> d, kind |-> kind, cookie |-> cookie[d], arg |-> arg,
                   step |-> "sent", read |-> None]
         IN IsCall(c),
         kind \in {"enable", "codes"} =>
           me[d] # None /\ p.at = (IF kind = "enable" THEN "enrol" ELSE "access")
  PROVE  Sends(d)
  BY DEF Sends, mutate, server, Issuing

\* What a person does on a page.
Acts(d) == \/ App(d) \/ SetupPage(d) \/ PasswordForm(d) \/ SsoOnlyForm(d) \/ EnrollModal(d)
           \/ finish(d) \/ DisableModal(d) \/ PasswordCard(d) \/ AccessCodesCard(d)
           \/ ApiTokensPage(d) \/ UsersPage(d) \/ useLogout(d) \/ AuthProvider(d)

\* It sends a call or turns the page.
LEMMA Acting ==
  ASSUME Shape, NEW d \in Devices, Acts(d)
  PROVE  Sends(d) \/ Turns(d)
<1> DEFINE c(kind, arg) == [no |-> made + 1, dev |-> d, kind |-> kind, cookie |-> cookie[d],
                            arg |-> arg, step |-> "sent", read |-> None]
<1>0. /\ IsPage(page[d]) /\ page = [page EXCEPT ![d] = page[d]] /\ page = [x \in Devices |-> page[x]]
      /\ made \in Nat /\ overtaken \subseteq Nat /\ \A x \in calls : x.no \in Nat
  BY DEF Shape, TypeOK, IsCall
<1>1. \A at : IsPage(Blank(at)) /\ Blank(at).at = at
  BY DEF IsPage, Blank
<1>2. First \in Names
  BY SessionConstants
<1>3. \A kind, arg :
        /\ kind \notin {"login", "recovery", "setup", "create", "reset", "bar", "password", "enable", "token"}
        => IsCall(c(kind, arg))
  BY <1>0 DEF IsCall, SignsIn, IssuesCodes
<1>4. CASE App(d)
  <2>1. PICK at : /\ me[d] # None /\ Edit(d, Blank(at))
                  /\ overtaken' = overtaken \cup {x.no : x \in {y \in calls : y.dev = d /\ y.kind \in {"enable", "codes"}}}
    BY <1>4 DEF App
  <2>2. overtaken \subseteq overtaken' /\ overtaken' \subseteq Nat
    BY <1>0, <2>1
  <2>3. \A x \in calls : x.dev = d /\ Issuing(x) => x.no \in overtaken'
    BY <2>1 DEF Issuing
  <2> QED BY <1>1, <2>1, <2>2, <2>3 DEF Edit, Turns
<1>5. CASE SetupPage(d)
  <2>1. PICK pw \in Passwords :
          mutate(d, "setup", [user |-> First, pw |-> pw, code |-> None]) /\ UNCHANGED page
    BY <1>5 DEF SetupPage
  <2>2. IsCall(c("setup", [user |-> First, pw |-> pw, code |-> None]))
    BY <1>0, <1>2 DEF IsCall, SignsIn, IssuesCodes
  <2> QED BY <2>1, <2>2, <1>0, Sending
<1>6. CASE PasswordForm(d)
  <2>1. PICK n, pw, code :
          /\ n \in Names /\ pw \in Passwords
          /\ mutate(d, "login", [user |-> n, pw |-> pw, code |-> code, asked |-> page[d].challenged])
          /\ page' = [page EXCEPT ![d].code = code, ![d].challenged = FALSE]
    BY <1>6 DEF PasswordForm
  <2>2. IsCall(c("login", [user |-> n, pw |-> pw, code |-> code, asked |-> page[d].challenged]))
    BY <1>0, <2>1 DEF IsCall, SignsIn, IssuesCodes
  <2> DEFINE p == [page[d] EXCEPT !.code = code, !.challenged = FALSE]
  <2>3. IsPage(p)
    <3>1. page[d] \in [at : {page[d].at}, code : {page[d].code}, challenged : {page[d].challenged},
                       secret : {page[d].secret}, shown : {page[d].shown}]
      BY <1>0 DEF IsPage
    <3>2. p \in [at : {page[d].at}, code : {code}, challenged : {FALSE},
                 secret : {page[d].secret}, shown : {page[d].shown}]
      BY <3>1
    <3>3. page[d].secret \in Int
      BY <1>0 DEF IsPage
    <3> HIDE DEF p
    <3> QED BY <3>2, <3>3 DEF IsPage
  <2>4. page' = [page EXCEPT ![d] = p]
    BY <2>1, <1>0
  <2> DEFINE arg == [user |-> n, pw |-> pw, code |-> code, asked |-> page[d].challenged]
  <2>5. mutate(d, "login", arg) /\ IsCall(c("login", arg))
    BY <2>1, <2>2
  <2> HIDE DEF p, arg
  <2>6. "login" \notin {"enable", "codes"}
    OBVIOUS
  <2>7. Sends(d)
    BY <2>3, <2>4, <2>5, <2>6, Sending, ZenonT(30)
  <2> QED BY <2>7
<1>7. CASE SsoOnlyForm(d)
  <2>1. PICK n, code :
          n \in Names /\ mutate(d, "recovery", [user |-> n, code |-> code]) /\ UNCHANGED page
    BY <1>7 DEF SsoOnlyForm
  <2>2. IsCall(c("recovery", [user |-> n, code |-> code]))
    BY <1>0, <2>1 DEF IsCall, SignsIn, IssuesCodes
  <2> QED BY <2>1, <2>2, <1>0, Sending
<1>8. CASE EnrollModal(d)
  <2>1. CASE mutate(d, "secret", None) /\ UNCHANGED page
    <3>1. IsCall(c("secret", None))
      BY <1>3
    <3> QED BY <2>1, <3>1, <1>0, Sending
  <2>2. ASSUME NEW code, UNCHANGED page,
               mutate(d, "enable", [secret |-> page[d].secret, code |-> code])
        PROVE  Sends(d)
    <3>1. IsCall(c("enable", [secret |-> page[d].secret, code |-> code]))
      BY <1>0 DEF IsCall, SignsIn, IssuesCodes, IsPage
    <3> QED BY <2>2, <3>1, <1>0, <1>8, Sending DEF EnrollModal
  <2> QED BY <1>8, <2>1, <2>2 DEF EnrollModal
<1>9. CASE finish(d)
  <2>1. IsCall(c("me", None))
    BY <1>3
  <2> QED BY <1>9, <2>1, <1>1, Sending DEF finish
<1>10. CASE DisableModal(d)
  BY <1>10, <1>0, <1>3, Sending DEF DisableModal
<1>11. CASE PasswordCard(d)
  <2>1. PICK now, next \in Passwords : mutate(d, "password", [now |-> now, next |-> next]) /\ UNCHANGED page
    BY <1>11 DEF PasswordCard
  <2>2. IsCall(c("password", [now |-> now, next |-> next]))
    BY <1>0 DEF IsCall, SignsIn, IssuesCodes
  <2> QED BY <2>1, <2>2, <1>0, Sending
<1>12. CASE AccessCodesCard(d)
  <2>1. IsCall(c("codes", None))
    BY <1>3
  <2> QED BY <1>12, <2>1, <1>0, Sending DEF AccessCodesCard
<1>13. CASE ApiTokensPage(d)
  <2>1. ASSUME NEW scope \in {"read", "write"}, mutate(d, "token", scope) PROVE Sends(d)
    <3>1. IsCall(c("token", scope))
      BY <1>0 DEF IsCall, SignsIn, IssuesCodes
    <3> QED BY <2>1, <3>1, <1>0, <1>13, Sending DEF ApiTokensPage
  <2>2. ASSUME NEW no, mutate(d, "revoke", no) PROVE Sends(d)
    <3>1. IsCall(c("revoke", no))
      BY <1>3
    <3> QED BY <2>2, <3>1, <1>0, <1>13, Sending DEF ApiTokensPage
  <2> QED BY <1>13, <2>1, <2>2 DEF ApiTokensPage
<1>14. CASE UsersPage(d)
  <2>0. UNCHANGED page
    BY <1>14 DEF UsersPage
  <2>1. ASSUME NEW n \in Names, NEW admin \in BOOLEAN, NEW pw \in Passwords,
               mutate(d, "create", [user |-> n, admin |-> admin, pw |-> pw])
        PROVE  Sends(d)
    <3>1. IsCall(c("create", [user |-> n, admin |-> admin, pw |-> pw]))
      BY <1>0 DEF IsCall, SignsIn, IssuesCodes
    <3> QED BY <2>0, <2>1, <3>1, <1>0, Sending
  <2>2. ASSUME NEW n \in There, NEW pw \in Passwords, mutate(d, "reset", [user |-> n, pw |-> pw])
        PROVE  Sends(d)
    <3>1. IsCall(c("reset", [user |-> n, pw |-> pw]))
      BY <1>0 DEF IsCall, SignsIn, IssuesCodes, There
    <3> QED BY <2>0, <2>2, <3>1, <1>0, Sending
  <2>3. ASSUME NEW n \in There, NEW off \in BOOLEAN, mutate(d, "bar", [user |-> n, disabled |-> off])
        PROVE  Sends(d)
    <3>1. IsCall(c("bar", [user |-> n, disabled |-> off]))
      BY <1>0 DEF IsCall, SignsIn, IssuesCodes
    <3> QED BY <2>0, <2>3, <3>1, <1>0, Sending
  <2> QED BY <1>14, <2>1, <2>2, <2>3 DEF UsersPage, CreateUserModal, ResetPasswordModal
<1>15. CASE useLogout(d)
  <2>1. IsCall(c("logout", None))
    BY <1>3
  <2> QED BY <1>15, <2>1, <1>0, Sending DEF useLogout
<1>16. CASE AuthProvider(d)
  <2>1. CASE me[d] # None /\ mutate(d, "me", None) /\ UNCHANGED page
    <3>1. IsCall(c("me", None))
      BY <1>3
    <3> QED BY <2>1, <3>1, <1>0, Sending
  <2>2. CASE me[d] = None /\ Edit(d, Blank("login")) /\ UNCHANGED overtaken
    BY <2>2, <1>0, <1>1 DEF Edit, Turns
  <2> QED BY <1>16, <2>1, <2>2 DEF AuthProvider
<1> QED BY <1>4, <1>5, <1>6, <1>7, <1>8, <1>9, <1>10, <1>11, <1>12, <1>13, <1>14, <1>15, <1>16
        DEF Acts

\* The call a step of the server makes of c.
LEMMA Stepping ==
  ASSUME Shape, NEW c \in calls, NEW step, NEW read, Step(c, step, read)
  PROVE  Becomes(c, step, read)
<1> DEFINE now == [c EXCEPT !.step = step, !.read = read]
<1>1. c = [no |-> c.no, dev |-> c.dev, kind |-> c.kind, cookie |-> c.cookie, arg |-> c.arg,
           step |-> c.step, read |-> c.read]
  BY DEF Shape, IsCall
<1>2. now \in [no : {c.no}, dev : {c.dev}, kind : {c.kind}, cookie : {c.cookie}, arg : {c.arg},
               step : {step}, read : {read}]
  BY <1>1
<1>3. now = [no |-> c.no, dev |-> c.dev, kind |-> c.kind, cookie |-> c.cookie, arg |-> c.arg,
             step |-> step, read |-> read]
  <2> HIDE DEF now
  <2> QED BY <1>2
<1> QED BY <1>3 DEF Step, Becomes

\* The person of a session that still is one.
LEMMA Required ==
  ASSUME Shape, NEW c \in calls, NEW n \in requireAuth(c)
  PROVE  /\ n \in There /\ accounts[n] \in Accounts /\ n \in Names
         /\ \E s \in sessions : s.no = c.cookie /\ s.user = n
  BY DEF Shape, TypeOK, requireAuth, sessionOf, There

\* An answer alone, or with a session or a token less.
LEMMA Waving ==
  ASSUME Shape, NEW c \in calls, NEW step \in {"refused", "unknown", "counted", "challenge", "ok"},
         NEW read, Step(c, step, read), step = "ok" => c.kind \in {"revoke", "logout"},
         c.step \notin {"cleared", "ok"}, sessions' \subseteq sessions, tokens' \subseteq tokens,
         UNCHANGED <<accounts, fails, minted, opened, history>>
  PROVE  Waves(c)
<1>1. Becomes(c, step, read)
  BY Stepping
<1>2. overtaken' = overtaken /\ issued' = issued /\ owed' = owed /\ overtaken \subseteq Nat
  BY DEF history, Shape, TypeOK
<1> QED BY <1>1, <1>2 DEF Waves

\* What a request of nobody, a sign-in, a first account or a sign-out comes to.
LEMMA Signed ==
  ASSUME Shape, Numbered, NEW c \in calls,
         Allowed(c) \/ Login(c) \/ LoginWithAccessCode(c) \/ Setup(c) \/ openSession(c) \/ Logout(c)
  PROVE  Serves(c)
<1>0. IsCall(c) /\ accounts \in [Names -> Accounts \cup {None}] /\ minted \in Nat
  BY DEF Shape, TypeOK
<1>1. CASE Allowed(c)
  <2>1. CASE allow(c.arg.user)
    BY <1>1, <2>1, Stepping DEF Allowed, allow, Serves, Enters
  <2>2. CASE ~allow(c.arg.user)
    BY <1>1, <2>2, Waving DEF Allowed, Serves, server
  <2> QED BY <2>1, <2>2
<1>2. ASSUME Rejected(c), c.step = "allowed" PROVE Misses(c)
  <2>1. Becomes(c, "refused", None)
    BY <1>2, Stepping DEF Rejected
  <2> QED BY <1>2, <2>1 DEF Rejected, record, Misses
<1>3. ASSUME Passed(c), c.step = "allowed", enabledUser(c.arg.user), c.arg.user \in Names PROVE Hits(c)
  <2> DEFINE n == c.arg.user
             a == accounts[n]
  <2>1. Becomes(c, "verified", [pw |-> a.pw, once |-> c.arg.code \in a.codes])
    BY <1>3, Stepping DEF Passed
  <2>2. accounts' = [accounts EXCEPT ![n] = [a EXCEPT !.codes = a.codes \ {c.arg.code}]]
    BY <1>3 DEF Passed, ConsumeRecoveryCode
  <2>3. n \in There /\ ~a.disabled
    BY <1>3 DEF enabledUser, There
  <2> QED BY <1>3, <2>1, <2>2, <2>3 DEF Passed, Hits
<1>4. CASE Login(c)
  <2>1. c.arg.user \in Names /\ c.step = "allowed" /\ c.kind = "login"
    BY <1>0, <1>4 DEF Login, IsCall, SignsIn
  <2>2. CASE Rejected(c)
    BY <2>1, <2>2, <1>2 DEF Serves
  <2>3. CASE Step(c, "challenge", None) /\ UNCHANGED server
    BY <2>1, <2>3, Waving DEF Serves, server
  <2>4. CASE Passed(c) /\ enabledUser(c.arg.user)
    BY <2>1, <2>4, <1>3 DEF Serves
  <2> QED BY <1>4, <2>2, <2>3, <2>4 DEF Login
<1>5. CASE LoginWithAccessCode(c)
  <2>1. c.arg.user \in Names /\ c.step = "allowed" /\ c.kind = "recovery"
    BY <1>0, <1>5 DEF LoginWithAccessCode, IsCall, SignsIn
  <2> QED BY <2>1, <1>2, <1>3, <1>5 DEF LoginWithAccessCode, Serves
<1>6. CASE Setup(c)
  <2>1. ASSUME c.step \in {"sent", "counted"}, NEW step \in {"refused", "counted"},
               Step(c, step, None), UNCHANGED server
        PROVE  Serves(c)
    BY <2>1, Waving DEF Serves, server
  <2>2. ASSUME c.step = "counted", accounts[c.arg.user] = None,
               accounts' = [accounts EXCEPT ![c.arg.user] = Account(TRUE, c.arg.pw)],
               Step(c, "verified", [pw |-> c.arg.pw, once |-> FALSE]),
               UNCHANGED <<sessions, tokens, fails, minted, opened, history>>
        PROVE  Serves(c)
    <3>1. Becomes(c, "verified", [pw |-> c.arg.pw, once |-> FALSE])
      BY <2>2, Stepping
    <3> QED BY <1>6, <2>2, <3>1 DEF Setup, Serves, Joins
  <2> QED BY <1>6, <2>1, <2>2 DEF Setup
<1>7. CASE openSession(c)
  <2>1. Becomes(c, "ok", minted + 1)
    BY <1>7, Stepping DEF openSession
  <2>2. SignsIn(c)
    BY <1>0, <1>7 DEF IsCall, openSession
  <2> QED BY <1>7, <2>1, <2>2 DEF openSession, Serves, Opens
<1>8. CASE Logout(c)
  BY <1>8, Waving DEF Logout, Serves
<1> QED BY <1>1, <1>4, <1>5, <1>6, <1>7, <1>8

\* The sessions that are left are sessions.
LEMMA SessionsLeft ==
  ASSUME Shape, Numbered, sessions' \subseteq sessions
  PROVE  /\ \A s \in sessions' : /\ s = [no |-> s.no, user |-> s.user, pw |-> s.pw] /\ s.pw \in Passwords
                                 /\ \E t \in sessions : t.no = s.no /\ t.user = s.user
         /\ \A s, t \in sessions' : s.no = t.no => s = t
<1>1. \A s \in sessions : s \in [no : Int, user : There, pw : Passwords]
  BY DEF Shape, TypeOK
<1>2. \A s, t \in sessions : s.no = t.no => s = t
  BY DEF Numbered
<1> QED BY <1>1, <1>2

\* An account changed in one field is an account.
LEMMA Changed ==
  ASSUME NEW a \in Accounts
  PROVE  /\ a.pw \in Passwords /\ a.disabled \in BOOLEAN /\ a.codes \subseteq Int
         /\ \A pw \in Passwords : [a EXCEPT !.pw = pw] \in Accounts
         /\ \A off \in BOOLEAN : [a EXCEPT !.disabled = off] \in Accounts
         /\ \A no \in Int : [a EXCEPT !.totp = no] \in Accounts
         /\ [a EXCEPT !.codes = {}] \in Accounts
         /\ \A pw : /\ [a EXCEPT !.pw = pw].pw = pw /\ [a EXCEPT !.pw = pw].codes = a.codes
                    /\ [a EXCEPT !.pw = pw].disabled = a.disabled
         /\ \A off : /\ [a EXCEPT !.disabled = off].disabled = off /\ [a EXCEPT !.disabled = off].codes = a.codes
                     /\ [a EXCEPT !.disabled = off].pw = a.pw
         /\ \A no : /\ [a EXCEPT !.totp = no].codes = a.codes /\ [a EXCEPT !.totp = no].pw = a.pw
                    /\ [a EXCEPT !.totp = no].disabled = a.disabled
         /\ /\ [a EXCEPT !.codes = {}].codes = {} /\ [a EXCEPT !.codes = {}].pw = a.pw
            /\ [a EXCEPT !.codes = {}].disabled = a.disabled
  BY DEF Accounts

\* The person is there, and has an account.
LEMMA OfThere ==
  ASSUME Shape, NEW n \in There
  PROVE  n \in Names /\ accounts[n] \in Accounts
  BY SessionConstants DEF Shape, TypeOK, There

\* A statement that changes one account and signs nobody out.
LEMMA Clearing ==
  ASSUME Shape, Numbered, NEW c \in calls, NEW n \in There, NEW a \in Accounts, NEW step, NEW read,
         a.codes \subseteq accounts[n].codes, a.pw = accounts[n].pw,
         a.disabled => accounts[n].disabled, Only(c, n, a, step, read),
         \/ c.kind \in {"enable", "disable"} /\ step = "changed" /\ read = n
         \/ Issuing(c) /\ step = "cleared" /\ read = [user |-> n, codes |-> {}]
         \/ c.kind \in {"disable", "bar"} /\ step = "ok" /\ read = None,
         c.step = "sent" \/ c.read = n,
         Issuing(c) /\ c.step = "sent" => \E s \in sessions : s.no = c.cookie /\ s.user = n
  PROVE  Tames(c, n)
<1>1. Becomes(c, step, read)
  BY Stepping DEF Only
<1>2. /\ accounts' = [accounts EXCEPT ![n] = a] /\ sessions' = sessions
      /\ UNCHANGED <<tokens, fails, minted, opened, issued, owed, overtaken>>
  BY DEF Only, history
<1>3. c.kind \in {"enable", "disable", "bar", "codes"}
  BY DEF Issuing
<1>4. Clears(c, n, a)
  BY <1>1, <1>2, <1>3 DEF Clears
<1> QED BY <1>2, <1>4, SessionsLeft DEF Tames

\* One that is to sign somebody out.
LEMMA Updating ==
  ASSUME Shape, Numbered, NEW c \in calls, NEW n \in There, NEW a \in Accounts,
         a.codes \subseteq accounts[n].codes, Update(c, n, a), UNCHANGED sessions,
         c.kind \in {"reset", "bar"}, c.step = "sent"
  PROVE  Tames(c, n)
<1>1. Becomes(c, "changed", n)
  BY Stepping DEF Update
<1>2. Updates(c, n, a)
  BY <1>1 DEF Update, Updates
<1> QED BY <1>2, SessionsLeft DEF Tames, Update

\* What a request of the person of a session comes to.
LEMMA Asked ==
  ASSUME Shape, Numbered, NEW c \in calls, c.step = "sent", ~SignsIn(c),
         NEW n \in requireAuth(c), Own(c, n)
  PROVE  Serves(c)
<1>0. /\ IsCall(c) /\ minted \in Nat
      /\ tokens \subseteq [no : Int, user : There, scope : {"read", "write"}]
  BY DEF Shape, TypeOK
<1>1. /\ n \in There /\ accounts[n] \in Accounts /\ n \in Names
      /\ \E s \in sessions : s.no = c.cookie /\ s.user = n
  BY Required
<1>2. ASSUME NEW read, Step(c, "refused", read), UNCHANGED server
      PROVE  Serves(c)
  BY <1>2, Waving DEF Serves, server
<1>3. CASE Me(c, n)
  <2>1. Becomes(c, "ok", n)
    BY <1>3, Stepping DEF Me
  <2> QED BY <1>1, <1>3, <2>1 DEF Me, Serves, Knows
<1>4. CASE Begin2FASetup(c, n)
  <2>1. CASE accounts[n].totp = 0
    <3>1. Becomes(c, "ok", minted + 1)
      BY <1>4, <2>1, Stepping DEF Begin2FASetup
    <3> QED BY <1>0, <1>4, <2>1, <3>1 DEF Begin2FASetup, Serves, Mints
  <2> QED BY <1>2, <1>4, <2>1 DEF Begin2FASetup
<1>5. ASSUME NEW right, Checked(c, n, right), c.kind \in {"password", "enable", "disable"}
      PROVE  Serves(c)
  <2>1. CASE right
    <3>1. Becomes(c, "checked", n)
      BY <1>5, <2>1, Stepping DEF Checked
    <3> QED BY <1>1, <1>5, <3>1 DEF Checked, Serves, Holds
  <2>2. CASE ~right
    BY <1>2, <1>5, <2>2 DEF Checked
  <2> QED BY <2>1, <2>2
<1>6. CASE Enable2FA(c, n)
  BY <1>5, <1>6 DEF Enable2FA
<1>7. CASE Disable2FA(c, n)
  BY <1>5, <1>7 DEF Disable2FA
<1>8. CASE ChangePassword(c, n)
  BY <1>5, <1>8 DEF ChangePassword
<1>9. CASE NewAccessCodes(c, n)
  <2> DEFINE a == [accounts[n] EXCEPT !.codes = {}]
  <2>1. /\ Only(c, n, a, "cleared", [user |-> n, codes |-> {}]) /\ Issuing(c)
    BY <1>9 DEF NewAccessCodes, DeleteRecoveryCodes, Issuing
  <2>2. a \in Accounts /\ a.codes = {} /\ a.pw = accounts[n].pw /\ a.disabled = accounts[n].disabled
    BY <1>1, Changed
  <2> HIDE DEF a
  <2>3. Tames(c, n)
    BY <1>1, <2>1, <2>2, Clearing
  <2> QED BY <1>1, <2>3 DEF Serves
<1>10. CASE CreateAPIToken(c, n)
  <2>1. Becomes(c, "ok", minted + 1)
    BY <1>10, Stepping DEF CreateAPIToken
  <2>2. c.arg \in {"read", "write"}
    BY <1>0, <1>10 DEF IsCall, CreateAPIToken
  <2> QED BY <1>0, <1>1, <1>10, <2>1, <2>2 DEF CreateAPIToken, Serves, Mints
<1>11. CASE RevokeAPIToken(c, n)
  <2>1. PICK step \in {"refused", "ok"} : Step(c, step, None)
    BY <1>11 DEF RevokeAPIToken
  <2>2. c.kind = "revoke" /\ tokens' \subseteq tokens /\ UNCHANGED <<accounts, sessions, fails, minted, opened, history>>
    BY <1>11 DEF RevokeAPIToken
  <2> QED BY <2>1, <2>2, Waving DEF Serves
<1>12. CASE ResetPassword(c)
  <2> DEFINE m == c.arg.user
             a == [accounts[m] EXCEPT !.pw = c.arg.pw]
  <2>1. m \in There /\ c.arg.pw \in Passwords /\ accounts[m] \in Accounts
    BY <1>0, <1>12, OfThere DEF IsCall, ResetPassword
  <2>2. Update(c, m, a) /\ UNCHANGED sessions /\ c.kind = "reset"
    BY <1>12 DEF ResetPassword
  <2>3. a \in Accounts /\ a.codes = accounts[m].codes
    BY <2>1, Changed
  <2> HIDE DEF a, m
  <2>4. Tames(c, m)
    BY <2>1, <2>2, <2>3, Updating
  <2> QED BY <2>1, <2>4 DEF Serves
<1>13. CASE SetDisabled(c)
  <2> DEFINE m == c.arg.user
             a == [accounts[m] EXCEPT !.disabled = c.arg.disabled]
  <2>1. m \in There /\ c.arg.disabled \in BOOLEAN /\ accounts[m] \in Accounts
    BY <1>0, <1>13, OfThere DEF IsCall, SetDisabled
  <2>2. a \in Accounts /\ a.codes = accounts[m].codes /\ a.pw = accounts[m].pw /\ a.disabled = c.arg.disabled
    BY <2>1, Changed
  <2>3. /\ c.kind = "bar"
        /\ \/ Update(c, m, a) /\ UNCHANGED sessions
           \/ ~c.arg.disabled /\ Only(c, m, a, "ok", None)
    BY <1>13 DEF SetDisabled
  <2> HIDE DEF a, m
  <2>4. CASE Update(c, m, a) /\ UNCHANGED sessions
    <3>1. Tames(c, m)
      BY <2>1, <2>2, <2>3, <2>4, Updating
    <3> QED BY <2>1, <3>1 DEF Serves
  <2>5. CASE ~c.arg.disabled /\ Only(c, m, a, "ok", None)
    <3>1. Tames(c, m)
      BY <2>1, <2>2, <2>3, <2>5, Clearing DEF Issuing
    <3> QED BY <2>1, <3>1 DEF Serves
  <2> QED BY <2>3, <2>4, <2>5
<1>14. CASE CreateUser(c)
  <2>1. CASE accounts[c.arg.user] # None
    BY <1>2, <1>14, <2>1 DEF CreateUser
  <2>2. CASE accounts[c.arg.user] = None
    <3>1. Becomes(c, "ok", None)
      BY <1>14, <2>2, Stepping DEF CreateUser
    <3>2. c.arg.admin \in BOOLEAN
      BY <1>0, <1>14 DEF IsCall, CreateUser
    <3> QED BY <1>14, <2>2, <3>1, <3>2 DEF CreateUser, Serves, Joins
  <2> QED BY <2>1, <2>2
<1>15. CASE Admin(c, n)
  BY <1>2, <1>12, <1>13, <1>14, <1>15 DEF Admin
<1> QED BY <1>3, <1>4, <1>6, <1>7, <1>8, <1>9, <1>10, <1>11, <1>15 DEF Own

\* A password changed by its person goes with the session it is changed in.
LEMMA PasswordChanged ==
  ASSUME Shape, Numbered, NEW c \in calls, c.kind = "password", c.step = "checked",
         ChangePassword(c, c.read)
  PROVE  Tames(c, c.read)
<1> DEFINE n == c.read
           a == [accounts[n] EXCEPT !.pw = c.arg.next]
           f(s) == IF s.no = c.cookie THEN [s EXCEPT !.pw = c.arg.next] ELSE s
<1>0. /\ IsCall(c) /\ n \in There /\ c.arg.next \in Passwords
      /\ sessions \subseteq [no : Int, user : There, pw : Passwords]
  BY DEF Shape, TypeOK, IsCall
<1>1. Update(c, n, a) /\ sessions' = {f(s) : s \in sessions}
  BY DEF ChangePassword
<1>2. a \in Accounts /\ a.codes = accounts[n].codes /\ a.pw = c.arg.next /\ a.disabled = accounts[n].disabled
  <2>1. accounts[n] \in Accounts
    BY <1>0, OfThere
  <2> QED BY <1>0, <2>1, Changed
<1>3. \A s \in sessions : /\ f(s) = [no |-> f(s).no, user |-> f(s).user, pw |-> f(s).pw]
                          /\ f(s).no = s.no /\ f(s).user = s.user /\ f(s).pw \in Passwords
                          /\ f(s).pw = IF s.no = c.cookie THEN c.arg.next ELSE s.pw
  <2> SUFFICES ASSUME NEW s \in sessions
               PROVE  /\ f(s) = [no |-> f(s).no, user |-> f(s).user, pw |-> f(s).pw]
                      /\ f(s).no = s.no /\ f(s).user = s.user /\ f(s).pw \in Passwords
                      /\ f(s).pw = IF s.no = c.cookie THEN c.arg.next ELSE s.pw
    OBVIOUS
  <2>1. s \in [no : Int, user : There, pw : Passwords]
    BY <1>0
  <2>2. [s EXCEPT !.pw = c.arg.next] \in [no : {s.no}, user : {s.user}, pw : {c.arg.next}]
    BY <2>1
  <2>3. f(s) \in [no : {s.no}, user : {s.user}, pw : {c.arg.next, s.pw}]
    BY <2>1, <2>2
  <2>4. f(s).pw = IF s.no = c.cookie THEN c.arg.next ELSE s.pw
    <3>1. CASE s.no = c.cookie
      <4>1. f(s) = [s EXCEPT !.pw = c.arg.next]
        BY <3>1
      <4>2. [s EXCEPT !.pw = c.arg.next].pw = c.arg.next
        BY <2>1
      <4> QED BY <3>1, <4>1, <4>2
    <3>2. CASE s.no # c.cookie
      <4>1. f(s) = s
        BY <3>2
      <4> QED BY <3>2, <4>1
    <3> QED BY <3>1, <3>2
  <2> HIDE DEF f
  <2> QED BY <1>0, <2>1, <2>3, <2>4
<1>4. Becomes(c, "changed", n)
  BY <1>1, Stepping DEF Update
<1> HIDE DEF a, f, n
<1>5. \A s \in sessions' : /\ s = [no |-> s.no, user |-> s.user, pw |-> s.pw] /\ s.pw \in Passwords
                           /\ \E t \in sessions :
                                t.no = s.no /\ t.user = s.user /\ s.pw = (IF s.no = c.cookie THEN a.pw ELSE t.pw)
  BY <1>1, <1>2, <1>3
<1>6. \A s, t \in sessions' : s.no = t.no => s = t
  BY <1>1, <1>3 DEF Numbered
<1>7. Updates(c, n, a)
  BY <1>1, <1>2, <1>4, <1>5 DEF Update, Updates, n
<1> QED BY <1>1, <1>2, <1>5, <1>6, <1>7 DEF Tames, Update, n

\* What the next statement of a change comes to.
LEMMA Going ==
  ASSUME Shape, Numbered, NEW c \in calls, c.step \in {"checked", "changed"}, Goes(c, c.read)
  PROVE  Serves(c)
<1> DEFINE n == c.read
<1>0. IsCall(c) /\ n \in There
  BY DEF Shape, IsCall
<1>1. accounts[n] \in Accounts
  BY <1>0, OfThere
<1>2. Tames(c, n)
  <2>1. CASE ChangePassword(c, n)
    BY <2>1, PasswordChanged DEF ChangePassword
  <2>2. ASSUME NEW step, NEW read, DeleteRecoveryCodes(c, n, step, read),
               \/ Issuing(c) /\ step = "cleared" /\ read = [user |-> n, codes |-> {}]
               \/ c.kind = "disable" /\ step = "ok" /\ read = None
        PROVE  Tames(c, n)
    <3> DEFINE a == [accounts[n] EXCEPT !.codes = {}]
    <3>1. Only(c, n, a, step, read)
      BY <2>2 DEF DeleteRecoveryCodes
    <3>2. a \in Accounts /\ a.codes = {} /\ a.pw = accounts[n].pw /\ a.disabled = accounts[n].disabled
      BY <1>1, Changed
    <3> HIDE DEF a
    <3> QED BY <1>0, <2>2, <3>1, <3>2, Clearing
  <2>3. ASSUME NEW no \in Int, Only(c, n, [accounts[n] EXCEPT !.totp = no], "changed", n),
               c.kind \in {"enable", "disable"}
        PROVE  Tames(c, n)
    <3> DEFINE a == [accounts[n] EXCEPT !.totp = no]
    <3>1. /\ a \in Accounts /\ a.codes = accounts[n].codes /\ a.pw = accounts[n].pw
          /\ a.disabled = accounts[n].disabled
      BY <1>1, Changed
    <3>2. Only(c, n, a, "changed", n)
      BY <2>3
    <3> HIDE DEF a
    <3> QED BY <1>0, <2>3, <3>1, <3>2, Clearing
  <2>4. CASE Enable2FA(c, n)
    <3>1. c.arg.secret \in Int /\ Issuing(c)
      BY <1>0, <2>4 DEF IsCall, Enable2FA, Issuing
    <3> QED BY <2>2, <2>3, <2>4, <3>1 DEF Enable2FA
  <2>5. CASE Disable2FA(c, n)
    BY <2>2, <2>3, <2>5 DEF Disable2FA
  <2> QED BY <2>1, <2>4, <2>5 DEF Goes
<1> QED BY <1>0, <1>2 DEF Serves

\* What any request comes to.
LEMMA Serving ==
  ASSUME Shape, Numbered, NEW c \in calls, Serve(c)
  PROVE  Serves(c)
<1>0. IsCall(c) /\ overtaken \subseteq Nat /\ c.no \in Nat
  BY DEF Shape, TypeOK, IsCall
<1>1. CASE c.step = "sent" /\ ~SignsIn(c) /\ Authenticate(c)
  BY <1>1, Waving DEF Authenticate, Serves
<1>2. CASE c.step = "sent" /\ ~SignsIn(c) /\ \E n \in requireAuth(c) : Own(c, n)
  BY <1>2, Asked
<1>3. CASE c.step \in {"checked", "changed"} /\ Goes(c, c.read)
  BY <1>3, Going
<1>4. CASE SignsOut(c)
  <2>1. Becomes(c, "ok", None)
    BY <1>4, Stepping DEF SignsOut
  <2> QED BY <1>4, <2>1 DEF SignsOut, SignsPeopleOut, Empties, Serves
<1>5. CASE issueRecoveryCodes(c)
  <2> DEFINE n == c.read.user
             k == minted + 1
             a == accounts[n]
             codes == c.read.codes \cup {k}
  <2>1. /\ Issuing(c) /\ c.step = "cleared" /\ minted' = k /\ issued' = issued \cup {<<k, c.no>>}
        /\ accounts' = [accounts EXCEPT ![n].codes = @ \cup {k}]
        /\ UNCHANGED <<sessions, tokens, fails, opened, owed, overtaken>>
        /\ \E step \in {"cleared", "ok"} : Step(c, step, [user |-> n, codes |-> codes])
    BY <1>5 DEF issueRecoveryCodes, Issuing
  <2>2. PICK step \in {"cleared", "ok"} : Step(c, step, [user |-> n, codes |-> codes])
    BY <2>1
  <2>3. Becomes(c, step, [user |-> n, codes |-> codes])
    BY <2>2, Stepping
  <2>4. accounts' = [accounts EXCEPT ![n] = [a EXCEPT !.codes = a.codes \cup {k}]]
    BY <2>1
  <2>5. Issues(c)
    BY <2>1, <2>3, <2>4 DEF Issues
  <2> QED BY <2>5 DEF Serves
<1>6. CASE Stop(c)
  <2>1. Becomes(c, "failed", None)
    BY <1>6, Stepping DEF Stop
  <2>2. c.no \in overtaken' /\ overtaken \subseteq overtaken' /\ overtaken' \subseteq Nat
    BY <1>0, <1>6 DEF Stop
  <2> QED BY <1>6, <2>1, <2>2 DEF Stop, Serves, Waves
<1> QED BY <1>1, <1>2, <1>3, <1>4, <1>5, <1>6, Signed DEF Serve

\* What an answer comes to.
LEMMA Answering ==
  ASSUME Shape, NEW c \in calls, Answer(c)
  PROVE  Brings(c)
<1> DEFINE d == c.dev
<1>0. /\ IsCall(c) /\ IsPage(page[d]) /\ \A at : IsPage(Blank(at))
      /\ c.step \in {"ok", "refused", "challenge", "unknown", "failed"} /\ calls' = calls \ {c}
      /\ UNCHANGED <<server, made>>
      /\ seen' = IF Shows(c) THEN [seen EXCEPT ![me[d]] = seen[me[d]] \cup c.read.codes] ELSE seen
  BY DEF Shape, IsCall, Answer, IsPage, Blank
<1>1. page[d] \in [at : {page[d].at}, code : {page[d].code}, challenged : {page[d].challenged},
                   secret : {page[d].secret}, shown : {page[d].shown}]
  BY <1>0 DEF IsPage
<1>2. \A p, user, no :
        /\ Bring(c, p, user, no) /\ IsPage(p)
        /\ \/ user = None /\ no \in {None, cookie[d]}
           \/ user = me[d] /\ no = cookie[d]
           \/ c.step = "ok" /\ SignsIn(c) /\ user = c.arg.user /\ no = c.read
           \/ c.step = "ok" /\ c.kind = "me" /\ user = c.read /\ no = cookie[d]
        => Brings(c)
  BY <1>0 DEF Bring, Brings
<1>3. CASE useLogin(c)
  <2>1. IsPage([page[d] EXCEPT !.challenged = TRUE])
    <3> DEFINE p == [page[d] EXCEPT !.challenged = TRUE]
    <3>1. p \in [at : {page[d].at}, code : {page[d].code}, challenged : {TRUE},
                 secret : {page[d].secret}, shown : {page[d].shown}]
      BY <1>1
    <3>2. page[d].secret \in Int
      BY <1>0 DEF IsPage
    <3>3. IsPage(p)
      <4> HIDE DEF p
      <4> QED BY <3>1, <3>2 DEF IsPage
    <3> QED BY <3>3
  <2> QED BY <1>0, <1>2, <1>3, <2>1 DEF useLogin
<1>4. CASE useMe(c)
  BY <1>0, <1>2, <1>4 DEF useMe
<1>5. CASE c.kind = "logout" /\ Bring(c, Blank("login"), None, None)
  BY <1>0, <1>2, <1>5
<1>6. CASE c.kind \notin {"me", "logout"} /\ Bring(c, ShowCodes(c), me[d], cookie[d])
  <2> DEFINE p == page[d]
             q == [p EXCEPT !.shown = c.read.codes]
             r == [p EXCEPT !.secret = c.read]
  <2>1. IsPage(q)
    <3>1. q \in [at : {p.at}, code : {p.code}, challenged : {p.challenged}, secret : {p.secret}, shown : {c.read.codes}]
      BY <1>1
    <3>2. p.secret \in Int
      BY <1>0 DEF IsPage
    <3> HIDE DEF p, q
    <3> QED BY <3>1, <3>2 DEF IsPage
  <2>2. ASSUME c.step = "ok", c.kind = "secret" PROVE IsPage(r)
    <3>1. r \in [at : {p.at}, code : {p.code}, challenged : {p.challenged}, secret : {c.read}, shown : {p.shown}]
      BY <1>1
    <3>2. c.read \in Int
      BY <1>0, <2>2 DEF IsCall
    <3> HIDE DEF p, r
    <3> QED BY <3>1, <3>2 DEF IsPage
  <2>3. ShowCodes(c) = IF Shows(c) THEN q
                       ELSE IF c.step = "ok" /\ c.kind = "secret" /\ p.at = "enrol" THEN r
                       ELSE IF c.step = "ok" /\ c.kind = "disable" THEN Blank("home") ELSE p
    BY DEF ShowCodes
  <2> HIDE DEF q, r
  <2>4. IsPage(ShowCodes(c))
    BY <1>0, <2>1, <2>2, <2>3
  <2> QED BY <1>2, <1>6, <2>4
<1> QED BY <1>3, <1>4, <1>5, <1>6 DEF Answer

\* The effects are all there is.
Steps ==
  \/ \E d \in Devices : Sends(d) \/ Turns(d)
  \/ \E c \in calls : Serves(c) \/ Brings(c)
  \/ Passes
  \/ UNCHANGED vars

LEMMA NextSteps ==
  ASSUME Shape, Numbered, [Next]_vars
  PROVE  Steps
<1>1. CASE Next
  <2>1. ASSUME NEW d \in Devices, Acts(d) PROVE Steps
    BY <2>1, Acting DEF Steps
  <2>2. ASSUME NEW c \in calls, Serve(c) PROVE Steps
    BY <2>2, Serving DEF Steps
  <2>3. ASSUME NEW c \in calls, Answer(c) PROVE Steps
    BY <2>3, Answering DEF Steps
  <2>4. CASE Expire
    <3>1. fails \in [Names -> Nat]
      BY DEF Shape, TypeOK
    <3> QED BY <2>4, <3>1 DEF Expire, Passes, Steps
  <2>5. CASE WindowPasses
    <3>1. fails \in [Names -> Nat]
      BY DEF Shape, TypeOK
    <3> QED BY <2>5, <3>1 DEF WindowPasses, Passes, Steps
  <2>6. Next => \/ \E d \in Devices : Acts(d)
                \/ \E c \in calls : Serve(c) \/ Answer(c)
                \/ Expire \/ WindowPasses
    BY DEF Next, Acts
  <2> QED BY <1>1, <2>1, <2>2, <2>3, <2>4, <2>5, <2>6
<1> QED BY <1>1 DEF Steps

-----------------------------------------------------------------------------
(***************************************************************************)
(* The shape of what there is                                              *)
(***************************************************************************)

Calls == /\ \A c \in calls : IsCall(c)
         /\ \A c, x \in calls : c.dev = x.dev => c = x
Pages == page = [d \in Devices |-> page[d]] /\ \A d \in Devices : IsPage(page[d])

\* A call that gets to a step it may be at leaves the calls well formed.
LEMMA CallsKept ==
  ASSUME Shape, NEW c \in calls, NEW step, NEW read, Becomes(c, step, read),
         \A n \in There : n \in There',
         step = "allowed" => c.kind \in {"login", "recovery"},
         step = "verified" => /\ SignsIn(c) /\ c.arg.user \in There' /\ read.pw \in Passwords
                              /\ read.once => c.arg.code \in Int,
         step = "ok" => /\ SignsIn(c) \/ c.kind = "secret" => read \in Int
                        /\ c.kind = "me" => read \in Names,
         step = "checked" => c.kind \in {"password", "enable", "disable"},
         step \in {"checked", "changed"} => read \in There' /\ c.kind \in Changing,
         Issuing(c) /\ step \in {"cleared", "ok"} =>
           read = [user |-> read.user, codes |-> read.codes] /\ read.user \in There' /\ read.codes \subseteq Int
  PROVE  Calls' /\ Pages'
<1> DEFINE now == [no |-> c.no, dev |-> c.dev, kind |-> c.kind, cookie |-> c.cookie, arg |-> c.arg,
                   step |-> step, read |-> read]
<1>1. calls' = (calls \ {c}) \cup {now} /\ UNCHANGED <<cookie, me, page, seen>>
  BY DEF Becomes
<1>2. \A x \in calls : IsCall(x)'
  <2> SUFFICES ASSUME NEW x \in calls PROVE IsCall(x)'
    OBVIOUS
  <2>1. IsCall(x)
    BY DEF Shape
  <2>2. IssuesCodes(x) => IsIssue(x.read)'
    BY <2>1 DEF IsCall, IsIssue
  <2> QED BY <1>1, <2>1, <2>2 DEF IsCall, SignsIn, IssuesCodes
<1>3. /\ now.no = c.no /\ now.dev = c.dev /\ now.kind = c.kind /\ now.cookie = c.cookie
      /\ now.arg = c.arg /\ now.step = step /\ now.read = read
  OBVIOUS
<1>4. now = [no |-> now.no, dev |-> now.dev, kind |-> now.kind, cookie |-> now.cookie, arg |-> now.arg,
             step |-> now.step, read |-> now.read]
  OBVIOUS
<1> HIDE DEF now
<1>5. IsCall(now)'
  <2>1. IsCall(c)
    BY DEF Shape
  <2>2. IssuesCodes(now) => IsIssue(now.read)'
    BY <1>3 DEF IssuesCodes, Issuing, IsIssue
  <2> QED BY <1>1, <1>3, <1>4, <2>1, <2>2 DEF IsCall, SignsIn, IssuesCodes
<1>6. Calls'
  BY <1>1, <1>2, <1>3, <1>5 DEF Shape, Calls
<1>7. Pages'
  BY <1>1 DEF Shape, Pages, IsPage
<1> QED BY <1>6, <1>7

\* So does a step of any kind, and the rest keeps its type.
LEMMA ShapeKept ==
  ASSUME Shape, Steps
  PROVE  Shape'
<1>0. /\ accounts \in [Names -> Accounts \cup {None}] /\ minted \in Nat
      /\ sessions \subseteq [no : Int, user : There, pw : Passwords]
      /\ tokens \subseteq [no : Int, user : There, scope : {"read", "write"}]
      /\ fails \in [Names -> Nat] /\ opened \subseteq Int \X Int
      /\ cookie \in [Devices -> Int \cup {None}] /\ me \in [Devices -> Names \cup {None}]
      /\ seen \in [Names -> SUBSET Int] /\ made \in Nat /\ overtaken \subseteq Nat
      /\ issued \subseteq Int \X Nat /\ owed \subseteq Int \X Nat
  BY DEF Shape, TypeOK
<1>1. Shape' <=> TypeOK' /\ Calls' /\ Pages'
  BY DEF Shape, Calls, Pages
<1>2. Calls /\ Pages
  BY DEF Shape, Calls, Pages
<1>3. \A n : n \in There <=> n \in Names /\ accounts[n] # None
  BY DEF There
<1>4. \A n : n \in There' <=> n \in Names /\ accounts'[n] # None
  BY DEF There
<1>5. None \notin Accounts
  BY SessionConstants
<1>6. \A n \in There : accounts[n] \in Accounts
  BY <1>0, <1>3
\* A call that was one still is, as long as nobody goes and its device keeps its session.
<1> DEFINE Stays(x) == IsCall(x) /\ (\A n \in There : n \in There') /\ cookie'[x.dev] = cookie[x.dev]
<1>13. ASSUME NEW x, Stays(x) PROVE IsCall(x)'
  <2>1. IssuesCodes(x) => IsIssue(x.read)'
    BY <1>13 DEF IsCall, IsIssue
  <2> QED BY <1>13, <2>1 DEF IsCall, SignsIn, IssuesCodes
<1>14. ASSUME UNCHANGED <<accounts, cookie>>, \A x \in calls' : x \in calls PROVE Calls'
  <2>1. \A x \in calls' : Stays(x)
    BY <1>2, <1>14 DEF Calls, There
  <2>2. \A x \in calls' : IsCall(x)'
    BY <1>13, <2>1
  <2> QED BY <1>2, <1>14, <2>2 DEF Calls
<1> HIDE DEF Stays
<1>7. ASSUME NEW d \in Devices, Sends(d) PROVE Shape'
  <2>1. PICK c, p : /\ IsCall(c) /\ c.dev = d /\ c.step = "sent" /\ ~isPending(d) /\ calls' = calls \cup {c}
                    /\ made' = made + 1 /\ IsPage(p) /\ page' = [page EXCEPT ![d] = p]
                    /\ UNCHANGED <<server, cookie, me, seen>>
    BY <1>7 DEF Sends
  <2>2. TypeOK'
    BY <1>0, <2>1 DEF TypeOK, There, server, history
  <2>3. Calls'
    <3>1. \A x \in calls' : Stays(x)
      BY <1>2, <2>1 DEF Calls, There, server, Stays
    <3>2. \A x \in calls' : IsCall(x)'
      BY <1>13, <3>1
    <3> QED BY <1>2, <2>1, <3>2 DEF Calls, isPending
  <2>4. Pages'
    BY <1>2, <2>1 DEF Pages, IsPage
  <2> QED BY <1>1, <2>2, <2>3, <2>4
<1>8. ASSUME NEW d \in Devices, Turns(d) PROVE Shape'
  <2>1. PICK p : IsPage(p) /\ page' = [page EXCEPT ![d] = p]
    BY <1>8 DEF Turns
  <2>2. TypeOK'
    BY <1>0, <1>8 DEF TypeOK, There, Turns
  <2>3. Calls'
    BY <1>8, <1>14 DEF Turns
  <2>4. Pages'
    BY <1>2, <2>1 DEF Pages, IsPage
  <2> QED BY <1>1, <2>2, <2>3, <2>4
<1>9. ASSUME NEW c \in calls, Serves(c) PROVE Shape'
  <2>0. IsCall(c)
    BY <1>2 DEF Calls
  <2>1. CASE Enters(c)
    <3>1. TypeOK'
      BY <1>0, <2>1 DEF Enters, Becomes, server, history, TypeOK, There
    <3>2. Calls' /\ Pages'
      BY <1>3, <1>4, <2>1, CallsKept DEF Enters, server, Issuing
    <3> QED BY <1>1, <3>1, <3>2
  <2>2. CASE c.kind \in {"login", "recovery"} /\ Misses(c)
    <3>1. c.arg.user \in Names
      BY <2>0, <2>2 DEF IsCall, SignsIn
    <3>2. TypeOK'
      BY <1>0, <2>2, <3>1 DEF Misses, Becomes, history, TypeOK, There
    <3>3. Calls' /\ Pages'
      BY <1>3, <1>4, <2>2, CallsKept DEF Misses, Issuing
    <3> QED BY <1>1, <3>2, <3>3
  <2>3. CASE c.kind \in {"login", "recovery"} /\ Hits(c)
    <3> DEFINE n == c.arg.user
               a == [accounts[n] EXCEPT !.codes = accounts[n].codes \ {c.arg.code}]
    <3>1. /\ n \in There /\ accounts' = [accounts EXCEPT ![n] = a] /\ fails' = [fails EXCEPT ![n] = 0]
          /\ Becomes(c, "verified", [pw |-> accounts[n].pw, once |-> c.arg.code \in accounts[n].codes])
          /\ UNCHANGED <<sessions, tokens, minted, opened, history>>
      BY <2>3 DEF Hits
    <3>2. accounts[n] \in Accounts
      BY <1>6, <3>1
    <3>3. a \in Accounts
      BY <3>2 DEF Accounts
    <3>4. accounts[n].pw \in Passwords /\ accounts[n].codes \subseteq Int
      BY <3>2 DEF Accounts
    <3> HIDE DEF a, n
    <3>5. There' = There
      BY <1>0, <1>3, <1>4, <1>5, <3>1, <3>3
    <3>6. TypeOK'
      BY <1>0, <1>3, <3>1, <3>3, <3>5 DEF Becomes, history, TypeOK
    <3>7. Calls' /\ Pages'
      <4> DEFINE r == [pw |-> accounts[n].pw, once |-> c.arg.code \in accounts[n].codes]
      <4>1. Becomes(c, "verified", r) /\ r.pw \in Passwords /\ (r.once => c.arg.code \in Int)
        BY <3>1, <3>4
      <4>2. SignsIn(c) /\ c.arg.user \in There' /\ ~Issuing(c)
        BY <2>3, <3>1, <3>5 DEF SignsIn, Issuing, n
      <4> HIDE DEF r
      <4> QED BY <3>5, <4>1, <4>2, CallsKept
    <3> QED BY <1>1, <3>6, <3>7
  <2>4. CASE SignsIn(c) /\ Opens(c)
    <3>1. c.arg.user \in There /\ c.read.pw \in Passwords /\ (c.read.once => c.arg.code \in Int)
      BY <2>0, <2>4 DEF IsCall, Opens
    <3>2. There' = There
      BY <2>4 DEF Opens, There
    <3>3. TypeOK'
      BY <1>0, <2>0, <2>4, <3>1, <3>2 DEF Opens, Becomes, TypeOK, IsCall
    <3>4. Calls' /\ Pages'
      BY <1>0, <2>4, <3>2, CallsKept DEF Opens, SignsIn, Issuing
    <3> QED BY <1>1, <3>3, <3>4
  <2>5. CASE Waves(c)
    <3>1. There' = There
      BY <2>5 DEF Waves, There
    <3>2. TypeOK'
      BY <1>0, <2>5, <3>1 DEF Waves, Becomes, TypeOK
    <3>3. Calls' /\ Pages'
      <4>1. PICK step \in {"refused", "unknown", "counted", "challenge", "failed", "ok"} :
              (\E read : Becomes(c, step, read)) /\ (step = "ok" => c.kind \in {"revoke", "logout"})
        BY <2>5 DEF Waves
      <4> QED BY <3>1, <4>1, CallsKept DEF SignsIn, Issuing
    <3> QED BY <1>1, <3>2, <3>3
  <2>6. CASE Joins(c)
    <3> DEFINE n == c.arg.user
    <3>1. PICK admin \in BOOLEAN : accounts' = [accounts EXCEPT ![n] = Account(admin, c.arg.pw)]
      BY <2>6 DEF Joins
    <3>2. n \in Names /\ c.arg.pw \in Passwords
      BY <2>0, <2>6 DEF Joins, IsCall
    <3>3. Account(admin, c.arg.pw) \in Accounts
      BY <3>2 DEF Account, Accounts
    <3>4. There' = There \cup {n}
      BY <1>0, <1>3, <1>4, <1>5, <2>6, <3>1, <3>2, <3>3
    <3>5. \A m \in There : m \in There'
      BY <3>4
    <3>6. TypeOK'
      BY <1>0, <2>6, <3>1, <3>2, <3>3, <3>5 DEF Joins, Becomes, history, TypeOK
    <3>7. Calls' /\ Pages'
      <4>1. CASE c.kind = "setup"
        <5>1. Becomes(c, "verified", [pw |-> c.arg.pw, once |-> FALSE])
          BY <2>6, <4>1 DEF Joins
        <5> QED BY <3>2, <3>4, <3>5, <4>1, <5>1, CallsKept DEF SignsIn, Issuing
      <4>2. CASE c.kind = "create"
        <5>1. Becomes(c, "ok", None)
          BY <2>6, <4>2 DEF Joins
        <5> QED BY <3>5, <4>2, <5>1, CallsKept DEF SignsIn, Issuing
      <4> QED BY <2>6, <4>1, <4>2 DEF Joins
    <3> QED BY <1>1, <3>6, <3>7
  <2>7. CASE Mints(c)
    <3>1. There' = There
      BY <2>7 DEF Mints, There
    <3>2. TypeOK'
      BY <1>0, <2>7, <3>1 DEF Mints, Becomes, history, TypeOK
    <3>3. Calls' /\ Pages'
      BY <1>0, <2>7, <3>1, CallsKept DEF Mints, SignsIn, Issuing
    <3> QED BY <1>1, <3>2, <3>3
  <2>8. ASSUME NEW n \in There, Tames(c, n) PROVE Shape'
    <3>1. PICK a \in Accounts : accounts' = [accounts EXCEPT ![n] = a] /\ (Clears(c, n, a) \/ Updates(c, n, a))
      BY <2>8 DEF Tames
    <3>2. There' = There
      BY <1>0, <1>3, <1>4, <1>5, <3>1
    <3>3. sessions' \subseteq [no : Int, user : There, pw : Passwords]
      BY <1>0, <2>8 DEF Tames
    <3>4. made' = made /\ cookie' = cookie /\ me' = me /\ seen' = seen
      BY <3>1 DEF Clears, Updates, Becomes
    <3>5. owed' \subseteq Int \X Nat /\ overtaken' \subseteq Nat
      <4>1. CASE Clears(c, n, a)
        BY <1>0, <4>1 DEF Clears
      <4>2. CASE Updates(c, n, a)
        <5>1. \A x \in calls : x.no \in Nat
          BY <1>2 DEF Calls, IsCall
        <5>2. \A s \in DeleteOtherUserSessions(n, Kept(c)) : s.no \in Int
          BY <1>0 DEF DeleteOtherUserSessions
        <5> QED BY <1>0, <2>0, <4>2, <5>1, <5>2 DEF Updates, IsCall
      <4> QED BY <3>1, <4>1, <4>2
    <3>6. TypeOK'
      BY <1>0, <1>3, <2>8, <3>1, <3>2, <3>3, <3>4, <3>5 DEF Tames, TypeOK
    <3>7. Calls' /\ Pages'
      <4>1. CASE Clears(c, n, a)
        <5>1. CASE c.kind \in {"enable", "disable"} /\ Becomes(c, "changed", n)
          BY <3>2, <5>1, CallsKept DEF Issuing, Changing
        <5>2. CASE Issuing(c) /\ Becomes(c, "cleared", [user |-> n, codes |-> {}])
          BY <3>2, <5>2, CallsKept DEF Issuing
        <5>3. CASE c.kind \in {"disable", "bar"} /\ Becomes(c, "ok", None)
          BY <3>2, <5>3, CallsKept DEF Issuing, SignsIn
        <5> QED BY <4>1, <5>1, <5>2, <5>3 DEF Clears
      <4>2. CASE Updates(c, n, a)
        BY <3>2, <4>2, CallsKept DEF Updates, Issuing, Changing
      <4> QED BY <3>1, <4>1, <4>2
    <3> QED BY <1>1, <3>6, <3>7
  <2>9. ASSUME NEW s \in sessions, Knows(c, s.user) \/ Holds(c, s.user) PROVE Shape'
    <3>1. There' = There /\ UNCHANGED server
      BY <2>9 DEF Knows, Holds, There, server
    <3>2. PICK step, read : Becomes(c, step, read)
      BY <2>9 DEF Knows, Holds
    <3>3. TypeOK'
      BY <1>0, <3>1, <3>2 DEF server, history, Becomes, TypeOK
    <3>4. s.user \in Names /\ s.user \in There
      BY <1>0, <1>3
    <3>5. Calls' /\ Pages'
      <4>1. CASE Knows(c, s.user)
        BY <3>1, <3>4, <4>1, CallsKept DEF Knows, SignsIn, Issuing
      <4>2. CASE Holds(c, s.user)
        BY <3>1, <3>4, <4>2, CallsKept DEF Holds, Changing, Issuing
      <4> QED BY <2>9, <4>1, <4>2
    <3> QED BY <1>1, <3>3, <3>5
  <2>10. CASE Issues(c)
    <3> DEFINE n == c.read.user
               k == minted + 1
               a == [accounts[n] EXCEPT !.codes = accounts[n].codes \cup {k}]
               r == [user |-> n, codes |-> c.read.codes \cup {k}]
    <3>1. /\ accounts' = [accounts EXCEPT ![n] = a] /\ Issuing(c) /\ c.step = "cleared" /\ minted' = k
          /\ issued' = issued \cup {<<k, c.no>>}
          /\ UNCHANGED <<sessions, tokens, fails, opened, owed, overtaken>>
      BY <2>10 DEF Issues
    <3>2. PICK step \in {"cleared", "ok"} : Becomes(c, step, r)
      BY <2>10 DEF Issues
    <3>3. n \in There /\ c.read.codes \subseteq Int /\ c.no \in Nat /\ k \in Nat
      BY <1>0, <2>0, <3>1 DEF IsCall, IssuesCodes, Issuing, IsIssue
    <3>4. a \in Accounts
      BY <1>6, <3>3 DEF Accounts
    <3>5. r = [user |-> r.user, codes |-> r.codes] /\ r.user = n /\ r.codes \subseteq Int
      BY <3>3
    <3> HIDE DEF a, r, k, n
    <3>6. There' = There
      BY <1>0, <1>3, <1>4, <1>5, <3>1, <3>3, <3>4
    <3>7. TypeOK'
      BY <1>0, <1>3, <3>1, <3>2, <3>3, <3>4, <3>6 DEF Becomes, TypeOK
    <3>8. Calls' /\ Pages'
      BY <3>1, <3>2, <3>3, <3>5, <3>6, CallsKept DEF SignsIn, Issuing
    <3> QED BY <1>1, <3>7, <3>8
  <2>11. CASE Empties(c)
    <3>1. There' = There
      BY <2>11 DEF Empties, There
    <3>2. TypeOK'
      BY <1>0, <2>11, <3>1 DEF Empties, Becomes, TypeOK
    <3>3. Calls' /\ Pages'
      BY <2>11, <3>1, CallsKept DEF Empties, SignsPeopleOut, SignsIn, Issuing
    <3> QED BY <1>1, <3>2, <3>3
  <2> QED BY <1>9, <2>1, <2>2, <2>3, <2>4, <2>5, <2>6, <2>7, <2>8, <2>9, <2>10, <2>11 DEF Serves
<1>10. ASSUME NEW c \in calls, Brings(c) PROVE Shape'
  <2> DEFINE d == c.dev
  <2>0. IsCall(c) /\ d \in Devices
    BY <1>2 DEF Calls, IsCall
  <2>1. PICK user, no :
          /\ me' = [me EXCEPT ![d] = user] /\ cookie' = [cookie EXCEPT ![d] = no]
          /\ \/ user = None /\ no \in {None, cookie[d]}
             \/ user = me[d] /\ no = cookie[d]
             \/ c.step = "ok" /\ SignsIn(c) /\ user = c.arg.user /\ no = c.read
             \/ c.step = "ok" /\ c.kind = "me" /\ user = c.read /\ no = cookie[d]
    BY <1>10 DEF Brings
  <2>2. user \in Names \cup {None} /\ no \in Int \cup {None}
    BY <1>0, <2>0, <2>1 DEF IsCall
  <2>3. /\ calls' = calls \ {c} /\ UNCHANGED <<server, made>>
        /\ seen' = IF Shows(c) THEN [seen EXCEPT ![me[d]] = seen[me[d]] \cup c.read.codes] ELSE seen
    BY <1>10 DEF Brings
  <2>4. seen' \in [Names -> SUBSET Int]
    <3>1. Shows(c) => c.read.codes \subseteq Int
      BY <2>0 DEF IsCall, Shows, IsIssue
    <3> QED BY <1>0, <2>3, <3>1
  <2>5. TypeOK'
    BY <1>0, <2>0, <2>1, <2>2, <2>3, <2>4 DEF TypeOK, There, server, history
  <2>6. Calls'
    <3>1. \A x \in calls' : x \in calls /\ x.dev # d
      BY <1>2, <2>3 DEF Calls
    <3>2. \A x \in calls' : cookie'[x.dev] = cookie[x.dev]
      BY <1>0, <1>2, <2>1, <3>1 DEF Calls, IsCall
    <3>3. \A x \in calls' : Stays(x)
      BY <1>2, <2>3, <3>1, <3>2 DEF Calls, There, server, Stays
    <3>4. \A x \in calls' : IsCall(x)'
      BY <1>13, <3>3
    <3> QED BY <1>2, <3>1, <3>4 DEF Calls
  <2>7. Pages'
    <3>1. PICK p : IsPage(p) /\ page' = [page EXCEPT ![d] = p]
      BY <1>10 DEF Brings
    <3> QED BY <1>2, <2>0, <3>1 DEF Pages, IsPage
  <2> QED BY <1>1, <2>5, <2>6, <2>7
<1>11. CASE Passes
  <2>1. TypeOK'
    BY <1>0, <1>11 DEF Passes, history, TypeOK, There
  <2>2. Calls'
    BY <1>11, <1>14 DEF Passes
  <2>3. Pages'
    BY <1>2, <1>11 DEF Passes, Pages, IsPage
  <2> QED BY <1>1, <2>1, <2>2, <2>3
<1>12. CASE UNCHANGED vars
  <2>1. TypeOK'
    BY <1>0, <1>12 DEF vars, server, history, TypeOK, There
  <2>2. Calls'
    BY <1>12, <1>14 DEF vars, server
  <2>3. Pages'
    BY <1>2, <1>12 DEF vars, server, Pages, IsPage
  <2> QED BY <1>1, <2>1, <2>2, <2>3
<1> QED BY <1>7, <1>8, <1>9, <1>10, <1>11, <1>12 DEF Steps

-----------------------------------------------------------------------------
(***************************************************************************)
(* A code opens one session                                                *)
(***************************************************************************)

\* Numbers are given once; a code is one account's until it is used, and is gone with it.
LEMMA CodesKept ==
  ASSUME Shape, Numbered, CodesGo, Steps, Shape'
  PROVE  Numbered' /\ CodesGo'
<1>0. /\ minted \in Nat /\ minted' \in Nat /\ None \notin Int /\ None \notin Accounts
      /\ accounts \in [Names -> Accounts \cup {None}] /\ opened \subseteq Int \X Int
      /\ \A n \in There : n \in Names /\ accounts[n] \in Accounts
      /\ \A n \in There : accounts[n].codes \subseteq Int
      /\ \A n \in There' : n \in Names /\ accounts'[n] \in Accounts
      /\ \A s \in sessions : s.no \in Int /\ s.user \in There
      /\ cookie \in [Devices -> Int \cup {None}]
      /\ \A c \in calls : IsCall(c)
  BY SessionConstants DEF Shape, TypeOK, There, Accounts
<1>1. ASSUME UNCHANGED <<accounts, opened, minted>>, sessions' \subseteq sessions,
             \A d \in Devices : cookie'[d] # None => cookie'[d] <= minted,
             \A c \in calls' : /\ SignsIn(c) /\ c.step = "ok" => c.read <= minted
                               /\ IssuesCodes(c) => c \in calls
                               /\ Using(c) => c \in calls
      PROVE  Numbered' /\ CodesGo'
  <2>1. There' = There
    BY <1>1 DEF There
  <2>2. Numbered'
    BY <1>1, <2>1 DEF Numbered, SignsIn, IssuesCodes, Using
  <2>3. CodesGo'
    BY <1>1, <2>1 DEF CodesGo, CodesOpenOnce, Using
  <2> QED BY <2>2, <2>3
<1>2. ASSUME NEW d \in Devices, Sends(d) \/ Turns(d) PROVE Numbered' /\ CodesGo'
  <2>1. UNCHANGED <<accounts, opened, minted, sessions, cookie>>
    BY <1>2 DEF Sends, Turns, server
  <2>2. \A c \in calls' : c \in calls \/ c.step = "sent"
    BY <1>2 DEF Sends, Turns
  <2> QED BY <1>1, <2>1, <2>2 DEF Numbered, IssuesCodes, Using
<1>3. CASE Passes
  BY <1>1, <1>3 DEF Passes, Numbered
<1>4. CASE UNCHANGED vars
  BY <1>1, <1>4 DEF vars, server, Numbered
<1>5. ASSUME NEW c \in calls, Brings(c) PROVE Numbered' /\ CodesGo'
  <2>1. UNCHANGED <<accounts, opened, minted, sessions>> /\ calls' \subseteq calls
    BY <1>5 DEF Brings, server
  <2>2. ASSUME NEW d \in Devices, cookie'[d] # None PROVE cookie'[d] <= minted
    <3>1. PICK user, no :
          /\ cookie' = [cookie EXCEPT ![c.dev] = no]
          /\ \/ no \in {None, cookie[c.dev]}
             \/ c.step = "ok" /\ SignsIn(c) /\ no = c.read
      BY <1>5 DEF Brings
    <3> QED BY <1>0, <2>2, <3>1 DEF Numbered
  <2> QED BY <1>1, <2>1, <2>2 DEF Numbered
<1>6. ASSUME NEW c \in calls, Serves(c) PROVE Numbered' /\ CodesGo'
  <2> DEFINE now(step, read) ==
               [no |-> c.no, dev |-> c.dev, kind |-> c.kind, cookie |-> c.cookie, arg |-> c.arg,
                step |-> step, read |-> read]
  <2>1. ASSUME NEW step, NEW read, Becomes(c, step, read)
        PROVE  /\ \A x \in calls' : (x \in calls /\ x # c) \/ x = now(step, read)
               /\ cookie' = cookie
    BY <2>1 DEF Becomes
  <2>2. ASSUME NEW step, NEW read, Becomes(c, step, read), step # "verified",
               step \in {"ok", "cleared"} => ~SignsIn(c) /\ c.kind \notin {"enable", "codes"},
               UNCHANGED <<accounts, opened, minted>>, sessions' \subseteq sessions
        PROVE  Numbered' /\ CodesGo'
    BY <1>1, <2>1, <2>2 DEF Numbered, SignsIn, IssuesCodes, Using
  <2>3. CASE Enters(c)
    BY <2>2, <2>3 DEF Enters, server
  <2>4. CASE Misses(c)
    BY <2>2, <2>4 DEF Misses
  <2>5. CASE Waves(c)
    BY <2>2, <2>5 DEF Waves, SignsIn
  <2>6. ASSUME NEW n, Knows(c, n) \/ Holds(c, n) PROVE Numbered' /\ CodesGo'
    BY <2>2, <2>6 DEF Knows, Holds, server, SignsIn
  <2>14. CASE Empties(c)
    BY <2>2, <2>14 DEF Empties, SignsPeopleOut, SignsIn
  <2>7. CASE c.kind \in {"login", "recovery"} /\ Hits(c)
    <3> DEFINE n == c.arg.user
               k == c.arg.code
               a == [accounts[n] EXCEPT !.codes = accounts[n].codes \ {k}]
               r == [pw |-> accounts[n].pw, once |-> k \in accounts[n].codes]
    <3>1. /\ n \in There /\ accounts' = [accounts EXCEPT ![n] = a]
          /\ Becomes(c, "verified", r) /\ UNCHANGED <<sessions, opened, minted>>
      BY <2>7 DEF Hits
    <3>2. a \in Accounts /\ a.codes = accounts[n].codes \ {k}
      BY <1>0, <3>1 DEF Accounts
    <3>3. /\ \A x \in calls' : (x \in calls /\ x # c) \/ x = now("verified", r)
          /\ cookie' = cookie
      BY <2>1, <3>1
    <3>4. ~SignsIn(c) \/ ~IssuesCodes(now("verified", r))
      BY DEF IssuesCodes
    <3>5. now("verified", r).step = "verified" /\ now("verified", r).arg.code = k
          /\ now("verified", r).read.once = (k \in accounts[n].codes)
      OBVIOUS
    <3>6. There' = There
      BY <1>0, <3>1, <3>2 DEF There
    <3> HIDE DEF a, r, k, n, now
    <3>7. \A m \in There : accounts'[m].codes = accounts[m].codes \ (IF m = n THEN {k} ELSE {})
      BY <1>0, <3>1, <3>2
    <3>8. Numbered'
      BY <1>0, <3>1, <3>3, <3>5, <3>6, <3>7 DEF Numbered, Using, IssuesCodes
    <3>9. CodesGo'
      <4>1. \A m, o \in There' : m # o => accounts'[m].codes \cap accounts'[o].codes = {}
        BY <3>6, <3>7 DEF CodesGo
      <4>2. \A x \in opened' : \A m \in There' : x[1] \notin accounts'[m].codes
        BY <3>1, <3>6, <3>7 DEF CodesGo
      <4>3. ASSUME NEW x \in calls', Using(x)
            PROVE  /\ \A m \in There' : x.arg.code \notin accounts'[m].codes
                   /\ \A y \in opened' : y[1] # x.arg.code
                   /\ \A y \in calls' : Using(y) /\ y.arg.code = x.arg.code => y = x
        <5>1. CASE x \in calls /\ x # c
          BY <3>1, <3>3, <3>5, <3>6, <3>7, <4>3, <5>1, ZenonT(40) DEF CodesGo, Using
        <5>2. CASE x = now("verified", r)
          <6>1. k \in accounts[n].codes
            BY <3>5, <4>3, <5>2 DEF Using
          <6>2. \A m \in There : m # n => k \notin accounts[m].codes
            BY <3>1, <6>1 DEF CodesGo
          <6> QED BY <3>1, <3>3, <3>5, <3>6, <3>7, <5>2, <6>1, <6>2 DEF CodesGo, Using
        <5> QED BY <3>3, <5>1, <5>2
      <4>4. CodesOpenOnce'
        BY <3>1 DEF CodesGo, CodesOpenOnce
      <4> QED BY <4>1, <4>2, <4>3, <4>4 DEF CodesGo, Using
    <3> QED BY <3>8, <3>9
  <2>8. CASE SignsIn(c) /\ Opens(c)
    <3> DEFINE new == [no |-> minted + 1, user |-> c.arg.user, pw |-> c.read.pw]
               k == c.arg.code
    <3>1. /\ c.step = "verified" /\ minted' = minted + 1 /\ sessions' = sessions \cup {new}
          /\ opened' = IF c.read.once THEN opened \cup {<<k, minted + 1>>} ELSE opened
          /\ Becomes(c, "ok", minted + 1) /\ UNCHANGED accounts
      BY <2>8 DEF Opens
    <3>2. /\ \A x \in calls' : (x \in calls /\ x # c) \/ x = now("ok", minted + 1)
          /\ cookie' = cookie
      BY <2>1, <3>1
    <3>3. There' = There /\ c.kind \notin {"enable", "codes"}
      BY <2>8, <3>1 DEF There, SignsIn
    <3>4. now("ok", minted + 1).step = "ok" /\ now("ok", minted + 1).read = minted + 1
          /\ now("ok", minted + 1).kind = c.kind /\ new.no = minted + 1
      OBVIOUS
    <3> HIDE DEF now, new
    <3>5. c.read.once => Using(c)
      BY <3>1 DEF Using
    <3>6. Numbered'
      <4>1. \A s \in sessions' : s.no <= minted'
        BY <1>0, <3>1, <3>4 DEF Numbered
      <4>2. \A s, t \in sessions' : s.no = t.no => s = t
        BY <1>0, <3>1, <3>4 DEF Numbered
      <4>3. \A n \in There' : \A m \in accounts'[n].codes : m <= minted'
        BY <1>0, <3>1, <3>3 DEF Numbered
      <4>4. \A x \in opened' : x[1] <= minted'
        <5>1. c.read.once => k \in Int /\ k <= minted
          BY <1>0, <3>1, <3>5 DEF Numbered, IsCall
        <5>2. \A x \in opened : x[1] \in Int /\ x[1] <= minted
          BY <1>0 DEF Numbered
        <5>3. \A x \in opened' : x \in opened \/ (c.read.once /\ x[1] = k)
          BY <3>1
        <5> QED BY <1>0, <3>1, <5>1, <5>2, <5>3
      <4>5. \A d \in Devices : cookie'[d] # None => cookie'[d] <= minted'
        BY <1>0, <3>1, <3>2 DEF Numbered
      <4>6. ASSUME NEW x \in calls'
            PROVE  /\ SignsIn(x) /\ x.step = "ok" => x.read <= minted'
                   /\ IssuesCodes(x) => \A m \in x.read.codes : m <= minted'
                   /\ Using(x) => x.arg.code <= minted'
        <5>1. CASE x \in calls
          <6>1. /\ SignsIn(x) /\ x.step = "ok" => x.read \in Int /\ x.read <= minted
                /\ IssuesCodes(x) => \A m \in x.read.codes : m \in Int /\ m <= minted
                /\ Using(x) => x.arg.code \in Int /\ x.arg.code <= minted
            BY <1>0, <5>1 DEF Numbered, IsCall, IsIssue, Using
          <6> QED BY <1>0, <3>1, <6>1
        <5>2. CASE x = now("ok", minted + 1)
          BY <1>0, <3>1, <3>3, <3>4, <5>2 DEF Using, IssuesCodes
        <5> QED BY <3>2, <5>1, <5>2
      <4> QED BY <4>1, <4>2, <4>3, <4>4, <4>5, <4>6 DEF Numbered, SignsIn, IssuesCodes, Using
    <3>7. CodesGo'
      <4>1. \A x \in opened' : x \in opened \/ (c.read.once /\ x = <<k, minted + 1>>)
        BY <3>1
      <4>2. c.read.once => /\ \A n \in There : k \notin accounts[n].codes
                           /\ \A x \in opened : x[1] # k
                           /\ \A y \in calls : Using(y) /\ y.arg.code = k => y = c
        BY <3>5 DEF CodesGo
      <4>3. \A x \in calls' : Using(x) => x \in calls /\ x # c
        BY <3>2, <3>4 DEF Using
      <4>4. \A x \in opened' : \A n \in There' : x[1] \notin accounts'[n].codes
        BY <3>1, <3>3, <4>1, <4>2 DEF CodesGo
      <4>5. ASSUME NEW x \in calls', Using(x)
            PROVE  /\ \A n \in There' : x.arg.code \notin accounts'[n].codes
                   /\ \A y \in opened' : y[1] # x.arg.code
                   /\ \A y \in calls' : Using(y) /\ y.arg.code = x.arg.code => y = x
        BY <3>1, <3>3, <4>1, <4>2, <4>3, <4>5 DEF CodesGo
      <4>6. CodesOpenOnce'
        BY <4>1, <4>2 DEF CodesGo, CodesOpenOnce
      <4>7. \A n, m \in There' : n # m => accounts'[n].codes \cap accounts'[m].codes = {}
        BY <3>1, <3>3 DEF CodesGo
      <4> QED BY <4>4, <4>5, <4>6, <4>7 DEF CodesGo, Using
    <3> QED BY <3>6, <3>7
  \* A step that gives codes to an account, opens nothing and consumes none.
  <2> DEFINE Gives(step, read, n, a, fresh) ==
               /\ Becomes(c, step, read) /\ accounts' = [accounts EXCEPT ![n] = a]
               /\ fresh \subseteq {minted + 1} /\ minted' >= minted
               /\ fresh # {} => minted' = minted + 1
               /\ \A k \in a.codes : k \in fresh \/ (n \in There /\ k \in accounts[n].codes)
               /\ step = "verified" => ~read.once
               /\ step \in {"cleared", "ok"} /\ Issuing(c) =>
                    \A k \in read.codes : k \in fresh \/ (k \in Int /\ k <= minted)
               /\ step = "ok" => ~SignsIn(c)
               /\ \A s \in sessions' : \E t \in sessions : t.no = s.no
               /\ \A s, t \in sessions' : s.no = t.no => s = t
               /\ UNCHANGED opened
  <2>9. ASSUME NEW step, NEW read, NEW n \in Names, NEW a \in Accounts, NEW fresh,
               Gives(step, read, n, a, fresh)
        PROVE  Numbered' /\ CodesGo'
    <3>1. /\ \A x \in calls' : (x \in calls /\ x # c) \/ x = now(step, read)
          /\ cookie' = cookie
      BY <2>1, <2>9
    <3>2. /\ now(step, read).step = step /\ now(step, read).read = read /\ now(step, read).kind = c.kind
      OBVIOUS
    <3> HIDE DEF now
    <3>3. \A m \in There' : m = n \/ (m \in There /\ accounts'[m] = accounts[m])
      BY <1>0, <2>9 DEF There
    <3>4. accounts'[n] = a
      BY <1>0, <2>9
    <3>5. \A m \in There' : \A k \in accounts'[m].codes :
            \/ k = minted + 1 /\ fresh # {} /\ m = n
            \/ m \in There /\ k \in accounts[m].codes
      BY <2>9, <3>3, <3>4
    <3>6. \A m \in There : \A k \in accounts[m].codes : k \in Int /\ k <= minted
      BY <1>0 DEF Numbered
    <3>7. \A x \in opened : x[1] \in Int /\ x[1] <= minted
      BY <1>0 DEF Numbered
    <3>8. \A x \in calls' : Using(x) => x \in calls
      BY <2>9, <3>1, <3>2 DEF Using
    <3>9. \A x \in calls : Using(x) => x.arg.code \in Int /\ x.arg.code <= minted
      BY <1>0 DEF Numbered, Using, IsCall
    <3>10. Numbered'
      <4>1. \A s \in sessions' : s.no <= minted'
        BY <1>0, <2>9 DEF Numbered
      <4>2. \A m \in There' : \A k \in accounts'[m].codes : k <= minted'
        BY <1>0, <2>9, <3>5, <3>6
      <4>3. \A x \in opened' : x[1] <= minted'
        BY <1>0, <2>9, <3>7
      <4>4. \A d \in Devices : cookie'[d] # None => cookie'[d] <= minted'
        BY <1>0, <2>9, <3>1 DEF Numbered
      <4>5. ASSUME NEW x \in calls'
            PROVE  /\ SignsIn(x) /\ x.step = "ok" => x.read <= minted'
                   /\ IssuesCodes(x) => \A m \in x.read.codes : m <= minted'
                   /\ Using(x) => x.arg.code <= minted'
        <5>1. Using(x) => x.arg.code <= minted'
          BY <1>0, <2>9, <3>8, <3>9
        <5>2. CASE x \in calls
          <6>1. /\ SignsIn(x) /\ x.step = "ok" => x.read \in Int /\ x.read <= minted
                /\ IssuesCodes(x) => \A m \in x.read.codes : m \in Int /\ m <= minted
            BY <1>0, <5>2 DEF Numbered, IsCall, IsIssue
          <6> QED BY <1>0, <2>9, <5>1, <6>1
        <5>3. CASE x = now(step, read)
          <6>1. ~(SignsIn(x) /\ x.step = "ok")
            BY <2>9, <3>2, <5>3 DEF SignsIn
          <6>2. ASSUME IssuesCodes(x), NEW m \in x.read.codes PROVE m <= minted'
            <7>1. m \in fresh \/ (m \in Int /\ m <= minted)
              BY <2>9, <3>2, <5>3, <6>2 DEF IssuesCodes, Issuing
            <7>2. m \in fresh => m = minted + 1 /\ minted' = minted + 1
              BY <2>9
            <7> QED BY <1>0, <2>9, <7>1, <7>2
          <6> QED BY <5>1, <6>1, <6>2
        <5> QED BY <3>1, <5>2, <5>3
      <4> QED BY <2>9, <4>1, <4>2, <4>3, <4>4, <4>5 DEF Numbered, SignsIn, IssuesCodes, Using
    <3>11. CodesGo'
      <4>1. \A m, o \in There' : m # o => accounts'[m].codes \cap accounts'[o].codes = {}
        <5> SUFFICES ASSUME NEW m \in There', NEW o \in There', m # o,
                            NEW k \in accounts'[m].codes, k \in accounts'[o].codes
                     PROVE  FALSE
          OBVIOUS
        <5> QED BY <1>0, <3>5, <3>6 DEF CodesGo
      <4>2. \A x \in opened' : \A m \in There' : x[1] \notin accounts'[m].codes
        BY <1>0, <2>9, <3>5, <3>7 DEF CodesGo
      <4>3. ASSUME NEW x \in calls', Using(x)
            PROVE  /\ \A m \in There' : x.arg.code \notin accounts'[m].codes
                   /\ \A y \in opened' : y[1] # x.arg.code
                   /\ \A y \in calls' : Using(y) /\ y.arg.code = x.arg.code => y = x
        BY <1>0, <2>9, <3>5, <3>8, <3>9, <4>3 DEF CodesGo
      <4>4. CodesOpenOnce'
        BY <2>9 DEF CodesGo, CodesOpenOnce
      <4> QED BY <4>1, <4>2, <4>3, <4>4 DEF CodesGo, Using
    <3> QED BY <3>10, <3>11
  <2>10. CASE Joins(c)
    <3>1. PICK admin \in BOOLEAN : accounts' = [accounts EXCEPT ![c.arg.user] = Account(admin, c.arg.pw)]
      BY <2>10 DEF Joins
    <3>2. c.arg.user \in Names /\ c.arg.pw \in Passwords /\ c.kind \in {"setup", "create"}
      BY <1>0, <2>10 DEF Joins, IsCall
    <3>3. Account(admin, c.arg.pw) \in Accounts /\ Account(admin, c.arg.pw).codes = {}
      BY <3>2 DEF Account, Accounts
    <3>4. UNCHANGED <<sessions, opened, minted>>
      BY <2>10 DEF Joins
    <3>5. \A s, t \in sessions : s.no = t.no => s = t
      BY DEF Numbered
    <3>6. CASE c.kind = "setup"
      <4>1. Becomes(c, "verified", [pw |-> c.arg.pw, once |-> FALSE])
        BY <2>10, <3>6 DEF Joins
      <4>2. Gives("verified", [pw |-> c.arg.pw, once |-> FALSE], c.arg.user, Account(admin, c.arg.pw), {})
        BY <1>0, <3>1, <3>3, <3>4, <3>5, <4>1
      <4> QED BY <2>9, <3>2, <3>3, <4>2
    <3>7. CASE c.kind = "create"
      <4>1. Becomes(c, "ok", None)
        BY <2>10, <3>7 DEF Joins
      <4>2. Gives("ok", None, c.arg.user, Account(admin, c.arg.pw), {})
        BY <1>0, <3>1, <3>3, <3>4, <3>5, <3>7, <4>1 DEF SignsIn, Issuing
      <4> HIDE DEF Gives
      <4> QED BY <2>9, <3>2, <3>3, <4>2
    <3> QED BY <3>2, <3>6, <3>7
  <2>11. ASSUME NEW n \in There, Tames(c, n) PROVE Numbered' /\ CodesGo'
    <3>1. PICK a \in Accounts : /\ a.codes \subseteq accounts[n].codes /\ accounts' = [accounts EXCEPT ![n] = a]
                                /\ Clears(c, n, a) \/ Updates(c, n, a)
      BY <2>11 DEF Tames
    <3>2. /\ \A s \in sessions' : \E t \in sessions : t.no = s.no
          /\ \A s, t \in sessions' : s.no = t.no => s = t
          /\ UNCHANGED <<opened, minted>>
      BY <2>11 DEF Tames
    <3>3. c.kind \in {"enable", "disable", "bar", "codes", "password", "reset"}
      BY <3>1 DEF Clears, Updates
    <3>4. n \in Names
      BY <1>0
    <3>5. ASSUME NEW step, NEW read, Becomes(c, step, read), step # "verified",
                 Issuing(c) => step = "changed" \/ read.codes = {}
          PROVE  Numbered' /\ CodesGo'
      <4>1. Gives(step, read, n, a, {})
        BY <1>0, <3>1, <3>2, <3>3, <3>5 DEF SignsIn
      <4> HIDE DEF Gives
      <4> QED BY <2>9, <3>4, <4>1
    <3> HIDE DEF Gives
    <3>6. CASE Clears(c, n, a)
      BY <3>5, <3>6 DEF Clears, Issuing
    <3>7. CASE Updates(c, n, a)
      BY <3>5, <3>7 DEF Updates, Issuing
    <3> QED BY <3>1, <3>6, <3>7
  <2>12. CASE Mints(c)
    <3>1. /\ c.kind \in {"secret", "token"} /\ minted' = minted + 1 /\ Becomes(c, "ok", minted + 1)
          /\ UNCHANGED <<accounts, sessions, opened>>
      BY <2>12 DEF Mints
    <3>2. There' = There
      BY <3>1 DEF There
    <3>3. /\ \A x \in calls' : x \in calls \/ (x.kind \in {"secret", "token"} /\ x.step = "ok")
          /\ cookie' = cookie
      BY <2>1, <3>1
    <3>4. CodesGo'
      BY <3>1, <3>2, <3>3 DEF CodesGo, CodesOpenOnce, Using
    <3>5. \A m \in There : \A k \in accounts[m].codes : k <= minted + 1
      BY <1>0 DEF Numbered
    <3>6. \A x \in opened : x[1] <= minted + 1
      <4>1. \A x \in opened : x[1] \in Int /\ x[1] <= minted
        BY <1>0 DEF Numbered
      <4> QED BY <1>0, <4>1
    <3>7. ASSUME NEW x \in calls'
          PROVE  /\ SignsIn(x) /\ x.step = "ok" => x.read <= minted + 1
                 /\ IssuesCodes(x) => \A m \in x.read.codes : m <= minted + 1
                 /\ Using(x) => x.arg.code <= minted + 1
      <4>1. CASE x \in calls
        <5>1. /\ SignsIn(x) /\ x.step = "ok" => x.read \in Int /\ x.read <= minted
              /\ IssuesCodes(x) => \A m \in x.read.codes : m \in Int /\ m <= minted
              /\ Using(x) => x.arg.code \in Int /\ x.arg.code <= minted
          BY <1>0, <4>1 DEF Numbered, IsCall, IsIssue, Using
        <5> QED BY <1>0, <5>1
      <4>2. CASE x.kind \in {"secret", "token"} /\ x.step = "ok"
        BY <4>2 DEF SignsIn, IssuesCodes, Using
      <4> QED BY <3>3, <4>1, <4>2
    <3>8. Numbered'
      BY <1>0, <3>1, <3>2, <3>3, <3>5, <3>6, <3>7 DEF Numbered, SignsIn, IssuesCodes, Using
    <3> QED BY <3>4, <3>8
  <2>13. CASE Issues(c)
    <3> DEFINE n == c.read.user
               k == minted + 1
               a == [accounts[n] EXCEPT !.codes = accounts[n].codes \cup {k}]
               r == [user |-> n, codes |-> c.read.codes \cup {k}]
    <3>1. /\ Issuing(c) /\ c.step = "cleared" /\ minted' = k /\ accounts' = [accounts EXCEPT ![n] = a]
          /\ UNCHANGED <<sessions, opened>>
      BY <2>13 DEF Issues
    <3>2. PICK step \in {"cleared", "ok"} : Becomes(c, step, r)
      BY <2>13 DEF Issues
    <3>3. n \in There /\ n \in Names /\ c.read.codes \subseteq Int
      BY <1>0, <3>1 DEF IsCall, IssuesCodes, Issuing, IsIssue
    <3>4. a \in Accounts /\ a.codes = accounts[n].codes \cup {k}
      BY <1>0, <3>3 DEF Accounts
    <3>5. \A m \in c.read.codes : m \in Int /\ m <= minted
      BY <3>1, <3>3 DEF Numbered, IssuesCodes, Issuing
    <3>6. r.codes = c.read.codes \cup {k} /\ ~SignsIn(c) /\ \A x, y \in sessions : x.no = y.no => x = y
      BY <3>1 DEF SignsIn, Issuing, Numbered
    <3> HIDE DEF a, r, n
    <3>7. Gives(step, r, n, a, {k})
      BY <1>0, <3>1, <3>2, <3>3, <3>4, <3>5, <3>6
    <3> HIDE DEF Gives
    <3> QED BY <2>9, <3>3, <3>4, <3>7
  <2> QED BY <1>6, <2>3, <2>4, <2>5, <2>6, <2>7, <2>8, <2>10, <2>11, <2>12, <2>13, <2>14 DEF Serves
<1> QED BY <1>2, <1>3, <1>4, <1>5, <1>6 DEF Steps

-----------------------------------------------------------------------------
(***************************************************************************)
(* Guesses are limited                                                     *)
(***************************************************************************)

\* A guess that is answered counts, and leaves the guesses that are not.
LEMMA TriesKept ==
  ASSUME Shape, Tries, Steps, Shape'
  PROVE  Tries'
<1>0. /\ IsFiniteSet(Devices) /\ Cardinality(Devices) \in Nat /\ MaxTries \in Nat \ {0}
      /\ fails \in [Names -> Nat] /\ fails' \in [Names -> Nat]
      /\ \A c \in calls : IsCall(c)
      /\ \A c, x \in calls : c.dev = x.dev => c = x
  BY SessionConstants, FS_CardinalityType DEF Shape, TypeOK
<1>1. \A n : /\ IsFiniteSet(Trying(n)) /\ Cardinality(Trying(n)) \in Nat
             /\ Cardinality(Trying(n)) <= Cardinality(Devices)
  BY <1>0, FS_Subset, FS_CardinalityType DEF Trying
<1>2. \A n : /\ IsFiniteSet(Trying(n)') /\ Cardinality(Trying(n)') \in Nat
             /\ Cardinality(Trying(n)') <= Cardinality(Devices)
  BY <1>0, FS_Subset, FS_CardinalityType DEF Trying
<1>3. ASSUME NEW n, Trying(n)' \subseteq Trying(n)
      PROVE  Cardinality(Trying(n)') <= Cardinality(Trying(n))
  <2> HIDE DEF Trying
  <2> QED BY <1>1, <1>3, FS_Subset
<1>4. ASSUME \A n \in Names : fails'[n] <= fails[n],
             \A c \in calls' : c.step = "allowed" => c \in calls
      PROVE  Tries'
  <2>1. \A n : Trying(n)' \subseteq Trying(n)
    BY <1>4 DEF Trying
  <2>2. \A n \in Names : Cardinality(Trying(n)') <= Cardinality(Trying(n))
    BY <1>3, <2>1
  <2> QED BY <1>0, <1>1, <1>2, <1>4, <2>2 DEF Tries
<1>5. ASSUME NEW n \in Names, fails' = [fails EXCEPT ![n] = fails'[n]], fails'[n] < MaxTries,
             \A c \in calls' : c.step = "allowed" => c \in calls \/ c.arg.user = n
      PROVE  Tries'
  <2> SUFFICES ASSUME NEW m \in Names
               PROVE  fails'[m] + Cardinality(Trying(m)') < MaxTries + Cardinality(Devices)
    BY DEF Tries
  <2>1. CASE m = n
    BY <1>0, <1>2, <1>5, <2>1
  <2>2. CASE m # n
    <3>1. Trying(m)' \subseteq Trying(m)
      BY <1>5, <2>2 DEF Trying
    <3>2. fails'[m] = fails[m]
      BY <1>0, <1>5, <2>2
    <3> QED BY <1>0, <1>1, <1>2, <1>3, <3>1, <3>2 DEF Tries
  <2> QED BY <2>1, <2>2
<1>6. ASSUME NEW d \in Devices, Sends(d) \/ Turns(d) PROVE Tries'
  <2>1. \A c \in calls' : c \in calls \/ c.step = "sent"
    BY <1>6 DEF Sends, Turns
  <2> QED BY <1>0, <1>4, <1>6, <2>1 DEF Sends, Turns, server
<1>7. CASE Passes \/ UNCHANGED vars
  BY <1>0, <1>4, <1>7 DEF Passes, vars, server
<1>8. ASSUME NEW c \in calls, Brings(c) PROVE Tries'
  BY <1>0, <1>4, <1>8 DEF Brings, server
<1>9. ASSUME NEW c \in calls, Serves(c) PROVE Tries'
  <2> DEFINE now(step, read) ==
               [no |-> c.no, dev |-> c.dev, kind |-> c.kind, cookie |-> c.cookie, arg |-> c.arg,
                step |-> step, read |-> read]
  <2>1. ASSUME NEW step, NEW read, Becomes(c, step, read)
        PROVE  \A x \in calls' : \/ x \in calls /\ x # c
                                 \/ x = now(step, read) /\ x.step = step /\ x.arg = c.arg
    BY <2>1 DEF Becomes
  <2>2. ASSUME NEW step, NEW read, Becomes(c, step, read), step # "allowed", UNCHANGED fails
        PROVE  Tries'
    BY <1>0, <1>4, <2>1, <2>2
  <2>3. CASE Enters(c)
    <3>1. c.arg.user \in Names
      BY <1>0, <2>3 DEF Enters, IsCall, SignsIn
    <3> QED BY <1>0, <1>5, <2>1, <2>3, <3>1 DEF Enters, server
  <2>4. CASE c.kind \in {"login", "recovery"} /\ Misses(c)
    <3> DEFINE n == c.arg.user
    <3>1. /\ n \in Names /\ c.dev \in Devices /\ c.step = "allowed"
          /\ fails' = [fails EXCEPT ![n] = fails[n] + 1] /\ Becomes(c, "refused", None)
      BY <1>0, <2>4 DEF Misses, IsCall, SignsIn
    <3>2. \A x \in calls' : x.step = "allowed" => x \in calls /\ x # c
      BY <2>1, <3>1
    <3> SUFFICES ASSUME NEW m \in Names
                 PROVE  fails'[m] + Cardinality(Trying(m)') < MaxTries + Cardinality(Devices)
      BY DEF Tries
    <3>3. Trying(m)' \subseteq Trying(m)
      BY <3>2 DEF Trying
    <3>4. CASE m = n
      <4>1. c.dev \in Trying(m) /\ c.dev \notin Trying(m)'
        BY <1>0, <3>1, <3>2, <3>4 DEF Trying
      <4>2. Cardinality(Trying(m)') < Cardinality(Trying(m))
        <5> HIDE DEF Trying
        <5> QED BY <1>1, <1>2, <3>3, <4>1, FS_Subset
      <4> QED BY <1>0, <1>1, <1>2, <3>1, <3>4, <4>2 DEF Tries
    <3>5. CASE m # n
      BY <1>0, <1>1, <1>2, <1>3, <3>1, <3>3, <3>5 DEF Tries
    <3> QED BY <3>4, <3>5
  <2>5. CASE c.kind \in {"login", "recovery"} /\ Hits(c)
    <3>1. c.arg.user \in Names /\ fails' = [fails EXCEPT ![c.arg.user] = 0]
      BY <1>0, <2>5 DEF Hits, IsCall, SignsIn
    <3>2. \A x \in calls' : x.step = "allowed" => x \in calls
      BY <2>1, <2>5 DEF Hits
    <3> QED BY <1>0, <1>4, <3>1, <3>2
  <2>6. CASE Opens(c)
    BY <2>2, <2>6 DEF Opens
  <2>7. CASE Waves(c)
    BY <2>2, <2>7 DEF Waves
  <2>8. CASE Joins(c)
    <3>1. UNCHANGED fails /\ \E step \in {"verified", "ok"} : \E read : Becomes(c, step, read)
      BY <2>8 DEF Joins
    <3> QED BY <2>2, <3>1
  <2>9. CASE Mints(c)
    BY <2>2, <2>9 DEF Mints
  <2>10. ASSUME NEW n, Tames(c, n) \/ Knows(c, n) \/ Holds(c, n) \/ Issues(c) \/ Empties(c)
         PROVE  Tries'
    <3>1. /\ UNCHANGED fails
          /\ \E step \in {"checked", "changed", "cleared", "ok"} : \E read : Becomes(c, step, read)
      BY <2>10 DEF Tames, Clears, Updates, Knows, Holds, Issues, Empties, server
    <3> QED BY <2>2, <3>1
  <2> QED BY <1>9, <2>3, <2>4, <2>5, <2>6, <2>7, <2>8, <2>9, <2>10 DEF Serves
<1> QED BY <1>6, <1>7, <1>8, <1>9 DEF Steps

-----------------------------------------------------------------------------
(***************************************************************************)
(* A device shows the person its session is of                             *)
(***************************************************************************)
\* It is told so by the answer that brings the session, or by the account read again.
LEMMA HoldersKept ==
  ASSUME Shape, Numbered, Holders, Steps, Shape'
  PROVE  Holders'
<1>0. /\ minted \in Nat /\ None \notin Int
      /\ cookie \in [Devices -> Int \cup {None}] /\ me \in [Devices -> Names \cup {None}]
      /\ \A s \in sessions : s.no \in Int /\ s.no <= minted
      /\ \A c \in calls : IsCall(c)
      /\ \A c, x \in calls : c.dev = x.dev => c = x
      /\ \A d \in Devices : cookie[d] # None => cookie[d] \in Int /\ cookie[d] <= minted
  BY SessionConstants DEF Shape, TypeOK, Numbered
<1>1. ASSUME UNCHANGED <<cookie, me>>,
             \A s \in sessions' : \E t \in sessions : t.no = s.no /\ t.user = s.user,
             \A c \in calls' : \/ c \in calls
                               \/ ~(SignsIn(c) /\ c.step = "ok") /\ ~Told(c)
                               \/ /\ c.kind = "password"
                                  /\ \E x \in calls : Told(x) /\ x.cookie = c.cookie /\ x.read = c.read
      PROVE  Holders'
  BY <1>1 DEF Holders, SignsIn, Told
<1>2. ASSUME NEW d \in Devices, Sends(d) \/ Turns(d) PROVE Holders'
  <2>1. \A c \in calls' : c \in calls \/ c.step = "sent"
    BY <1>2 DEF Sends, Turns
  <2>2. UNCHANGED <<cookie, me, sessions>>
    BY <1>2 DEF Sends, Turns, server
  <2> QED BY <1>1, <2>1, <2>2 DEF Told
<1>3. CASE Passes \/ UNCHANGED vars
  BY <1>1, <1>3 DEF Passes, vars, server
<1>4. ASSUME NEW c \in calls, Brings(c) PROVE Holders'
  <2> DEFINE d == c.dev
  <2>1. PICK user, no :
          /\ me' = [me EXCEPT ![d] = user] /\ cookie' = [cookie EXCEPT ![d] = no]
          /\ \/ user = None /\ no \in {None, cookie[d]}
             \/ user = me[d] /\ no = cookie[d]
             \/ c.step = "ok" /\ SignsIn(c) /\ user = c.arg.user /\ no = c.read
             \/ c.step = "ok" /\ c.kind = "me" /\ user = c.read /\ no = cookie[d]
    BY <1>4 DEF Brings
  <2>2. d \in Devices /\ c.cookie = cookie[d] /\ UNCHANGED sessions /\ calls' \subseteq calls
    BY <1>0, <1>4 DEF IsCall, Brings, server
  <2>3. \A e \in Devices : me'[e] # None => \A s \in sessions : s.no = cookie'[e] => s.user = me'[e]
    <3> SUFFICES ASSUME NEW e \in Devices, me'[e] # None, NEW s \in sessions, s.no = cookie'[e]
                 PROVE  s.user = me'[e]
      OBVIOUS
    <3>1. CASE e = d
      BY <1>0, <1>4, <2>1, <2>2, <3>1 DEF Holders, Told
    <3>2. CASE e # d
      BY <1>0, <2>1, <2>2, <3>2 DEF Holders
    <3> QED BY <3>1, <3>2
  <2> QED BY <2>2, <2>3 DEF Holders, SignsIn, Told
<1>5. ASSUME NEW c \in calls, Serves(c) PROVE Holders'
  <2> DEFINE now(step, read) ==
               [no |-> c.no, dev |-> c.dev, kind |-> c.kind, cookie |-> c.cookie, arg |-> c.arg,
                step |-> step, read |-> read]
  <2>1. ASSUME NEW step, NEW read, Becomes(c, step, read)
        PROVE  /\ \A x \in calls' : \/ x \in calls /\ x # c
                                    \/ /\ x.step = step /\ x.arg = c.arg /\ x.kind = c.kind
                                       /\ x.cookie = c.cookie /\ x.read = read
               /\ UNCHANGED <<cookie, me>>
    BY <2>1 DEF Becomes
  <2>2. ASSUME NEW step, NEW read, Becomes(c, step, read),
               step = "ok" => ~SignsIn(c) /\ c.kind # "me",
               step \in {"checked", "changed"} => c.kind # "password",
               \A s \in sessions' : \E t \in sessions : t.no = s.no /\ t.user = s.user
        PROVE  Holders'
    BY <1>1, <2>1, <2>2 DEF SignsIn, Told
  <2>3. CASE Enters(c)
    BY <2>2, <2>3 DEF Enters, server
  <2>4. CASE Misses(c)
    BY <2>2, <2>4 DEF Misses
  <2>5. CASE Hits(c)
    BY <2>2, <2>5 DEF Hits
  <2>6. CASE SignsIn(c) /\ Opens(c)
    <3> DEFINE new == [no |-> minted + 1, user |-> c.arg.user, pw |-> c.read.pw]
    <3>1. sessions' = sessions \cup {new} /\ Becomes(c, "ok", minted + 1) /\ c.kind \notin {"me", "password"}
      BY <2>6 DEF Opens, SignsIn
    <3>2. /\ \A x \in calls' : \/ x \in calls /\ x # c
                               \/ x.arg = c.arg /\ x.kind = c.kind /\ x.read = minted + 1
          /\ UNCHANGED <<cookie, me>>
      BY <2>1, <3>1
    <3>3. new.no = minted + 1 /\ new.user = c.arg.user
      OBVIOUS
    <3> HIDE DEF new
    <3>4. \A d \in Devices : me'[d] # None => \A s \in sessions' : s.no = cookie'[d] => s.user = me'[d]
      BY <1>0, <3>1, <3>2, <3>3 DEF Holders
    <3>5. ASSUME NEW x \in calls', SignsIn(x), x.step = "ok", NEW s \in sessions', s.no = x.read
          PROVE  s.user = x.arg.user
      <4>1. CASE x \in calls
        <5>1. x.read \in Int /\ x.read <= minted
          BY <1>0, <3>5, <4>1 DEF IsCall, Numbered
        <5> QED BY <1>0, <3>1, <3>3, <3>5, <4>1, <5>1 DEF Holders
      <4>2. CASE x \notin calls
        BY <1>0, <3>1, <3>2, <3>3, <3>5, <4>2
      <4> QED BY <4>1, <4>2
    <3>6. ASSUME NEW x \in calls', Told(x), NEW s \in sessions', s.no = x.cookie
          PROVE  s.user = x.read
      <4>1. x \in calls /\ x.cookie = cookie[x.dev] /\ x.dev \in Devices
        BY <1>0, <3>1, <3>2, <3>6 DEF IsCall, Told
      <4>2. s \in sessions
        BY <1>0, <3>1, <3>3, <3>6, <4>1
      <4> QED BY <3>6, <4>1, <4>2 DEF Holders
    <3> QED BY <3>4, <3>5, <3>6 DEF Holders, SignsIn, Told
  <2>7. CASE Waves(c)
    BY <2>2, <2>7 DEF Waves, SignsIn
  <2>8. CASE Joins(c)
    BY <2>2, <2>8 DEF Joins, SignsIn
  <2>9. CASE Mints(c)
    BY <2>2, <2>9 DEF Mints, SignsIn
  <2>10. ASSUME NEW n, Tames(c, n) PROVE Holders'
    <3>1. \A s \in sessions' : \E t \in sessions : t.no = s.no /\ t.user = s.user
      BY <2>10 DEF Tames
    <3>2. PICK a : Clears(c, n, a) \/ Updates(c, n, a)
      BY <2>10 DEF Tames
    <3>3. CASE Clears(c, n, a)
      BY <2>2, <3>1, <3>3 DEF Clears, SignsIn, Issuing
    <3>4. CASE Updates(c, n, a) /\ c.kind # "password"
      BY <2>2, <3>1, <3>4 DEF Updates
    <3>5. CASE Updates(c, n, a) /\ c.kind = "password"
      <4>1. Becomes(c, "changed", n) /\ Told(c) /\ c.read = n
        BY <3>5 DEF Updates, Told
      <4>2. /\ \A x \in calls' : \/ x \in calls
                                 \/ x.step = "changed" /\ x.kind = "password" /\ x.cookie = c.cookie /\ x.read = n
            /\ UNCHANGED <<cookie, me>>
        BY <2>1, <3>5, <4>1
      <4> QED BY <1>1, <3>1, <4>1, <4>2
    <3> QED BY <3>2, <3>3, <3>4, <3>5
  <2>11. CASE Issues(c)
    BY <2>2, <2>11 DEF Issues, SignsIn, Issuing
  <2>13. CASE Empties(c)
    BY <2>2, <2>13 DEF Empties, SignsPeopleOut, SignsIn
  <2>12. ASSUME NEW s \in sessions, s.no = c.cookie, Knows(c, s.user) \/ Holds(c, s.user) PROVE Holders'
    <3>1. PICK step \in {"ok", "checked"} : Becomes(c, step, s.user) /\ UNCHANGED sessions /\ ~(SignsIn(c) /\ step = "ok")
      BY <2>12 DEF Knows, Holds, server, SignsIn
    <3>2. /\ \A x \in calls' : \/ x \in calls /\ x # c
                               \/ x.cookie = c.cookie /\ x.read = s.user /\ ~(SignsIn(x) /\ x.step = "ok")
          /\ UNCHANGED <<cookie, me>>
      BY <2>1, <3>1 DEF SignsIn
    <3>3. \A t \in sessions : t.no = c.cookie => t = s
      BY <2>12 DEF Numbered
    <3> QED BY <3>1, <3>2, <3>3 DEF Holders
  <2> QED BY <1>5, <2>3, <2>4, <2>5, <2>6, <2>7, <2>8, <2>9, <2>10, <2>11, <2>12, <2>13 DEF Serves
<1> QED BY <1>2, <1>3, <1>4, <1>5 DEF Steps

-----------------------------------------------------------------------------
(***************************************************************************)
(* Codes that are kept were shown                                          *)
(***************************************************************************)

\* What was issued by a call that is overtaken stays unseen.
LEMMA UnseenStay ==
  ASSUME issued \subseteq issued', overtaken \subseteq overtaken'
  PROVE  /\ Unseen \subseteq Unseen'
         /\ \A k, no : <<k, no>> \in issued' /\ no \in overtaken' => k \in Unseen'
<1>1. Unseen \subseteq Unseen'
  BY DEF Unseen
<1>2. ASSUME NEW k, NEW no, <<k, no>> \in issued', no \in overtaken' PROVE k \in Unseen'
  <2>1. <<k, no>>[1] = k /\ <<k, no>>[2] = no
    OBVIOUS
  <2>2. <<k, no>> \in {j \in issued' : j[2] \in overtaken'}
    BY <1>2, <2>1
  <2> QED BY <2>1, <2>2 DEF Unseen
<1> QED BY <1>1, <1>2

\* They are on their way to their page, or the call is overtaken.
LEMMA OnScreenKept ==
  ASSUME Shape, Numbered, Holders, OnScreen, Steps, Shape'
  PROVE  OnScreen'
<1>0. /\ minted \in Nat /\ None \notin Int /\ None \notin Names /\ None \notin Accounts
      /\ accounts \in [Names -> Accounts \cup {None}]
      /\ \A n \in There : n \in Names /\ accounts[n] \in Accounts
      /\ \A n \in Names : accounts[n] # None => n \in There
      /\ \A n \in There' : n \in Names /\ accounts'[n] # None
      /\ cookie \in [Devices -> Int \cup {None}] /\ me \in [Devices -> Names \cup {None}]
      /\ seen \in [Names -> SUBSET Int]
      /\ page = [d \in Devices |-> page[d]]
      /\ \A c \in calls : IsCall(c) /\ c.dev \in Devices /\ c.cookie = cookie[c.dev]
      /\ \A c, x \in calls : c.dev = x.dev => c = x
  BY SessionConstants DEF Shape, TypeOK, IsCall, There
<1> DEFINE Aimed(c) == Issuing(c) => /\ me[c.dev] # None /\ Awaits(c)
                                     /\ c.step \in {"checked", "changed"} => me[c.dev] = c.read
           Owned(c) == IssuesCodes(c) =>
             /\ me[c.dev] = c.read.user
             /\ \A n \in There : accounts[n].codes \cap c.read.codes # {} => me[c.dev] = n
             /\ \A k \in c.read.codes : <<k, c.no>> \in issued
           Carried(k) == \E c \in calls : IssuesCodes(c) /\ k \in c.read.codes
           Found == \A n \in There : \A k \in accounts[n].codes : k \in seen[n] \cup Unseen \/ Carried(k)
<1>1. OnScreen <=> (\A c \in calls : Aimed(c)) /\ (\A c \in calls : Owned(c)) /\ Found
  BY DEF OnScreen
<1>2. OnScreen' <=> (\A c \in calls' : Aimed(c)') /\ (\A c \in calls' : Owned(c)') /\ Found'
  BY DEF OnScreen, IssuesCodes, Issuing
\* Calls may come; those that issue codes stay or are overtaken, and no account gets a code.
<1>3. ASSUME UNCHANGED <<me, seen, issued>>, overtaken \subseteq overtaken',
             \A n \in There' : \/ n \in There /\ accounts'[n].codes \subseteq accounts[n].codes
                               \/ accounts'[n].codes = {},
             \A c \in calls' : IssuesCodes(c) => c \in calls \/ (c.read.codes = {} /\ me[c.dev] = c.read.user),
             \A c \in calls : IssuesCodes(c) => c \in calls' \/ c.no \in overtaken' \/ c.read.codes = {},
             \A c \in calls' : Aimed(c)'
      PROVE  OnScreen'
  <2>1. ASSUME NEW c \in calls', IssuesCodes(c)
        PROVE  Owned(c)'
    <3>1. CASE c \in calls
      BY <1>1, <1>3, <2>1, <3>1
    <3>2. CASE c.read.codes = {} /\ me[c.dev] = c.read.user
      BY <1>3, <3>2
    <3> QED BY <1>3, <2>1, <3>1, <3>2
  <2>2. ASSUME NEW n \in There', NEW k \in accounts'[n].codes
        PROVE  k \in seen'[n] \cup Unseen' \/ Carried(k)'
    <3>1. n \in There /\ k \in accounts[n].codes
      BY <1>3, <2>2
    <3>2. Unseen \subseteq Unseen' /\ \A no : <<k, no>> \in issued' /\ no \in overtaken' => k \in Unseen'
      BY <1>3, UnseenStay
    <3>3. CASE k \in seen[n] \cup Unseen
      BY <1>3, <3>2, <3>3
    <3>4. ASSUME NEW c \in calls, IssuesCodes(c), k \in c.read.codes
          PROVE  k \in Unseen' \/ Carried(k)'
      <4>1. <<k, c.no>> \in issued'
        BY <1>1, <1>3, <3>4
      <4>2. CASE c.no \in overtaken'
        BY <3>2, <4>1, <4>2
      <4>3. CASE c \in calls'
        BY <3>4, <4>3 DEF IssuesCodes
      <4> QED BY <1>3, <3>4, <4>2, <4>3
    <3> QED BY <1>1, <3>1, <3>3, <3>4
  <2>3. \A c \in calls' : Owned(c)'
    BY <2>1 DEF IssuesCodes
  <2>4. Found'
    BY <2>2
  <2> HIDE DEF Aimed, Owned, Found
  <2> QED BY <1>2, <1>3, <2>3, <2>4
<1>4. ASSUME NEW d \in Devices, Sends(d) PROVE OnScreen'
  <2>1. PICK c, p : /\ IsCall(c) /\ c.dev = d /\ c.step = "sent" /\ ~isPending(d) /\ calls' = calls \cup {c}
                    /\ IsPage(p) /\ page' = [page EXCEPT ![d] = p]
                    /\ Issuing(c) => me[d] # None /\ p.at = (IF c.kind = "enable" THEN "enrol" ELSE "access")
                    /\ UNCHANGED <<server, cookie, me, seen>>
    BY <1>4 DEF Sends
  <2>2. \A x \in calls : x.dev # d
    BY <2>1 DEF isPending
  <2>3. UNCHANGED <<accounts, issued, overtaken>>
    BY <2>1 DEF server, history
  <2>4. ASSUME NEW x \in calls' PROVE Aimed(x)'
    <3>1. CASE x \in calls
      BY <1>0, <1>1, <2>1, <2>2, <2>3, <3>1 DEF Awaits
    <3>2. CASE x = c
      BY <1>0, <2>1, <3>2 DEF Awaits
    <3> QED BY <2>1, <3>1, <3>2
  <2>5. There' = There
    BY <2>3 DEF There
  <2>6. \A x \in calls' : IssuesCodes(x) => x \in calls
    BY <2>1 DEF IssuesCodes
  <2> HIDE DEF Aimed
  <2> QED BY <1>3, <2>1, <2>3, <2>4, <2>5, <2>6
<1>5. ASSUME NEW d \in Devices, Turns(d) PROVE OnScreen'
  <2>1. PICK p : page' = [page EXCEPT ![d] = p]
    BY <1>5 DEF Turns
  <2>2. /\ UNCHANGED <<accounts, issued, cookie, me, seen, calls>> /\ overtaken \subseteq overtaken'
        /\ me[d] = None \/ \A c \in calls : c.dev = d /\ Issuing(c) => c.no \in overtaken'
    BY <1>5 DEF Turns
  <2>3. ASSUME NEW x \in calls' PROVE Aimed(x)'
    <3>1. CASE x.dev = d
      BY <1>1, <2>2, <3>1 DEF Awaits
    <3>2. CASE x.dev # d
      BY <1>0, <1>1, <2>1, <2>2, <3>2 DEF Awaits
    <3> QED BY <3>1, <3>2
  <2>4. There' = There
    BY <2>2 DEF There
  <2> HIDE DEF Aimed
  <2> QED BY <1>3, <2>2, <2>3, <2>4
<1>6. CASE Passes \/ UNCHANGED vars
  <2>1. UNCHANGED <<accounts, cookie, me, page, calls, seen, issued, overtaken>>
    BY <1>6 DEF Passes, vars, server, history
  <2>2. There' = There
    BY <2>1 DEF There
  <2>3. \A x \in calls' : Aimed(x)'
    BY <1>1, <2>1 DEF Awaits
  <2> HIDE DEF Aimed
  <2> QED BY <1>3, <2>1, <2>2, <2>3
<1>7. ASSUME NEW c \in calls, Brings(c) PROVE OnScreen'
  <2> DEFINE d == c.dev
  <2>1. /\ calls' = calls \ {c} /\ UNCHANGED <<accounts, sessions, issued, overtaken>>
        /\ seen' = IF Shows(c) THEN [seen EXCEPT ![me[d]] = seen[me[d]] \cup c.read.codes] ELSE seen
        /\ c.step # "cleared"
    BY <1>7 DEF Brings, server, history
  <2>2. PICK p : page' = [page EXCEPT ![d] = p]
    BY <1>7 DEF Brings
  <2>3. PICK user : me' = [me EXCEPT ![d] = user]
    BY <1>7 DEF Brings
  <2>4. There' = There
    BY <2>1 DEF There
  <2>5. \A x \in calls' : x \in calls /\ x.dev # d
    BY <1>0, <2>1
  <2>6. \A x \in calls' : me'[x.dev] = me[x.dev] /\ page'[x.dev] = page[x.dev]
    BY <1>0, <2>2, <2>3, <2>5
  <2>7. \A x \in calls' : Aimed(x)'
    BY <1>1, <2>1, <2>5, <2>6 DEF Awaits
  <2>8. \A x \in calls' : Owned(x)'
    BY <1>1, <2>1, <2>4, <2>5, <2>6 DEF IssuesCodes
  <2>9. Found'
    <3> SUFFICES ASSUME NEW n \in There, NEW k \in accounts[n].codes
                 PROVE  k \in seen'[n] \cup Unseen' \/ Carried(k)'
      BY <2>1, <2>4
    <3>1. \A m \in Names : seen[m] \subseteq seen'[m]
      BY <1>0, <2>1
    <3>2. Unseen' = Unseen /\ \A no : <<k, no>> \in issued' /\ no \in overtaken' => k \in Unseen'
      BY <2>1, UnseenStay DEF Unseen
    <3>3. CASE k \in seen[n] \cup Unseen
      BY <1>0, <3>1, <3>2, <3>3
    <3>4. ASSUME NEW x \in calls, x # c, IssuesCodes(x), k \in x.read.codes PROVE Carried(k)'
      BY <2>1, <3>4 DEF IssuesCodes
    <3>5. CASE IssuesCodes(c) /\ k \in c.read.codes
      <4>1. me[d] = n /\ Awaits(c) /\ <<k, c.no>> \in issued'
        BY <1>1, <2>1, <3>5 DEF IssuesCodes, Issuing
      <4>2. CASE c.no \in overtaken
        BY <2>1, <3>2, <4>1, <4>2
      <4>3. CASE c.no \notin overtaken
        <5>1. Shows(c)
          BY <2>1, <3>5, <4>1, <4>3 DEF Shows, IssuesCodes, Awaits
        <5> QED BY <1>0, <2>1, <3>5, <4>1, <5>1
      <4> QED BY <4>2, <4>3
    <3> QED BY <1>1, <3>3, <3>4, <3>5
  <2> HIDE DEF Aimed, Owned, Found
  <2> QED BY <1>2, <2>7, <2>8, <2>9
<1>8. ASSUME NEW c \in calls, Serves(c) PROVE OnScreen'
  <2>1. ASSUME NEW step, NEW read, Becomes(c, step, read), overtaken \subseteq overtaken',
               Issuing(c) /\ step \in {"checked", "changed"} => me[c.dev] = read
        PROVE  /\ calls \ {c} \subseteq calls'
               /\ \A x \in calls' : \/ x \in calls /\ x # c
                                    \/ /\ x.step = step /\ x.kind = c.kind /\ x.dev = c.dev
                                       /\ x.read = read /\ x.no = c.no
               /\ \E x \in calls' : x.step = step /\ x.kind = c.kind /\ x.read = read
               /\ \A x \in calls' : Aimed(x)'
               /\ UNCHANGED <<me, seen>>
    <3> DEFINE now == [no |-> c.no, dev |-> c.dev, kind |-> c.kind, cookie |-> c.cookie,
                       arg |-> c.arg, step |-> step, read |-> read]
    <3>1. calls' = (calls \ {c}) \cup {now} /\ UNCHANGED <<me, page, seen>>
      BY <2>1 DEF Becomes
    <3>2. now.step = step /\ now.kind = c.kind /\ now.dev = c.dev /\ now.read = read /\ now.no = c.no
      OBVIOUS
    <3> HIDE DEF now
    <3>3. \A x \in calls' : Aimed(x)'
      BY <1>1, <2>1, <3>1, <3>2 DEF Awaits, Issuing
    <3> QED BY <3>1, <3>2, <3>3
  <2>2. ASSUME NEW step, NEW read, Becomes(c, step, read), UNCHANGED issued, overtaken \subseteq overtaken',
               Issuing(c) /\ step \in {"checked", "changed"} => me[c.dev] = read,
               Issuing(c) /\ step \in {"cleared", "ok"} => read.codes = {} /\ me[c.dev] = read.user,
               IssuesCodes(c) => c.no \in overtaken',
               \A n \in There' : \/ n \in There /\ accounts'[n].codes \subseteq accounts[n].codes
                                 \/ accounts'[n].codes = {}
        PROVE  OnScreen'
    <3>1. /\ calls \ {c} \subseteq calls' /\ UNCHANGED <<me, seen>>
          /\ \A x \in calls' : Aimed(x)'
          /\ \A x \in calls' : x \in calls \/ (x.step = step /\ x.kind = c.kind /\ x.dev = c.dev /\ x.read = read)
      BY <2>1, <2>2
    <3>2. \A x \in calls' : IssuesCodes(x) => x \in calls \/ (x.read.codes = {} /\ me[x.dev] = x.read.user)
      BY <2>2, <3>1 DEF IssuesCodes, Issuing
    <3>3. \A x \in calls : IssuesCodes(x) => x \in calls' \/ x.no \in overtaken'
      BY <2>2, <3>1
    <3> HIDE DEF Aimed
    <3> QED BY <1>3, <2>2, <3>1, <3>2, <3>3
  <2>3. ASSUME UNCHANGED accounts
        PROVE  \A n \in There' : n \in There /\ accounts'[n].codes \subseteq accounts[n].codes
    BY <2>3 DEF There
  <2>4. ASSUME NEW m, NEW a, accounts' = [accounts EXCEPT ![m] = a],
               a.codes = {} \/ (m \in There /\ a.codes \subseteq accounts[m].codes)
        PROVE  \A n \in There' : \/ n \in There /\ accounts'[n].codes \subseteq accounts[n].codes
                                 \/ accounts'[n].codes = {}
    <3> SUFFICES ASSUME NEW n \in There'
                 PROVE  \/ n \in There /\ accounts'[n].codes \subseteq accounts[n].codes
                        \/ accounts'[n].codes = {}
      OBVIOUS
    <3>1. CASE n = m
      BY <1>0, <2>4, <3>1
    <3>2. CASE n # m
      <4>1. accounts'[n] = accounts[n]
        BY <1>0, <2>4, <3>2
      <4> QED BY <1>0, <4>1
    <3> QED BY <3>1, <3>2
  <2>5. \A s \in sessions : s.no = c.cookie /\ Issuing(c) => me[c.dev] = s.user
    BY <1>0, <1>1 DEF Holders
  <2> HIDE DEF Aimed, Owned, Found, Carried
  <2>6. CASE c.step = "sent" /\ Enters(c)
    <3>1. ~Issuing(c) /\ ~IssuesCodes(c)
      BY <2>6 DEF Enters, Issuing, IssuesCodes
    <3> QED BY <2>2, <2>3, <2>6, <3>1 DEF Enters, server, history
  <2>7. CASE c.kind \in {"login", "recovery"} /\ Misses(c)
    <3>1. ~Issuing(c) /\ ~IssuesCodes(c)
      BY <2>7 DEF Issuing, IssuesCodes
    <3> QED BY <2>2, <2>3, <2>7, <3>1 DEF Misses, history
  <2>8. CASE c.kind \in {"login", "recovery"} /\ Hits(c)
    <3> DEFINE n == c.arg.user
               a == [accounts[n] EXCEPT !.codes = accounts[n].codes \ {c.arg.code}]
               r == [pw |-> accounts[n].pw, once |-> c.arg.code \in accounts[n].codes]
    <3>1. n \in There /\ accounts' = [accounts EXCEPT ![n] = a] /\ Becomes(c, "verified", r) /\ UNCHANGED history
      BY <2>8 DEF Hits
    <3>2. a.codes \subseteq accounts[n].codes
      BY <1>0, <3>1 DEF Accounts
    <3>3. ~Issuing(c) /\ ~IssuesCodes(c)
      BY <2>8 DEF Issuing, IssuesCodes
    <3> HIDE DEF a, r, n
    <3> QED BY <2>2, <2>4, <3>1, <3>2, <3>3 DEF history
  <2>9. CASE SignsIn(c) /\ Opens(c)
    <3>1. ~Issuing(c) /\ ~IssuesCodes(c)
      BY <2>9 DEF Issuing, IssuesCodes, SignsIn
    <3> QED BY <2>2, <2>3, <2>9, <3>1 DEF Opens
  <2>10. CASE Waves(c)
    <3>1. PICK step \in {"refused", "unknown", "counted", "challenge", "failed", "ok"} :
            (\E read : Becomes(c, step, read)) /\ (step = "ok" => c.kind \in {"revoke", "logout"})
      BY <2>10 DEF Waves
    <3>2. UNCHANGED <<accounts, issued>> /\ overtaken \subseteq overtaken'
          /\ (c.step = "cleared" => c.no \in overtaken')
      BY <2>10 DEF Waves
    <3>3. IssuesCodes(c) => c.step = "cleared"
      BY <2>10 DEF IssuesCodes, Waves
    <3> QED BY <2>2, <2>3, <3>1, <3>2, <3>3 DEF Issuing
  <2>11. CASE c.step \in {"sent", "counted"} /\ Joins(c)
    <3>1. PICK a : accounts' = [accounts EXCEPT ![c.arg.user] = a] /\ a.codes = {}
      <4>1. PICK admin \in BOOLEAN : accounts' = [accounts EXCEPT ![c.arg.user] = Account(admin, c.arg.pw)]
        BY <2>11 DEF Joins
      <4>2. Account(admin, c.arg.pw).codes = {}
        BY DEF Account
      <4> QED BY <4>1, <4>2
    <3>2. (\E step, read : Becomes(c, step, read)) /\ ~Issuing(c) /\ ~IssuesCodes(c) /\ UNCHANGED history
      BY <2>11 DEF Joins, Issuing, IssuesCodes
    <3> QED BY <2>2, <2>4, <3>1, <3>2 DEF history
  <2>12. CASE Mints(c)
    <3>1. ~Issuing(c) /\ ~IssuesCodes(c)
      BY <2>12 DEF Mints, Issuing, IssuesCodes
    <3> QED BY <2>2, <2>3, <2>12, <3>1 DEF Mints, history
  <2>13. ASSUME c.step \in {"sent", "checked", "changed"}, NEW n \in There, Tames(c, n) PROVE OnScreen'
    <3>1. PICK a : /\ accounts' = [accounts EXCEPT ![n] = a] /\ a.codes \subseteq accounts[n].codes
                   /\ Clears(c, n, a) \/ Updates(c, n, a)
      BY <2>13 DEF Tames
    <3>2. UNCHANGED issued /\ ~IssuesCodes(c)
      BY <2>13 DEF Tames, IssuesCodes
    <3>3. \A m \in There' : \/ m \in There /\ accounts'[m].codes \subseteq accounts[m].codes
                            \/ accounts'[m].codes = {}
      BY <2>4, <3>1
    <3>4. CASE Clears(c, n, a)
      <4>1. Issuing(c) => me[c.dev] = n
        <5>1. CASE c.step = "sent"
          BY <2>5, <3>4, <5>1 DEF Clears
        <5>2. CASE c.step \in {"checked", "changed"}
          BY <1>1, <3>4, <5>2 DEF Clears, Aimed
        <5> QED BY <2>13, <5>1, <5>2
      <4>2. UNCHANGED overtaken
        BY <3>4 DEF Clears
      <4>3. CASE c.kind \in {"enable", "disable"} /\ Becomes(c, "changed", n)
        BY <2>2, <3>2, <3>3, <4>1, <4>2, <4>3
      <4>4. CASE Issuing(c) /\ Becomes(c, "cleared", [user |-> n, codes |-> {}])
        <5>1. [user |-> n, codes |-> {}].user = n /\ [user |-> n, codes |-> {}].codes = {}
          OBVIOUS
        <5> QED BY <2>2, <3>2, <3>3, <4>1, <4>2, <4>4, <5>1
      <4>5. CASE c.kind \in {"disable", "bar"} /\ Becomes(c, "ok", None)
        BY <2>2, <3>2, <3>3, <4>2, <4>5 DEF Issuing
      <4> QED BY <3>4, <4>3, <4>4, <4>5 DEF Clears
    <3>5. CASE Updates(c, n, a)
      <4>1. Becomes(c, "changed", n) /\ overtaken \subseteq overtaken' /\ ~Issuing(c)
        BY <3>5 DEF Updates, Issuing
      <4> QED BY <2>2, <3>2, <3>3, <4>1
    <3> QED BY <3>1, <3>4, <3>5
  <2>14. ASSUME c.step = "sent", NEW s \in sessions, s.no = c.cookie, Knows(c, s.user) \/ Holds(c, s.user)
         PROVE  OnScreen'
    <3>1. PICK step : /\ Becomes(c, step, s.user) /\ UNCHANGED server
                      /\ step = "checked" \/ (step = "ok" /\ ~Issuing(c))
      BY <2>14 DEF Knows, Holds, Issuing
    <3>2. ~IssuesCodes(c) /\ UNCHANGED <<accounts, issued, overtaken>>
      BY <2>14, <3>1 DEF IssuesCodes, server, history
    <3> QED BY <2>2, <2>3, <2>5, <2>14, <3>1, <3>2
  <2>15. CASE Empties(c)
    <3>1. ~Issuing(c) /\ ~IssuesCodes(c)
      BY <2>15 DEF Empties, SignsPeopleOut, Issuing, IssuesCodes
    <3> QED BY <2>2, <2>3, <2>15, <3>1 DEF Empties
  <2>16. CASE Issues(c)
    <3> DEFINE n == c.read.user
               k == minted + 1
               a == [accounts[n] EXCEPT !.codes = accounts[n].codes \cup {k}]
               r == [user |-> n, codes |-> c.read.codes \cup {k}]
    <3>1. /\ Issuing(c) /\ c.step = "cleared" /\ accounts' = [accounts EXCEPT ![n] = a]
          /\ issued' = issued \cup {<<k, c.no>>} /\ UNCHANGED overtaken
      BY <2>16 DEF Issues
    <3>2. PICK step \in {"cleared", "ok"} : Becomes(c, step, r)
      BY <2>16 DEF Issues
    <3>3. /\ n \in There /\ IssuesCodes(c) /\ c.read.codes \subseteq Int
      BY <1>0, <3>1 DEF IsCall, IssuesCodes, Issuing, IsIssue
    <3>4. a.codes = accounts[n].codes \cup {k} /\ r.user = n /\ r.codes = c.read.codes \cup {k}
      BY <1>0, <3>3 DEF Accounts
    <3>5. \A m \in There : \A j \in accounts[m].codes : j \in Int /\ j <= minted
      <4>1. \A m \in There : \A j \in accounts[m].codes : j \in Int
        BY <1>0 DEF Accounts
      <4> QED BY <4>1 DEF Numbered
    <3>6. \A x \in calls : IssuesCodes(x) => \A j \in x.read.codes : j \in Int /\ j <= minted
      BY <1>0 DEF Numbered, IsCall, IsIssue
    <3>7. k \in Int /\ k > minted
      BY <1>0
    <3>8. /\ me[c.dev] = n
          /\ \A m \in There : accounts[m].codes \cap c.read.codes # {} => m = n
          /\ \A j \in c.read.codes : <<j, c.no>> \in issued
      BY <1>1, <3>3 DEF Owned
    <3> HIDE DEF a, r, k, n
    <3>9. /\ calls \ {c} \subseteq calls'
          /\ \A x \in calls' : \/ x \in calls /\ x # c
                               \/ /\ x.step = step /\ x.kind = c.kind /\ x.dev = c.dev
                                  /\ x.read = r /\ x.no = c.no
          /\ \E x \in calls' : x.step = step /\ x.kind = c.kind /\ x.read = r
          /\ \A x \in calls' : Aimed(x)'
          /\ UNCHANGED <<me, seen>>
      BY <2>1, <3>1, <3>2
    <3>10. \A m \in There' : m \in There /\ accounts'[m].codes = accounts[m].codes \cup (IF m = n THEN {k} ELSE {})
      BY <1>0, <3>1, <3>3, <3>4
    <3>11. ASSUME NEW x \in calls', IssuesCodes(x) PROVE Owned(x)'
      <4>1. CASE x \in calls
        <5>1. k \notin x.read.codes
          BY <1>0, <3>6, <3>7, <3>11, <4>1
        <5>2. /\ me[x.dev] = x.read.user
              /\ \A m \in There : accounts[m].codes \cap x.read.codes # {} => me[x.dev] = m
              /\ \A j \in x.read.codes : <<j, x.no>> \in issued
          BY <1>1, <3>11, <4>1 DEF Owned
        <5>3. \A m \in There' : accounts'[m].codes \cap x.read.codes # {} => me[x.dev] = m
          BY <3>10, <5>1, <5>2
        <5> QED BY <3>1, <3>9, <5>2, <5>3 DEF Owned
      <4>2. CASE x.read = r /\ x.dev = c.dev /\ x.no = c.no
        <5>1. me'[x.dev] = x.read.user
          BY <3>4, <3>8, <3>9, <4>2
        <5>2. ASSUME NEW m \in There', accounts'[m].codes \cap x.read.codes # {} PROVE me'[x.dev] = m
          <6>1. CASE m = n
            BY <3>8, <3>9, <4>2, <6>1
          <6>2. CASE m # n
            <7>1. accounts'[m].codes = accounts[m].codes /\ m \in There
              BY <3>10, <6>2
            <7>2. k \notin accounts[m].codes
              BY <1>0, <3>5, <3>7, <7>1
            <7>3. accounts[m].codes \cap c.read.codes # {}
              BY <3>4, <4>2, <5>2, <7>1, <7>2
            <7> QED BY <3>8, <6>2, <7>1, <7>3
          <6> QED BY <6>1, <6>2
        <5>3. \A j \in x.read.codes : <<j, x.no>> \in issued'
          BY <3>1, <3>4, <3>8, <4>2
        <5> QED BY <5>1, <5>2, <5>3 DEF Owned
      <4> QED BY <3>9, <4>1, <4>2
    <3>12. ASSUME NEW m \in There', NEW j \in accounts'[m].codes
           PROVE  j \in seen'[m] \cup Unseen' \/ Carried(j)'
      <4>1. Unseen \subseteq Unseen'
        BY <3>1, UnseenStay
      <4>2. j \in c.read.codes \cup {k} => Carried(j)'
        BY <3>1, <3>2, <3>4, <3>9 DEF Carried, IssuesCodes, Issuing
      <4>3. ASSUME j # k PROVE j \in seen[m] \cup Unseen \/ \E x \in calls : IssuesCodes(x) /\ j \in x.read.codes
        BY <1>1, <3>10, <4>3 DEF Found, Carried
      <4>4. ASSUME NEW x \in calls, x # c, IssuesCodes(x), j \in x.read.codes PROVE Carried(j)'
        BY <3>9, <4>4 DEF Carried, IssuesCodes
      <4> QED BY <3>9, <4>1, <4>2, <4>3, <4>4
    <3>13. \A x \in calls' : Owned(x)'
      BY <3>11 DEF IssuesCodes, Owned
    <3>14. Found'
      BY <3>12 DEF Found
    <3> QED BY <1>2, <3>9, <3>13, <3>14
  <2> QED BY <1>8, <2>6, <2>7, <2>8, <2>9, <2>10, <2>11, <2>12, <2>13, <2>14, <2>15, <2>16 DEF Serves
<1> QED BY <1>4, <1>5, <1>6, <1>7, <1>8 DEF Steps

-----------------------------------------------------------------------------
(***************************************************************************)
(* Nobody stays in with an old password                                    *)
(***************************************************************************)

\* What is owed is of a call and a session already made.
LEMMA CountedKept ==
  ASSUME Shape, Numbered, Counted, Steps, Shape'
  PROVE  Counted'
<1>0. /\ minted \in Nat /\ made \in Nat /\ minted' \in Nat /\ made' \in Nat
      /\ \A c \in calls : c.no \in Nat /\ c.no <= made
      /\ \A s \in sessions : s.no \in Int /\ s.no <= minted
      /\ \A o \in owed : o[1] \in Int /\ o[2] \in Nat /\ o[1] <= minted /\ o[2] <= made
  BY DEF Shape, TypeOK, IsCall, Numbered, Counted
<1>1. ASSUME made' = made, minted' >= minted, \A c \in calls' : \E x \in calls : x.no = c.no,
             \A c, x \in calls' : c.no = x.no => c = x,
             \A o \in owed' : \/ o \in owed
                              \/ o[1] \in Int /\ o[1] <= minted' /\ \E c \in calls : o[2] = c.no
      PROVE  Counted'
  <2>1. \A c \in calls' : c.no <= made'
    BY <1>0, <1>1
  <2>2. ASSUME NEW o \in owed' PROVE o[1] <= minted' /\ o[2] <= made'
    BY <1>0, <1>1
  <2> QED BY <1>1, <2>1, <2>2 DEF Counted
<1>2. ASSUME NEW d \in Devices, Sends(d) PROVE Counted'
  <2>1. PICK c : calls' = calls \cup {c} /\ c.no = made + 1
    BY <1>2 DEF Sends
  <2>2. made' = made + 1 /\ UNCHANGED <<owed, minted>>
    BY <1>2 DEF Sends, server, history
  <2>3. \A x \in calls' : x.no <= made'
    BY <1>0, <2>1, <2>2
  <2>4. \A x, y \in calls' : x.no = y.no => x = y
    BY <1>0, <2>1 DEF Counted
  <2>5. \A o \in owed' : o[1] <= minted' /\ o[2] <= made'
    BY <1>0, <2>2
  <2> QED BY <2>3, <2>4, <2>5 DEF Counted
<1>3. ASSUME NEW d \in Devices, Turns(d) PROVE Counted'
  BY <1>0, <1>1, <1>3 DEF Turns, Counted
<1>4. CASE Passes \/ UNCHANGED vars
  BY <1>0, <1>1, <1>4 DEF Passes, vars, server, history, Counted
<1>5. ASSUME NEW c \in calls, Brings(c) PROVE Counted'
  BY <1>0, <1>1, <1>5 DEF Brings, server, history, Counted
<1>6. ASSUME NEW c \in calls, Serves(c) PROVE Counted'
  <2>1. ASSUME NEW step, NEW read, Becomes(c, step, read), minted' >= minted,
               \A o \in owed' : \/ o \in owed
                                \/ o[1] \in Int /\ o[1] <= minted' /\ o[2] = c.no
        PROVE  Counted'
    <3> DEFINE now == [no |-> c.no, dev |-> c.dev, kind |-> c.kind, cookie |-> c.cookie,
                       arg |-> c.arg, step |-> step, read |-> read]
    <3>1. calls' = (calls \ {c}) \cup {now} /\ made' = made /\ now.no = c.no
      BY <2>1 DEF Becomes
    <3> HIDE DEF now
    <3>2. \A x, y \in calls' : x.no = y.no => x = y
      BY <3>1 DEF Counted
    <3> QED BY <1>1, <2>1, <3>1, <3>2
  <2>2. CASE Enters(c) \/ Misses(c) \/ Hits(c) \/ Joins(c) \/ \E n : Knows(c, n) \/ Holds(c, n)
    <3>1. (\E step, read : Becomes(c, step, read)) /\ UNCHANGED <<minted, owed>>
      BY <2>2 DEF Enters, Misses, Hits, Joins, Knows, Holds, server, history
    <3> QED BY <1>0, <2>1, <3>1
  <2>3. CASE Opens(c)
    <3>1. \A o \in owed' : o \in owed \/ o = <<minted + 1, c.no>>
      BY <2>3 DEF Opens
    <3>2. Becomes(c, "ok", minted + 1) /\ minted' = minted + 1
      BY <2>3 DEF Opens
    <3> QED BY <1>0, <2>1, <3>1, <3>2
  <2>4. CASE Waves(c) \/ Empties(c) \/ Mints(c) \/ Issues(c)
    <3>1. (\E step, read : Becomes(c, step, read)) /\ minted' \in {minted, minted + 1} /\ owed' \subseteq owed
      BY <2>4 DEF Waves, Empties, Mints, Issues, history
    <3> QED BY <1>0, <2>1, <3>1
  <2>5. ASSUME NEW n \in There, Tames(c, n) PROVE Counted'
    <3>1. PICK a : Clears(c, n, a) \/ Updates(c, n, a)
      BY <2>5 DEF Tames
    <3>2. (\E step, read : Becomes(c, step, read)) /\ minted' = minted
      BY <2>5, <3>1 DEF Clears, Updates, Tames
    <3>3. \A o \in owed' : o \in owed \/ \E s \in sessions : o = <<s.no, c.no>>
      BY <3>1 DEF Clears, Updates, DeleteOtherUserSessions
    <3> QED BY <1>0, <2>1, <3>2, <3>3
  <2> QED BY <1>6, <2>2, <2>3, <2>4, <2>5 DEF Serves
<1> QED BY <1>2, <1>3, <1>4, <1>5, <1>6 DEF Steps

\* Whoever is still in with what was changed is owed to the change.
LEMMA StillRightKept ==
  ASSUME Shape, Numbered, Holders, Counted, StillRight, Steps, Shape'
  PROVE  StillRight'
<1> DEFINE Current(s) == s.pw = accounts[s.user].pw /\ ~accounts[s.user].disabled
           Checks(c) == c.step = "verified" =>
                          \/ c.read.pw = accounts[c.arg.user].pw /\ ~accounts[c.arg.user].disabled
                          \/ c.no \in overtaken
           Owes(c, o) == /\ c.step \notin {"sent", "checked"}
                         /\ SignsPeopleOut(c) =>
                              \A s \in sessions : s.no = o[1] => s.user = c.read /\ s.no # Kept(c)
<1>0. /\ accounts \in [Names -> Accounts \cup {None}] /\ None \notin Accounts /\ None \notin Int
      /\ \A n \in There : n \in Names /\ accounts[n] # None /\ accounts[n] \in Accounts
      /\ \A s \in sessions : s.user \in There /\ s.no \in Int /\ s.no <= minted
      /\ \A s \in sessions' : s.user \in There' /\ s.no \in Int
      /\ \A c \in calls : IsCall(c) /\ c.no \in Nat /\ c.no <= made
      /\ \A c \in calls : c.step = "verified" => c.arg.user \in There
      /\ minted \in Nat /\ made \in Nat
      /\ \A o \in owed : o[2] \in Nat /\ o[2] <= made
  BY SessionConstants DEF Shape, TypeOK, There, IsCall, Numbered, Counted
<1>1. StillRight <=> /\ \A s \in sessions : Current(s) \/ \E o \in owed : o[1] = s.no
                     /\ \A c \in calls : Checks(c)
                     /\ \A c \in calls : \A o \in owed : o[2] = c.no => Owes(c, o)
  BY DEF StillRight, OthersAreOut, DeleteOtherUserSessions
<1>2. StillRight' <=> /\ \A s \in sessions' : Current(s)' \/ \E o \in owed' : o[1] = s.no
                      /\ \A c \in calls' : Checks(c)'
                      /\ \A c \in calls' : \A o \in owed' : o[2] = c.no => Owes(c, o)'
  BY DEF StillRight, OthersAreOut, DeleteOtherUserSessions, SignsPeopleOut, Kept
\* No password is changed, nobody is disabled, and nothing more is owed.
<1>3. ASSUME \A n \in There : /\ accounts'[n].pw = accounts[n].pw
                              /\ accounts'[n].disabled => accounts[n].disabled,
             sessions' \subseteq sessions, owed' = owed, overtaken \subseteq overtaken',
             \A c \in calls' :
               \/ c \in calls
               \/ /\ Checks(c)' /\ ~SignsPeopleOut(c)
                  /\ c.step \notin {"sent", "checked"} \/ \A o \in owed : o[2] # c.no
      PROVE  StillRight'
  <2>1. \A s \in sessions' : Current(s)' \/ \E o \in owed' : o[1] = s.no
    BY <1>0, <1>1, <1>3
  <2>2. \A c \in calls' : Checks(c)'
    BY <1>0, <1>1, <1>3
  <2>3. ASSUME NEW c \in calls', NEW o \in owed', o[2] = c.no PROVE Owes(c, o)'
    BY <1>1, <1>3, <2>3 DEF SignsPeopleOut, Kept
  <2> HIDE DEF Current, Checks, Owes
  <2> QED BY <1>2, <2>1, <2>2, <2>3
<1>4. ASSUME NEW d \in Devices, Sends(d) PROVE StillRight'
  <2>1. UNCHANGED <<accounts, sessions, owed, overtaken>>
    BY <1>4 DEF Sends, server, history
  <2>2. PICK c : calls' = calls \cup {c} /\ c.step = "sent" /\ c.no = made + 1
    BY <1>4 DEF Sends
  <2>3. \A o \in owed : o[2] # c.no
    BY <1>0, <2>2
  <2> QED BY <1>3, <2>1, <2>2, <2>3 DEF SignsPeopleOut
<1>5. ASSUME NEW d \in Devices, Turns(d) PROVE StillRight'
  BY <1>3, <1>5 DEF Turns
<1>6. CASE Passes \/ UNCHANGED vars
  BY <1>3, <1>6 DEF Passes, vars, server, history
<1>7. ASSUME NEW c \in calls, Brings(c) PROVE StillRight'
  BY <1>3, <1>7 DEF Brings, server, history
<1>8. ASSUME NEW c \in calls, Serves(c) PROVE StillRight'
  <2>1. ASSUME NEW step, NEW read, Becomes(c, step, read)
        PROVE  \A x \in calls' : \/ x \in calls /\ x # c
                                 \/ /\ x.step = step /\ x.arg = c.arg /\ x.read = read /\ x.no = c.no
                                    /\ x.kind = c.kind /\ x.cookie = c.cookie
    BY <2>1 DEF Becomes
  <2>2. ASSUME NEW step, NEW read, Becomes(c, step, read), step \notin {"verified", "checked", "sent"},
               ~(step = "changed" /\ c.kind \in {"password", "reset", "bar"}),
               \A n \in There : /\ accounts'[n].pw = accounts[n].pw
                                /\ accounts'[n].disabled => accounts[n].disabled,
               sessions' \subseteq sessions, owed' = owed, overtaken \subseteq overtaken'
        PROVE  StillRight'
    <3>1. \A x \in calls' : x \in calls \/ (x.step = step /\ x.kind = c.kind)
      BY <2>1, <2>2
    <3>2. \A x \in calls' : \/ x \in calls
                            \/ /\ Checks(x)' /\ ~SignsPeopleOut(x)
                               /\ x.step \notin {"sent", "checked"} \/ \A o \in owed : o[2] # x.no
      BY <2>2, <3>1 DEF SignsPeopleOut
    <3> HIDE DEF Checks
    <3> QED BY <1>3, <2>2, <3>2
  <2>3. CASE Enters(c) \/ Misses(c) \/ Mints(c) \/ Waves(c) \/ \E n : Knows(c, n)
    <3>1. /\ UNCHANGED <<accounts, owed>> /\ sessions' \subseteq sessions /\ overtaken \subseteq overtaken'
          /\ \E step, read : Becomes(c, step, read) /\ step \notin {"verified", "checked", "changed", "sent"}
      BY <2>3 DEF Enters, Misses, Mints, Waves, Knows, server, history
    <3> HIDE DEF Current, Checks, Owes
    <3> QED BY <2>2, <3>1
  <2>4. CASE Hits(c)
    <3> DEFINE n == c.arg.user
               a == [accounts[n] EXCEPT !.codes = accounts[n].codes \ {c.arg.code}]
               r == [pw |-> accounts[n].pw, once |-> c.arg.code \in accounts[n].codes]
    <3>1. /\ n \in There /\ accounts' = [accounts EXCEPT ![n] = a] /\ Becomes(c, "verified", r)
          /\ ~accounts[n].disabled /\ UNCHANGED <<sessions, owed, overtaken>>
      BY <2>4 DEF Hits, history
    <3>2. a.pw = accounts[n].pw /\ a.disabled = accounts[n].disabled /\ r.pw = accounts[n].pw
      BY <1>0, <3>1 DEF Accounts
    <3> HIDE DEF a, r
    <3>3. \A x \in calls' : x \in calls \/ (x.arg = c.arg /\ x.read = r /\ x.step = "verified")
      BY <2>1, <3>1
    <3>4. \A m \in There : accounts'[m].pw = accounts[m].pw /\ accounts'[m].disabled = accounts[m].disabled
      BY <1>0, <3>1, <3>2
    <3>5. \A x \in calls' : x \in calls \/ (Checks(x)' /\ ~SignsPeopleOut(x) /\ x.step \notin {"sent", "checked"})
      BY <3>1, <3>2, <3>3, <3>4 DEF SignsPeopleOut
    <3> HIDE DEF Checks
    <3> QED BY <1>3, <3>1, <3>4, <3>5
  <2>5. CASE SignsIn(c) /\ Opens(c)
    <3> DEFINE new == [no |-> minted + 1, user |-> c.arg.user, pw |-> c.read.pw]
    <3>1. /\ c.step = "verified" /\ sessions' = sessions \cup {new} /\ UNCHANGED <<accounts, overtaken>>
          /\ owed' = IF c.no \in overtaken THEN owed \cup {<<minted + 1, c.no>>} ELSE owed
          /\ Becomes(c, "ok", minted + 1)
      BY <2>5 DEF Opens
    <3>2. new.user = c.arg.user /\ new.pw = c.read.pw /\ new.no = minted + 1
      OBVIOUS
    <3>3. \A x \in calls' : \/ x \in calls /\ x # c /\ x.no # c.no
                            \/ x.step = "ok"
      BY <2>1, <3>1 DEF Counted
    <3> HIDE DEF new
    <3>4. \A s \in sessions' : Current(s)' \/ \E o \in owed' : o[1] = s.no
      <4>1. ASSUME NEW s \in sessions PROVE Current(s)' \/ \E o \in owed' : o[1] = s.no
        BY <1>1, <3>1
      <4>2. CASE c.no \in overtaken
        <5>1. <<minted + 1, c.no>> \in owed' /\ <<minted + 1, c.no>>[1] = new.no
          BY <3>1, <3>2, <4>2
        <5> QED BY <3>1, <4>1, <5>1
      <4>3. CASE c.no \notin overtaken
        BY <1>1, <3>1, <3>2, <4>1, <4>3
      <4> QED BY <4>2, <4>3
    <3>5. \A x \in calls' : Checks(x)'
      BY <1>1, <3>1, <3>3
    <3>6. ASSUME NEW x \in calls', NEW o \in owed', o[2] = x.no PROVE Owes(x, o)'
      <4>1. CASE x \in calls /\ x # c /\ x.no # c.no
        <5>1. o \in owed
          BY <3>1, <3>6, <4>1
        <5>2. o[1] \in Int /\ o[1] <= minted
          BY <5>1 DEF Counted, Shape, TypeOK
        <5>3. Owes(x, o)
          BY <1>1, <3>6, <4>1, <5>1
        <5>4. \A s \in sessions' : s.no = o[1] => s \in sessions
          BY <1>0, <3>1, <3>2, <5>2
        <5> QED BY <5>3, <5>4 DEF SignsPeopleOut, Kept
      <4>2. CASE x.step = "ok"
        BY <4>2 DEF SignsPeopleOut
      <4> QED BY <3>3, <4>1, <4>2
    <3> HIDE DEF Current, Checks, Owes
    <3> QED BY <1>2, <3>4, <3>5, <3>6
  <2>6. CASE Joins(c)
    <3> DEFINE n == c.arg.user
    <3>1. PICK admin \in BOOLEAN : accounts' = [accounts EXCEPT ![n] = Account(admin, c.arg.pw)]
      BY <2>6 DEF Joins
    <3>2. n \in Names /\ accounts[n] = None /\ UNCHANGED <<sessions, owed, overtaken>>
      BY <1>0, <2>6 DEF Joins, IsCall, history
    <3>3. Account(admin, c.arg.pw).pw = c.arg.pw /\ ~Account(admin, c.arg.pw).disabled
      BY DEF Account
    <3>4. \A m \in There : accounts'[m].pw = accounts[m].pw /\ accounts'[m].disabled = accounts[m].disabled
      BY <1>0, <3>1, <3>2
    <3>5. \A x \in calls' : \/ x \in calls
                            \/ x.arg = c.arg /\ x.read.pw = c.arg.pw /\ x.step = "verified"
                            \/ x.step = "ok"
      <4>1. CASE c.kind = "setup"
        <5>1. Becomes(c, "verified", [pw |-> c.arg.pw, once |-> FALSE])
          BY <2>6, <4>1 DEF Joins
        <5> QED BY <2>1, <5>1
      <4>2. CASE c.kind = "create"
        <5>1. Becomes(c, "ok", None)
          BY <2>6, <4>2 DEF Joins
        <5> QED BY <2>1, <5>1
      <4> QED BY <2>6, <4>1, <4>2 DEF Joins
    <3>6. accounts'[n].pw = c.arg.pw /\ ~accounts'[n].disabled
      BY <1>0, <3>1, <3>2, <3>3
    <3>7. \A x \in calls' : x \in calls \/ (Checks(x)' /\ ~SignsPeopleOut(x) /\ x.step \notin {"sent", "checked"})
      BY <3>5, <3>6 DEF SignsPeopleOut
    <3> HIDE DEF Checks
    <3> QED BY <1>3, <3>2, <3>4, <3>7
  <2>7. ASSUME NEW n, c.step = "sent", Holds(c, n) PROVE StillRight'
    <3>1. UNCHANGED <<accounts, sessions, owed, overtaken>> /\ Becomes(c, "checked", n)
      BY <2>7 DEF Holds, server, history
    <3>2. \A o \in owed : o[2] # c.no
      BY <1>1, <2>7
    <3>3. \A x \in calls' : x \in calls \/ (x.step = "checked" /\ x.no = c.no)
      BY <2>1, <3>1
    <3>4. \A x \in calls' : x \in calls \/ (Checks(x)' /\ ~SignsPeopleOut(x) /\ \A o \in owed : o[2] # x.no)
      BY <3>2, <3>3 DEF SignsPeopleOut
    <3> HIDE DEF Checks
    <3> QED BY <1>3, <3>1, <3>4
  <2>8. CASE Issues(c)
    <3> DEFINE n == c.read.user
               a == [accounts[n] EXCEPT !.codes = accounts[n].codes \cup {minted + 1}]
    <3>1. /\ accounts' = [accounts EXCEPT ![n] = a] /\ UNCHANGED <<sessions, owed, overtaken>>
          /\ \E step \in {"cleared", "ok"} : \E read : Becomes(c, step, read)
      BY <2>8 DEF Issues
    <3>2. n \in There
      BY <1>0, <2>8 DEF Issues, IsCall, IssuesCodes, Issuing, IsIssue
    <3>3. a.pw = accounts[n].pw /\ a.disabled = accounts[n].disabled
      BY <1>0, <3>2 DEF Accounts
    <3> HIDE DEF a, n
    <3>4. \A m \in There : accounts'[m].pw = accounts[m].pw /\ accounts'[m].disabled = accounts[m].disabled
      BY <1>0, <3>1, <3>2, <3>3
    <3> HIDE DEF Current, Checks, Owes
    <3> QED BY <2>2, <3>1, <3>4
  <2>9. CASE Empties(c)
    <3>1. /\ UNCHANGED <<accounts, overtaken>> /\ SignsPeopleOut(c) /\ Becomes(c, "ok", None)
          /\ sessions' = sessions \ DeleteOtherUserSessions(c.read, Kept(c))
          /\ owed' = {o \in owed : o[2] # c.no}
      BY <2>9 DEF Empties
    <3>2. \A x \in calls' : (x \in calls /\ x # c) \/ x.step = "ok"
      BY <2>1, <3>1
    <3>3. ASSUME NEW s \in sessions' PROVE Current(s)' \/ \E o \in owed' : o[1] = s.no
      <4>1. CASE Current(s)
        BY <3>1, <4>1
      <4>2. ASSUME NEW o \in owed, o[1] = s.no PROVE o \in owed'
        <5>1. CASE o[2] = c.no
          BY <1>1, <3>1, <4>2, <5>1 DEF DeleteOtherUserSessions
        <5> QED BY <3>1, <4>2, <5>1
      <4> QED BY <1>1, <3>1, <4>1, <4>2
    <3>4. \A x \in calls' : Checks(x)'
      BY <1>1, <3>1, <3>2
    <3>5. ASSUME NEW x \in calls', NEW o \in owed', o[2] = x.no PROVE Owes(x, o)'
      BY <1>1, <3>1, <3>2, <3>5 DEF SignsPeopleOut, Kept
    <3> HIDE DEF Current, Checks, Owes
    <3> QED BY <1>2, <3>3, <3>4, <3>5
  <2>10. ASSUME c.step \in {"sent", "checked", "changed"}, NEW n \in There, Tames(c, n) PROVE StillRight'
    <3>1. PICK a \in Accounts : /\ accounts' = [accounts EXCEPT ![n] = a]
                                /\ Clears(c, n, a) \/ Updates(c, n, a)
      BY <2>10 DEF Tames
    <3>2. accounts'[n] = a /\ \A m \in There : m # n => accounts'[m] = accounts[m]
      BY <1>0, <3>1
    <3>3. ASSUME NEW s \in sessions' PROVE \E t \in sessions : t.no = s.no /\ t.user = s.user
      BY <2>10 DEF Tames
    <3>4. CASE Clears(c, n, a)
      <4>1. /\ UNCHANGED <<sessions, owed, overtaken>>
            /\ \E step, read : /\ Becomes(c, step, read) /\ step \notin {"verified", "checked", "sent"}
                               /\ ~(step = "changed" /\ c.kind \in {"password", "reset", "bar"})
        BY <3>4 DEF Clears
      <4>2. \A m \in There : /\ accounts'[m].pw = accounts[m].pw
                             /\ accounts'[m].disabled => accounts[m].disabled
        BY <3>2, <3>4 DEF Clears
      <4> HIDE DEF Current, Checks, Owes
      <4> QED BY <2>2, <4>1, <4>2
    <3>5. CASE Updates(c, n, a)
      <4> DEFINE Out == DeleteOtherUserSessions(n, Kept(c))
      <4>1. /\ c.kind \in {"password", "reset", "bar"} /\ Becomes(c, "changed", n)
            /\ c.step \in {"sent", "checked"} /\ (c.kind = "password" => c.step = "checked" /\ c.read = n)
            /\ owed' = owed \cup {<<s.no, c.no>> : s \in Out}
            /\ overtaken' = overtaken \cup {x.no : x \in {y \in calls : y.step = "verified" /\ y.arg.user = n}}
        BY <3>5 DEF Updates
      <4>2. \A x \in calls' : \/ x \in calls /\ x # c /\ x.no # c.no
                              \/ /\ x.step = "changed" /\ x.read = n /\ x.no = c.no /\ Kept(x) = Kept(c)
        BY <2>1, <4>1 DEF Counted, Kept
      <4>3. ASSUME NEW s \in sessions'
            PROVE  Current(s)' \/ \E o \in owed' : o[1] = s.no
        <5>1. PICK t \in sessions : /\ t.no = s.no /\ t.user = s.user
                                    /\ s = t \/ c.kind = "password"
                                    /\ c.kind = "password" => s.pw = (IF s.no = c.cookie THEN a.pw ELSE t.pw)
          <6>1. CASE c.kind = "password"
            BY <3>5, <6>1 DEF Updates
          <6>2. CASE c.kind # "password"
            BY <3>5, <6>2 DEF Updates
          <6> QED BY <6>1, <6>2
        <5>2. ASSUME NEW o \in owed, o[1] = t.no PROVE \E p \in owed' : p[1] = s.no
          BY <4>1, <5>1, <5>2
        <5>3. CASE t \in Out
          <6>1. <<t.no, c.no>> \in owed' /\ <<t.no, c.no>>[1] = s.no
            BY <4>1, <5>1, <5>3
          <6> QED BY <6>1
        <5>4. CASE t \notin Out /\ Current(t)
          <6>1. s.user = n => c.kind = "password" /\ s.no = c.cookie
            BY <1>0, <4>1, <5>1, <5>4 DEF DeleteOtherUserSessions, Kept
          <6>2. c.kind = "password" /\ s.no = c.cookie => s.user = n
            BY <4>1, <5>1 DEF Holders, Told
          <6>3. CASE s.user = n
            <7>1. s.pw = a.pw /\ ~a.disabled
              BY <3>5, <5>1, <5>4, <6>1, <6>3 DEF Updates
            <7> QED BY <3>2, <6>3, <7>1
          <6>4. CASE s.user # n
            <7>1. s.pw = t.pw
              BY <5>1, <6>2, <6>4
            <7> QED BY <1>0, <3>2, <5>1, <5>4, <6>4, <7>1
          <6> QED BY <6>3, <6>4
        <5> QED BY <1>1, <5>2, <5>3, <5>4
      <4>4. ASSUME NEW x \in calls' PROVE Checks(x)'
        <5>1. CASE x \in calls /\ x.step = "verified" /\ x.arg.user # n
          BY <1>0, <1>1, <3>2, <4>1, <5>1
        <5>2. CASE x \in calls /\ x.step = "verified" /\ x.arg.user = n
          BY <4>1, <5>2
        <5>3. CASE x.step # "verified"
          BY <5>3
        <5> QED BY <4>2, <5>1, <5>2, <5>3
      <4>5. ASSUME NEW x \in calls', NEW o \in owed', o[2] = x.no PROVE Owes(x, o)'
        <5>1. CASE x \in calls /\ x # c /\ x.no # c.no
          <6>1. o \in owed
            BY <4>1, <4>5, <5>1
          <6>2. Owes(x, o)
            BY <1>1, <4>5, <5>1, <6>1
          <6> QED BY <3>3, <6>2 DEF SignsPeopleOut, Kept
        <5>2. CASE x.step = "changed" /\ x.read = n /\ x.no = c.no /\ Kept(x) = Kept(c)
          <6>1. o \notin owed
            BY <1>1, <4>1, <4>5, <5>2
          <6>2. PICK u \in Out : o = <<u.no, c.no>>
            BY <4>1, <6>1
          <6>3. u \in sessions /\ u.user = n /\ u.no # Kept(c) /\ o[1] = u.no
            BY <6>2 DEF DeleteOtherUserSessions
          <6>4. \A s \in sessions' : s.no = o[1] => s.user = n /\ s.no # Kept(c)
            BY <3>3, <6>3 DEF Numbered
          <6> QED BY <5>2, <6>4 DEF Kept
        <5> QED BY <4>2, <5>1, <5>2
      <4> HIDE DEF Current, Checks, Owes, Out
      <4> QED BY <1>2, <4>3, <4>4, <4>5
    <3> QED BY <3>1, <3>4, <3>5
  <2> HIDE DEF Current, Checks, Owes
  <2> QED BY <1>8, <2>3, <2>4, <2>5, <2>6, <2>7, <2>8, <2>9, <2>10 DEF Serves
<1> QED BY <1>4, <1>5, <1>6, <1>7, <1>8 DEF Steps

-----------------------------------------------------------------------------
(***************************************************************************)
(* The start, and the theorems                                             *)
(***************************************************************************)
\* What there is at the start was numbered below zero.
LEMMA Starting ==
  ASSUME Init
  PROVE  SignInInv /\ OnScreen /\ Counted /\ StillRight
<1> DEFINE of(start, d) == [no |-> d, user |-> start.in[d], pw |-> accounts[start.in[d]].pw]
           in(start) == {d \in Devices : start.in[d] # None}
           first(start, d) == Blank(IF d \in in(start) THEN "home" ELSE "login")
<1>1. PICK start \in Starts :
        /\ accounts = start.accounts /\ sessions = {of(start, d) : d \in in(start)}
        /\ tokens = {} /\ fails = [n \in Names |-> 0] /\ minted = Cardinality(Devices)
        /\ cookie = [d \in Devices |-> IF d \in in(start) THEN d ELSE None] /\ me = start.in
        /\ page = [d \in Devices |-> first(start, d)] /\ calls = {} /\ made = 0 /\ opened = {} /\ issued = {} /\ owed = {} /\ overtaken = {}
        /\ seen = [n \in Names |-> IF accounts[n] = None THEN {} ELSE accounts[n].codes]
  BY DEF Init
<1>2. /\ IsFiniteSet(Devices) /\ Devices \subseteq 1..Cardinality(Devices)
      /\ {MaxTries, recoveryCodeCount} \subseteq Nat \ {0}
      /\ None \notin Names /\ None \notin Accounts /\ None \notin Int
      /\ start.accounts \in [Names -> Accounts \cup {None}]
      /\ start.in \in [Devices -> {n \in Names : start.accounts[n] # None} \cup {None}]
      /\ \A d \in Devices : start.in[d] # None => ~start.accounts[start.in[d]].disabled
      /\ \A n, m \in {k \in Names : start.accounts[k] # None} :
            /\ \A code \in start.accounts[n].codes : code < 0
            /\ n # m => start.accounts[n].codes \cap start.accounts[m].codes = {}
  BY SessionConstants
<1>3. Cardinality(Devices) \in Nat
  BY <1>2, FS_CardinalityType
<1>4. \A n \in There : n \in Names /\ accounts[n] \in Accounts
  BY <1>1, <1>2 DEF There
<1>5. \A d \in in(start) : d \in Devices /\ start.in[d] \in There /\ d \in Int /\ d <= minted
  BY <1>1, <1>2, <1>3 DEF There
<1>6. \A d \in in(start) : /\ of(start, d).no = d /\ of(start, d).user = start.in[d]
                           /\ of(start, d).pw = accounts[start.in[d]].pw
  OBVIOUS
<1>7. \A d \in in(start) : of(start, d) \in [no : Int, user : There, pw : Passwords]
  BY <1>4, <1>5 DEF Accounts
<1>8. \A n \in There : accounts[n].codes \subseteq Int
  BY <1>4 DEF Accounts
<1>9. TypeOK
  <2>1. sessions \subseteq [no : Int, user : There, pw : Passwords]
    BY <1>1, <1>7
  <2>2. cookie \in [Devices -> Int \cup {None}] /\ me \in [Devices -> Names \cup {None}]
    BY <1>1, <1>2, <1>5
  <2>3. seen \in [Names -> SUBSET Int]
    BY <1>1, <1>8 DEF There
  <2>4. accounts \in [Names -> Accounts \cup {None}] /\ minted \in Nat /\ made \in Nat
    BY <1>1, <1>2, <1>3
  <2> QED BY <1>1, <2>1, <2>2, <2>3, <2>4 DEF TypeOK
<1>10. \A s \in sessions : \E d \in in(start) : s = of(start, d)
  BY <1>1
<1>11. Shape
  <2>1. \A d \in Devices : IsPage(page[d])
    <3>1. \A at : IsPage(Blank(at))
      BY DEF IsPage, Blank
    <3> QED BY <1>1, <3>1
  <2>2. page = [d \in Devices |-> page[d]]
    BY <1>1
  <2> QED BY <1>1, <1>9, <2>1, <2>2 DEF Shape
<1> HIDE DEF of
<1>12. Numbered
  <2>1. \A n \in There : \A k \in accounts[n].codes : k <= minted
    <3>1. \A n \in There : \A k \in accounts[n].codes : k \in Int /\ k < 0
      BY <1>1, <1>2, <1>8 DEF There
    <3> QED BY <1>1, <1>3, <3>1
  <2>2. \A d \in Devices : cookie[d] # None => cookie[d] <= minted
    BY <1>1, <1>5
  <2> QED BY <1>1, <1>5, <1>6, <1>10, <2>1, <2>2 DEF Numbered
<1>13. CodesGo
  <2>1. \A n, m \in There : n # m => accounts[n].codes \cap accounts[m].codes = {}
    BY <1>1, <1>2 DEF There
  <2> QED BY <1>1, <2>1 DEF CodesGo, CodesOpenOnce
<1>14. Tries
  <2>1. \A n : Trying(n) = {}
    BY <1>1 DEF Trying
  <2>2. Cardinality({}) = 0
    BY FS_EmptySet
  <2>3. \A n \in Names : fails[n] = 0 /\ Cardinality(Trying(n)) = 0
    BY <1>1, <2>1, <2>2
  <2> QED BY <1>2, <1>3, <2>3 DEF Tries
<1>15. Holders
  <2>1. ASSUME NEW d \in Devices, me[d] # None, NEW s \in sessions, s.no = cookie[d]
        PROVE  s.user = me[d]
    <3>1. PICK e \in in(start) : s = of(start, e)
      BY <1>10
    <3>2. d \in in(start) /\ cookie[d] = d
      BY <1>1, <2>1
    <3> QED BY <1>1, <1>6, <2>1, <3>1, <3>2
  <2> QED BY <1>1, <2>1 DEF Holders
<1>16. OnScreen
  <2>1. \A n \in There : seen[n] = accounts[n].codes
    BY <1>1 DEF There
  <2> QED BY <1>1, <2>1 DEF OnScreen
<1>17. Counted
  BY <1>1 DEF Counted
<1>18. StillRight
  <2>1. ASSUME NEW s \in sessions PROVE s.pw = accounts[s.user].pw /\ ~accounts[s.user].disabled
    <3>1. PICK d \in in(start) : s = of(start, d)
      BY <1>10
    <3> QED BY <1>1, <1>2, <1>6, <3>1
  <2> QED BY <1>1, <2>1 DEF StillRight, OthersAreOut
<1> QED BY <1>11, <1>12, <1>13, <1>14, <1>15, <1>16, <1>17, <1>18 DEF SignInInv

\* Sign-ins, codes and sessions are as they should be, in every interleaving of what the
\* devices ask and the server does (auth/service.go, auth/ratelimit.go, AuthProvider.tsx).
THEOREM SignInInvariant == Spec => []SignInInv
<1>1. Init => SignInInv
  BY Starting
<1>2. SignInInv /\ [Next]_vars => SignInInv'
  <2> SUFFICES ASSUME SignInInv, [Next]_vars PROVE SignInInv'
    OBVIOUS
  <2>1. Steps
    BY NextSteps DEF SignInInv
  <2>2. Shape'
    BY <2>1, ShapeKept DEF SignInInv
  <2>3. Numbered' /\ CodesGo'
    BY <2>1, <2>2, CodesKept DEF SignInInv
  <2>4. Tries'
    BY <2>1, <2>2, TriesKept DEF SignInInv
  <2>5. Holders'
    BY <2>1, <2>2, HoldersKept DEF SignInInv
  <2> QED BY <2>2, <2>3, <2>4, <2>5 DEF SignInInv
<1> QED BY <1>1, <1>2, PTL DEF Spec

\* Whatever the devices do, passwords changed under a sign-in included, a one-time code opens
\* one session and an account takes no more wrong guesses than its window allows plus those
\* that were let in before the last of them (auth/service.go ConsumeRecoveryCode, ratelimit.go).
THEOREM CodesAndGuessesAreLimited == Spec => [](CodesOpenOnce /\ TriesAreLimited)
<1>1. SignInInv => CodesOpenOnce /\ TriesAreLimited
  <2> SUFFICES ASSUME SignInInv, NEW n \in Names PROVE fails[n] < MaxTries + Cardinality(Devices)
    BY DEF SignInInv, CodesGo, TriesAreLimited
  <2>1. /\ IsFiniteSet(Devices) /\ Cardinality(Devices) \in Nat /\ MaxTries \in Nat
        /\ fails[n] \in Nat
    BY SessionConstants, FS_CardinalityType DEF SignInInv, Shape, TypeOK
  <2>2. Cardinality(Trying(n)) \in Nat
    BY <2>1, FS_Subset, FS_CardinalityType DEF Trying
  <2>3. fails[n] + Cardinality(Trying(n)) < MaxTries + Cardinality(Devices)
    BY DEF SignInInv, Tries
  <2> HIDE DEF Trying
  <2> QED BY <2>1, <2>2, <2>3
<1> QED BY <1>1, SignInInvariant, PTL

\* Wherever a request stops between two of its statements, no session outlives the password
\* it was opened with but one whose deletion is still to come, was stopped before it came, or
\* whose sign-in had passed its check when the change came; and the codes an account keeps are
\* codes its holder was shown or is about to be, but those of a request that was stopped half
\* way or of a page left before the answer (auth/service.go ChangePassword, ResetPassword,
\* SetDisabled, Enable2FA, NewAccessCodes; TwoFactorCard.tsx, AccessCodesCard.tsx).
THEOREM AccessKept == Spec => []AccessIsKept
<1> DEFINE Inv == SignInInv /\ OnScreen /\ Counted /\ StillRight
<1>1. Init => Inv
  BY Starting
<1>2. Inv /\ [Next]_vars => Inv'
  <2> SUFFICES ASSUME Inv, [Next]_vars PROVE Inv'
    OBVIOUS
  <2>1. Steps
    BY NextSteps DEF SignInInv
  <2>2. Shape'
    BY <2>1, ShapeKept DEF SignInInv
  <2>3. Numbered' /\ CodesGo' /\ Tries' /\ Holders'
    BY <2>1, <2>2, CodesKept, TriesKept, HoldersKept DEF SignInInv
  <2>4. OnScreen'
    BY <2>1, <2>2, OnScreenKept DEF SignInInv
  <2>5. Counted'
    BY <2>1, <2>2, CountedKept DEF SignInInv
  <2>6. StillRight'
    BY <2>1, <2>2, StillRightKept DEF SignInInv
  <2> QED BY <2>2, <2>3, <2>4, <2>5, <2>6 DEF SignInInv
<1>3. Inv => TypeOK /\ KeptCodesWereShown /\ OthersAreOut
  <2> SUFFICES ASSUME Inv PROVE KeptCodesWereShown
    BY DEF SignInInv, Shape, StillRight
  <2> QED BY DEF OnScreen, KeptCodesWereShown, OnTheirWay
<1>4. Spec => []Inv
  BY <1>1, <1>2, PTL DEF Spec
<1> QED BY <1>3, <1>4, CodesAndGuessesAreLimited, PTL DEF AccessIsKept

=============================================================================
