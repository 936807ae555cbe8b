--------------------------- MODULE StoreAccounts ---------------------------
(***************************************************************************)
(* The accounts of the storefront: sim-enterprise/ecom-app/src/server.ts   *)
(* and auth.ts over the tables of db.ts, with the sign-in state that       *)
(* public/app.js and public/privacy-center.html keep in a browser.         *)
(*                                                                         *)
(* Every `await' on PostgreSQL is a statement of its own transaction, so a *)
(* handler is as many steps as it has statements and the handlers under    *)
(* way interleave; each occupies one of Handlers.  The last statement of a *)
(* handler, its answer and the answer's arrival are one step.              *)
(***************************************************************************)
EXTENDS Naturals

CONSTANTS
  Accounts,    \* the ids that signups draw
  Emails,
  Passwords,
  Purposes,
  Consents,    \* the purpose sets that signups consent to
  Handlers,    \* requests under way at once
  Browsers,
  MaxTokens,   \* bound on the sessions ever created
  Faults       \* "db": a statement fails; "crash"; "loss": of an answer

ASSUME AccountsAssumption ==
  /\ "none" \notin Accounts \cup Emails \cup Passwords
  /\ Accounts \cap Emails = {}
  /\ Consents \subseteq SUBSET Purposes
  /\ MaxTokens \in Nat

VARIABLES
  users,        \* the rows of users, by id
  credentials,  \* the rows of customer_credentials, by user_id
  sessions,     \* the Map of CustomerAuthService: the user of each token
  lastToken,    \* how many tokens were ever drawn
  request,      \* what each handler is doing
  page,         \* what each browser shows and keeps
  cutShort,     \* history: the signups that failed half way
  withdrawn,    \* history: the purposes whose withdrawal was carried out
  overtaken     \* history: the accounts that a stale write went to

accountsVars == <<users, credentials, sessions, lastToken, request, page,
                  cutShort, withdrawn, overtaken>>

-----------------------------------------------------------------------------
Tokens == 1..MaxTokens

(* An erased account keeps its row; its quarantine address, made of its id,  *)
(* is the id here.                                                           *)
NoUser == [email |-> "none", purposes |-> {}]
User == [email : Emails \cup Accounts \cup {"none"}, purposes : SUBSET Purposes]

Exists(u) == users[u].email # "none"
Erased(u) == users[u].email = u
Used(e) == \E u \in Accounts : users[u].email = e

(* A handler between two statements: the statement it is about to issue, and *)
(* what it holds meanwhile.  `late' is history: the row that a withdrawal    *)
(* has read was written since.                                               *)
Idle == [at |-> "IDLE", browser |-> "none", account |-> "none", found |-> "none",
         email |-> "none", password |-> "none", purposes |-> {}, named |-> {},
         late |-> FALSE]
Request ==
  [at : {"IDLE", "SIGNUP_INSERT", "SIGNUP_PASSWORD", "SIGNUP_USER",
         "SIGNUP_CREDENTIALS", "LOGIN_CREDENTIALS", "WITHDRAW_UPDATE"},
   browser : Browsers \cup {"none"}, account : Accounts \cup {"none"},
   found : Accounts \cup {"none"}, email : Emails \cup {"none"},
   password : Passwords \cup {"none"}, purposes : SUBSET Purposes,
   named : SUBSET Purposes, late : BOOLEAN]

(* currentUser, and what localStorage keeps over a reload; token 0 is none. *)
SignedOut == [shown |-> "none", saved |-> "none", token |-> 0]
Page == [shown : Accounts \cup {"none"}, saved : Accounts \cup {"none"},
         token : Tokens \cup {0}]

AccountsInit ==
  /\ users = [u \in Accounts |-> NoUser]
  /\ credentials = [u \in Accounts |-> "none"]
  /\ sessions = [t \in Tokens |-> "none"]
  /\ lastToken = 0
  /\ request = [h \in Handlers |-> Idle]
  /\ page = [b \in Browsers |-> SignedOut]
  /\ cutShort = {}
  /\ withdrawn = [u \in Accounts |-> {}]
  /\ overtaken = {}

Done(h) == request' = [request EXCEPT ![h] = Idle]
GoOn(h, r) == request' = [request EXCEPT ![h] = r]

(* What an answer to a sign-in leaves in browser b.  Without a session,      *)
(* `data.session.token' throws after currentUser is set and before anything  *)
(* is saved.                                                                 *)
Signed(b, u, t) ==
  [page EXCEPT ![b] = IF t = 0 THEN [@ EXCEPT !.shown = u]
                      ELSE [shown |-> u, saved |-> u, token |-> t]]

(* The answer gets lost, or finds that its page was left. *)
Answered(b, u, t) ==
  \/ b # "none" /\ page' = Signed(b, u, t)
  \/ (b = "none" \/ "loss" \in Faults) /\ UNCHANGED page

-----------------------------------------------------------------------------
(* Signup and login.                                                       *)

(* POST /api/auth/signup up to its SELECT; an email in use is answered 400. *)
SignupSelect(h, b, e, w, P) ==
  /\ request[h] = Idle
  /\ ~Used(e)
  /\ GoOn(h, [Idle EXCEPT !.at = "SIGNUP_INSERT", !.browser = b, !.email = e,
                          !.password = w, !.purposes = P])
  /\ UNCHANGED <<users, credentials, sessions, lastToken, page,
                 cutShort, withdrawn, overtaken>>

(* An INSERT into a table whose email is not UNIQUE. *)
SignupInsertAnyway(h) ==
  /\ request[h].at = "SIGNUP_INSERT"
  /\ \E u \in Accounts :
       /\ ~Exists(u)
       /\ users' = [users EXCEPT ![u] = [email |-> request[h].email,
                                         purposes |-> request[h].purposes]]
       /\ GoOn(h, [request[h] EXCEPT !.at = "SIGNUP_PASSWORD", !.account = u])
  /\ UNCHANGED <<credentials, sessions, lastToken, page,
                 cutShort, withdrawn, overtaken>>

(* The INSERT of the users row; email is UNIQUE, a second one is answered 500. *)
SignupInsert(h) ==
  /\ request[h].at = "SIGNUP_INSERT"
  /\ \/ /\ Used(request[h].email)
        /\ Done(h)
        /\ UNCHANGED users
     \/ /\ ~Used(request[h].email)
        /\ \E u \in Accounts :
             /\ ~Exists(u)
             /\ users' = [users EXCEPT ![u] = [email |-> request[h].email,
                                               purposes |-> request[h].purposes]]
             /\ GoOn(h, [request[h] EXCEPT !.at = "SIGNUP_PASSWORD", !.account = u])
  /\ UNCHANGED <<credentials, sessions, lastToken, page,
                 cutShort, withdrawn, overtaken>>

(* A setPassword that only updates the row of an account that has one. *)
SetPasswordUpdates(h) ==
  /\ request[h].at = "SIGNUP_PASSWORD"
  /\ credentials' = [credentials EXCEPT ![request[h].account] =
                       IF @ = "none" THEN @ ELSE request[h].password]
  /\ GoOn(h, [request[h] EXCEPT !.at = "SIGNUP_USER"])
  /\ UNCHANGED <<users, sessions, lastToken, page, cutShort, withdrawn, overtaken>>

(* setPassword; its SELECT finds no row of an account that is new. *)
SetPassword(h) ==
  /\ request[h].at = "SIGNUP_PASSWORD"
  /\ credentials' = [credentials EXCEPT ![request[h].account] = request[h].password]
  /\ GoOn(h, [request[h] EXCEPT !.at = "SIGNUP_USER"])
  /\ UNCHANGED <<users, sessions, lastToken, page, cutShort, withdrawn, overtaken>>

(* login as signup calls it: the account is looked up again by its email.  If *)
(* an erasure has masked that, signup answers success without a session.      *)
SignupUser(h) ==
  /\ request[h].at = "SIGNUP_USER"
  /\ \/ /\ ~Used(request[h].email)
        /\ Answered(request[h].browser, request[h].account, 0)
        /\ Done(h)
     \/ /\ \E u \in Accounts :
             /\ users[u].email = request[h].email
             /\ GoOn(h, [request[h] EXCEPT !.at = "SIGNUP_CREDENTIALS", !.found = u])
        /\ UNCHANGED page
  /\ UNCHANGED <<users, credentials, sessions, lastToken,
                 cutShort, withdrawn, overtaken>>

(* POST /api/auth/login up to its first SELECT; an unknown email gets 401. *)
LoginUser(h, b, e, w) ==
  /\ request[h] = Idle
  /\ \E u \in Accounts :
       /\ users[u].email = e
       /\ GoOn(h, [Idle EXCEPT !.at = "LOGIN_CREDENTIALS", !.browser = b,
                               !.found = u, !.email = e, !.password = w])
  /\ UNCHANGED <<users, credentials, sessions, lastToken, page,
                 cutShort, withdrawn, overtaken>>

(* login's test of the password against the row it reads. *)
Matches(h) == credentials[request[h].found] = request[h].password

(* Whom the answer names: signup the account it made, login the one it found. *)
Named(h) ==
  IF request[h].at = "SIGNUP_CREDENTIALS" THEN request[h].account
  ELSE request[h].found

(* The second SELECT of login and, if the password matches, a new session. *)
LoginCredentials(h) ==
  /\ request[h].at \in {"SIGNUP_CREDENTIALS", "LOGIN_CREDENTIALS"}
  /\ \/ /\ Matches(h)
        /\ lastToken < MaxTokens
        /\ lastToken' = lastToken + 1
        /\ sessions' = [sessions EXCEPT ![lastToken + 1] = request[h].found]
        /\ Answered(request[h].browser, Named(h), lastToken + 1)
     \/ /\ ~Matches(h)
        /\ IF request[h].at = "SIGNUP_CREDENTIALS"
           THEN Answered(request[h].browser, Named(h), 0)
           ELSE UNCHANGED page
        /\ UNCHANGED <<sessions, lastToken>>
  /\ Done(h)
  /\ UNCHANGED <<users, credentials, cutShort, withdrawn, overtaken>>

(* GET /api/auth/me with a token that expired: verifySession deletes it. *)
VerifySession(t) ==
  /\ sessions[t] # "none"
  /\ sessions' = [sessions EXCEPT ![t] = "none"]
  /\ UNCHANGED <<users, credentials, lastToken, request, page,
                 cutShort, withdrawn, overtaken>>

-----------------------------------------------------------------------------
(* The privacy routes.  They take the user id from the body and check no     *)
(* session: the client is the privacy centre of a browser, or anybody else   *)
(* who has the id.                                                           *)

(* For history: withdrawals that have read the row of u are late from now. *)
Overtaking(u, r) ==
  [g \in Handlers |-> IF r[g].at = "WITHDRAW_UPDATE" /\ r[g].account = u
                      THEN [r[g] EXCEPT !.late = TRUE] ELSE r[g]]

(* POST /api/privacy/consent/withdraw up to its SELECT, of one purpose. *)
WithdrawSelect(h, u, p) ==
  /\ request[h] = Idle
  /\ Exists(u)
  /\ GoOn(h, [Idle EXCEPT !.at = "WITHDRAW_UPDATE", !.account = u,
                          !.purposes = users[u].purposes \ {p}, !.named = {p}])
  /\ UNCHANGED <<users, credentials, sessions, lastToken, page,
                 cutShort, withdrawn, overtaken>>

(* Its UPDATE writes the list as it was when it was read. *)
WithdrawUpdate(h) ==
  /\ request[h].at = "WITHDRAW_UPDATE"
  /\ LET r == request[h]
     IN  /\ users' = [users EXCEPT ![r.account].purposes = r.purposes]
         /\ withdrawn' = [withdrawn EXCEPT ![r.account] = @ \cup r.named]
         /\ overtaken' = IF r.late THEN overtaken \cup {r.account} ELSE overtaken
         /\ request' = Overtaking(r.account, [request EXCEPT ![h] = Idle])
  /\ UNCHANGED <<credentials, sessions, lastToken, page, cutShort>>

(* An erasure that leaves the consents as they were. *)
MaskedKeepingConsents(u) == [users[u] EXCEPT !.email = u]

Masked(u) == [email |-> u, purposes |-> {}]

(* POST /api/privacy/dsr/erasure: one UPDATE masks the row.  Credentials and  *)
(* sessions stay.  The browser that asked empties its localStorage when it    *)
(* gets the answer; what an open page of the shop shows is left.              *)
Erase(u) ==
  /\ Exists(u)
  /\ users' = [users EXCEPT ![u] = Masked(u)]
  /\ withdrawn' = [withdrawn EXCEPT ![u] = Purposes]
  /\ request' = Overtaking(u, request)
  /\ \/ UNCHANGED page
     \/ \E b \in Browsers : /\ page[b].saved = u
                            /\ page' = [page EXCEPT ![b] =
                                         [SignedOut EXCEPT !.shown = page[b].shown]]
  /\ UNCHANGED <<credentials, sessions, lastToken, cutShort, overtaken>>

-----------------------------------------------------------------------------
(* Browsers and faults.                                                    *)

Leave(b) ==
  request' = [h \in Handlers |-> IF request[h].browser = b
                                 THEN [request[h] EXCEPT !.browser = "none"]
                                 ELSE request[h]]

(* logoutCustomer tells the server nothing; it ends in a reload. *)
LogoutCustomer(b) ==
  /\ page' = [page EXCEPT ![b] = SignedOut]
  /\ Leave(b)
  /\ UNCHANGED <<users, credentials, sessions, lastToken, cutShort, withdrawn, overtaken>>

(* A reload runs checkExistingSession. *)
CheckExistingSession(b) ==
  /\ page' = [page EXCEPT ![b].shown = page[b].saved]
  /\ Leave(b)
  /\ UNCHANGED <<users, credentials, sessions, lastToken, cutShort, withdrawn, overtaken>>

Unfinished(h) == request[h].at = "SIGNUP_PASSWORD"

(* A statement fails and the handler answers 500. *)
StatementFails(h) ==
  /\ "db" \in Faults
  /\ request[h] # Idle
  /\ cutShort' = cutShort \cup (IF Unfinished(h) THEN {request[h].account} ELSE {})
  /\ Done(h)
  /\ UNCHANGED <<users, credentials, sessions, lastToken, page,
                 withdrawn, overtaken>>

(* The process stops; sessions are its memory. *)
AccountsCrash ==
  /\ "crash" \in Faults
  /\ sessions' = [t \in Tokens |-> "none"]
  /\ request' = [h \in Handlers |-> Idle]
  /\ cutShort' = cutShort \cup {request[h].account : h \in {g \in Handlers : Unfinished(g)}}
  /\ UNCHANGED <<users, credentials, lastToken, page, withdrawn, overtaken>>

AccountsStep ==
  \/ \E h \in Handlers, b \in Browsers, e \in Emails, w \in Passwords, P \in Consents :
        SignupSelect(h, b, e, w, P)
  \/ \E h \in Handlers : SignupInsert(h)
  \/ \E h \in Handlers : SetPassword(h)
  \/ \E h \in Handlers : SignupUser(h)
  \/ \E h \in Handlers, b \in Browsers, e \in Emails, w \in Passwords :
        LoginUser(h, b, e, w)
  \/ \E h \in Handlers : LoginCredentials(h)
  \/ \E t \in Tokens : VerifySession(t)
  \/ \E h \in Handlers, u \in Accounts, p \in Purposes : WithdrawSelect(h, u, p)
  \/ \E h \in Handlers : WithdrawUpdate(h)
  \/ \E u \in Accounts : Erase(u)
  \/ \E h \in Handlers : StatementFails(h)

AccountsNext ==
  \/ AccountsStep
  \/ \E b \in Browsers : LogoutCustomer(b)
  \/ \E b \in Browsers : CheckExistingSession(b)
  \/ AccountsCrash

AccountsSpec == AccountsInit /\ [][AccountsNext]_accountsVars

-----------------------------------------------------------------------------
(* Properties.                                                             *)

(* The values the tables, the handlers and the browsers can hold. *)
AccountsTypeOK ==
  /\ users \in [Accounts -> User]
  /\ credentials \in [Accounts -> Passwords \cup {"none"}]
  /\ sessions \in [Tokens -> Accounts \cup {"none"}]
  /\ lastToken \in 0..MaxTokens
  /\ request \in [Handlers -> Request]
  /\ page \in [Browsers -> Page]
  /\ cutShort \subseteq Accounts
  /\ withdrawn \in [Accounts -> SUBSET Purposes]
  /\ overtaken \subseteq Accounts

(* Signup writes the row and the password in two transactions: an account     *)
(* without a password, whose email can neither sign up again nor sign in, is  *)
(* one whose signup is still running or was cut short between the two.        *)
NobodyIsLockedOut ==
  \A u \in Accounts : Exists(u) /\ credentials[u] = "none" =>
    u \in cutShort \/ \E h \in Handlers : Unfinished(h) /\ request[h].account = u

(* A purpose that was withdrawn, or went with an erasure, is back in the row  *)
(* only if a withdrawal wrote a list that it had read before another write.   *)
WithdrawnStaysWithdrawn ==
  \A u \in Accounts : users[u].purposes \cap withdrawn[u] # {} => u \in overtaken

(* The token a browser keeps is for the account it shows, although signup     *)
(* looks its account up again by email after two more statements, during      *)
(* which others sign up: unless the account was erased meanwhile.             *)
SessionOfOwner ==
  \A b \in Browsers :
    LET p == page[b]
    IN  p.token # 0 /\ sessions[p.token] # "none" =>
          sessions[p.token] = p.saved \/ Erased(p.saved)
=============================================================================
