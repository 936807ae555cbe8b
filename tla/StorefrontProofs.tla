-------------------------- MODULE StorefrontProofs --------------------------
(***************************************************************************)
(* What is proved of the accounts by themselves, for all accounts, clients, *)
(* handlers and faults; that the storefront behaves towards them as they do *)
(* by themselves, so that it all holds there, too; and that no start of its *)
(* processes leaves a seeding half done unnoticed.                          *)
(***************************************************************************)
EXTENDS Storefront, TLAPS

-----------------------------------------------------------------------------
(* The accounts by themselves.                                             *)

Signing == {"SIGNUP_PASSWORD", "SIGNUP_USER", "SIGNUP_CREDENTIALS"}

(* What a handler holds between its statements and how it relates to the      *)
(* rows: a signup still has the address of its account unless that was        *)
(* erased, and a withdrawal that nobody overtook what is left of its row.     *)
Sound(r) ==
  /\ r.at \in {"SIGNUP_INSERT"} \cup Signing =>
       r.email \in Emails /\ r.password \in Passwords
  /\ r.at \in Signing =>
       r.account \in Accounts /\ (users[r.account].email = r.email \/ Erased(r.account))
  /\ r.at \in {"SIGNUP_CREDENTIALS", "LOGIN_CREDENTIALS"} => r.found \in Accounts
  /\ r.at = "SIGNUP_CREDENTIALS" => r.found = r.account \/ Erased(r.account)
  /\ r.at = "WITHDRAW_UPDATE" =>
       /\ r.account \in Accounts /\ Exists(r.account)
       /\ r.late \/ r.purposes = users[r.account].purposes \ r.named

RequestsAreSound == \A h \in Handlers : Sound(request[h])

EmailsAreUnique ==
  \A u, v \in Accounts : users[u].email \in Emails /\ users[u].email = users[v].email => u = v

NothingWithdrawnBefore == \A u \in Accounts : ~Exists(u) => withdrawn[u] = {}

TokensAreDrawn ==
  /\ \A t \in Tokens : t > lastToken => sessions[t] = "none"
  /\ \A b \in Browsers : page[b].token <= lastToken
  /\ \A b \in Browsers : page[b].token # 0 => page[b].saved \in Accounts

AccountsInv ==
  /\ AccountsTypeOK /\ RequestsAreSound /\ EmailsAreUnique
  /\ NothingWithdrawnBefore /\ TokensAreDrawn
  /\ NobodyIsLockedOut /\ WithdrawnStaysWithdrawn /\ SessionOfOwner

LEMMA IdleTyped == Idle \in Request /\ Sound(Idle)
BY DEF Idle, Request, Sound, Signing

LEMMA InitAccountsInv == AccountsInit => AccountsInv
<1> SUFFICES ASSUME AccountsInit PROVE AccountsInv
  OBVIOUS
<1>1. AccountsTypeOK
  BY IdleTyped, AccountsAssumption
  DEF AccountsInit, AccountsTypeOK, User, NoUser, Page, SignedOut, Tokens
<1>2. RequestsAreSound
  BY IdleTyped DEF AccountsInit, RequestsAreSound
<1>3. EmailsAreUnique /\ NothingWithdrawnBefore /\ NobodyIsLockedOut /\ WithdrawnStaysWithdrawn
  BY AccountsAssumption
  DEF AccountsInit, EmailsAreUnique, NothingWithdrawnBefore, NobodyIsLockedOut,
      WithdrawnStaysWithdrawn, NoUser, Exists
<1>4. TokensAreDrawn /\ SessionOfOwner
  BY DEF AccountsInit, TokensAreDrawn, SessionOfOwner, SignedOut
<1> QED
  BY <1>1, <1>2, <1>3, <1>4 DEF AccountsInv

-----------------------------------------------------------------------------
(* Steps that leave the rows alone.                                        *)

(* What an answer does to the pages: without a session it changes what one   *)
(* shows, with one it saves the account and the token.                       *)
LEMMA AnswerWithout ==
  ASSUME AccountsTypeOK, NEW b, NEW u \in Accounts, Answered(b, u, 0)
  PROVE  /\ page' \in [Browsers -> Page]
         /\ \A c \in Browsers : page'[c].saved = page[c].saved /\ page'[c].token = page[c].token
<1>1. CASE page' = Signed(b, u, 0)
  <2> DEFINE new == [page[b] EXCEPT !.shown = u]
  <2>1. b \in Browsers =>
          new \in Page /\ new.saved = page[b].saved /\ new.token = page[b].token
    BY DEF AccountsTypeOK, Page
  <2>2. page' = [page EXCEPT ![b] = new]
    BY <1>1 DEF Signed
  <2> HIDE DEF new
  <2> QED
    BY <2>1, <2>2 DEF AccountsTypeOK
<1>2. CASE UNCHANGED page
  BY <1>2 DEF AccountsTypeOK
<1> QED
  BY <1>1, <1>2 DEF Answered

LEMMA AnswerWith ==
  ASSUME AccountsTypeOK, NEW b, NEW u \in Accounts, NEW t \in Tokens, Answered(b, u, t)
  PROVE  /\ page' \in [Browsers -> Page]
         /\ \A c \in Browsers : page'[c] = page[c] \/ (page'[c].saved = u /\ page'[c].token = t)
<1>0. t # 0
  BY DEF Tokens
<1>1. CASE page' = Signed(b, u, t)
  <2> DEFINE new == [shown |-> u, saved |-> u, token |-> t]
  <2>1. new \in Page /\ new.saved = u /\ new.token = t
    BY DEF Page
  <2>2. page' = [page EXCEPT ![b] = new]
    BY <1>0, <1>1 DEF Signed
  <2> HIDE DEF new
  <2> QED
    BY <2>1, <2>2 DEF AccountsTypeOK
<1>2. CASE UNCHANGED page
  BY <1>2 DEF AccountsTypeOK
<1> QED
  BY <1>1, <1>2 DEF Answered

(* A handler goes on, or is done, and no row is written. *)
LEMMA QuietStep ==
  ASSUME AccountsInv, NEW h \in Handlers, NEW r \in Request, Sound(r), GoOn(h, r),
         ~Unfinished(h),
         UNCHANGED <<users, credentials, cutShort, withdrawn, overtaken>>
  PROVE  /\ request' \in [Handlers -> Request] /\ RequestsAreSound'
         /\ EmailsAreUnique' /\ NothingWithdrawnBefore'
         /\ NobodyIsLockedOut' /\ WithdrawnStaysWithdrawn'
<1> USE DEF AccountsInv
<1>1. /\ request' \in [Handlers -> Request]
      /\ request'[h] = r
      /\ \A g \in Handlers \ {h} : request'[g] = request[g]
  BY DEF GoOn, AccountsTypeOK
<1>2. RequestsAreSound'
  <2> SUFFICES ASSUME NEW g \in Handlers PROVE Sound(request[g])'
    BY DEF RequestsAreSound
  <2>1. Sound(request'[g])
    BY <1>1 DEF RequestsAreSound
  <2> QED
    BY <2>1 DEF Sound, Erased, Exists
<1>3. EmailsAreUnique' /\ NothingWithdrawnBefore' /\ WithdrawnStaysWithdrawn'
  BY DEF EmailsAreUnique, NothingWithdrawnBefore, WithdrawnStaysWithdrawn, Exists
<1>4. NobodyIsLockedOut'
  BY <1>1 DEF NobodyIsLockedOut, Unfinished, Exists
<1> QED
  BY <1>1, <1>2, <1>3, <1>4

(* The pages and sessions as they were stay sound. *)
LEMMA SamePages ==
  ASSUME AccountsInv, UNCHANGED <<users, sessions, lastToken, page>>
  PROVE  /\ sessions' \in [Tokens -> Accounts \cup {"none"}]
         /\ lastToken' \in 0..MaxTokens /\ page' \in [Browsers -> Page]
         /\ TokensAreDrawn' /\ SessionOfOwner'
BY DEF AccountsInv, AccountsTypeOK, TokensAreDrawn, SessionOfOwner, Erased

LEMMA SelectsKeepAccountsInv ==
  ASSUME AccountsInv, NEW h \in Handlers,
         \/ \E b \in Browsers, e \in Emails, w \in Passwords, P \in Consents :
               SignupSelect(h, b, e, w, P)
         \/ \E b \in Browsers, e \in Emails, w \in Passwords : LoginUser(h, b, e, w)
         \/ \E u \in Accounts, p \in Purposes : WithdrawSelect(h, u, p)
  PROVE  AccountsInv'
<1>1. /\ request[h] = Idle /\ ~Unfinished(h)
      /\ UNCHANGED <<users, credentials, sessions, lastToken, page, cutShort, withdrawn, overtaken>>
  <2>1. /\ request[h] = Idle
        /\ UNCHANGED <<users, credentials, sessions, lastToken, page, cutShort, withdrawn, overtaken>>
    BY DEF SignupSelect, LoginUser, WithdrawSelect
  <2> QED
    BY <2>1 DEF Unfinished, Idle
<1>2. PICK r \in Request : Sound(r) /\ GoOn(h, r)
  <2>1. ASSUME NEW b \in Browsers, NEW e \in Emails, NEW w \in Passwords,
               NEW P \in Consents, SignupSelect(h, b, e, w, P)
        PROVE  \E r \in Request : Sound(r) /\ GoOn(h, r)
    <3> DEFINE r == [Idle EXCEPT !.at = "SIGNUP_INSERT", !.browser = b, !.email = e,
                                 !.password = w, !.purposes = P]
    <3>1. r \in Request
      BY AccountsAssumption DEF Idle, Request
    <3>2. Sound(r)
      BY DEF Idle, Sound, Signing
    <3>3. GoOn(h, r)
      BY <2>1 DEF SignupSelect
    <3> QED
      BY <3>1, <3>2, <3>3
  <2>2. ASSUME NEW b \in Browsers, NEW e \in Emails, NEW w \in Passwords,
               LoginUser(h, b, e, w)
        PROVE  \E r \in Request : Sound(r) /\ GoOn(h, r)
    <3>0. PICK u \in Accounts :
            GoOn(h, [Idle EXCEPT !.at = "LOGIN_CREDENTIALS", !.browser = b,
                                 !.found = u, !.email = e, !.password = w])
      BY <2>2 DEF LoginUser
    <3> DEFINE r == [Idle EXCEPT !.at = "LOGIN_CREDENTIALS", !.browser = b,
                                 !.found = u, !.email = e, !.password = w]
    <3>1. r \in Request
      BY DEF Idle, Request
    <3>2. Sound(r)
      BY DEF Idle, Sound, Signing
    <3> QED
      BY <3>0, <3>1, <3>2
  <2>3. ASSUME NEW u \in Accounts, NEW p \in Purposes, WithdrawSelect(h, u, p)
        PROVE  \E r \in Request : Sound(r) /\ GoOn(h, r)
    <3> DEFINE r == [Idle EXCEPT !.at = "WITHDRAW_UPDATE", !.account = u,
                                 !.purposes = users[u].purposes \ {p}, !.named = {p}]
    <3>0. users[u].purposes \ {p} \in SUBSET Purposes /\ {p} \in SUBSET Purposes
      BY DEF AccountsInv, AccountsTypeOK, User
    <3>1. r \in Request
      BY <3>0 DEF Idle, Request
    <3>2. Sound(r)
      BY <2>3 DEF Idle, Sound, Signing, WithdrawSelect
    <3>3. GoOn(h, r)
      BY <2>3 DEF WithdrawSelect
    <3> QED
      BY <3>1, <3>2, <3>3
  <2> QED
    BY <2>1, <2>2, <2>3
<1>3. AccountsTypeOK'
  BY <1>1, <1>2, QuietStep, SamePages DEF AccountsInv, AccountsTypeOK
<1> QED
  BY <1>1, <1>2, <1>3, QuietStep, SamePages DEF AccountsInv

(* The address that a signup looks up belongs to its own account, or to       *)
(* nobody: another has it only if the own one was erased.                     *)
LEMMA SignupFindsItsAccount ==
  ASSUME AccountsInv, NEW h \in Handlers, request[h].at = "SIGNUP_USER",
         NEW u \in Accounts, users[u].email = request[h].email
  PROVE  u = request[h].account \/ Erased(request[h].account)
<1>1. Sound(request[h])
  BY DEF AccountsInv, RequestsAreSound
<1>2. /\ request[h].email \in Emails /\ request[h].account \in Accounts
      /\ \/ users[request[h].account].email = request[h].email
         \/ Erased(request[h].account)
  BY <1>1 DEF Sound, Signing
<1> QED
  BY <1>2 DEF AccountsInv, EmailsAreUnique

LEMMA SignupUserKeepsAccountsInv ==
  ASSUME AccountsInv, NEW h \in Handlers, SignupUser(h)
  PROVE  AccountsInv'
<1>0. /\ request[h].at = "SIGNUP_USER" /\ ~Unfinished(h) /\ Sound(request[h])
      /\ request[h] \in Request
      /\ UNCHANGED <<users, credentials, sessions, lastToken, cutShort, withdrawn, overtaken>>
  BY DEF SignupUser, Unfinished, AccountsInv, RequestsAreSound, AccountsTypeOK
<1>1. PICK r \in Request : Sound(r) /\ GoOn(h, r)
  <2>1. CASE Done(h)
    BY <2>1, IdleTyped DEF Done, GoOn
  <2>2. ASSUME NEW u \in Accounts, users[u].email = request[h].email,
               GoOn(h, [request[h] EXCEPT !.at = "SIGNUP_CREDENTIALS", !.found = u])
        PROVE  \E r \in Request : Sound(r) /\ GoOn(h, r)
    <3> DEFINE r == [request[h] EXCEPT !.at = "SIGNUP_CREDENTIALS", !.found = u]
    <3>1. r \in Request
      BY <1>0 DEF Request
    <3>2. /\ r.at = "SIGNUP_CREDENTIALS" /\ r.found = u /\ r.email = request[h].email
          /\ r.password = request[h].password /\ r.account = request[h].account
      BY <1>0 DEF Request
    <3>3. u = request[h].account \/ Erased(request[h].account)
      BY <1>0, <2>2, SignupFindsItsAccount
    <3>4. GoOn(h, r)
      BY <2>2
    <3> HIDE DEF r
    <3>5. Sound(r)
      BY <1>0, <3>2, <3>3 DEF Sound, Signing
    <3> QED
      BY <3>1, <3>4, <3>5
  <2> QED
    BY <2>1, <2>2 DEF SignupUser
<1>2. /\ page' \in [Browsers -> Page]
      /\ \A c \in Browsers : page'[c].saved = page[c].saved /\ page'[c].token = page[c].token
  <2>1. request[h].account \in Accounts
    BY <1>0 DEF Sound, Signing
  <2>2. CASE UNCHANGED page
    BY <2>2 DEF AccountsInv, AccountsTypeOK
  <2> QED
    BY <2>1, <2>2, AnswerWithout DEF SignupUser, AccountsInv
<1>3. AccountsTypeOK'
  BY <1>0, <1>1, <1>2, QuietStep DEF AccountsInv, AccountsTypeOK
<1>4. TokensAreDrawn' /\ SessionOfOwner'
  BY <1>0, <1>2 DEF AccountsInv, TokensAreDrawn, SessionOfOwner, Erased
<1> QED
  BY <1>0, <1>1, <1>3, <1>4, QuietStep DEF AccountsInv

LEMMA LoginCredentialsKeepsAccountsInv ==
  ASSUME AccountsInv, NEW h \in Handlers, LoginCredentials(h)
  PROVE  AccountsInv'
<1> DEFINE n == Named(h)
           f == request[h].found
<1>0. /\ request[h].at \in {"SIGNUP_CREDENTIALS", "LOGIN_CREDENTIALS"}
      /\ ~Unfinished(h) /\ Sound(request[h]) /\ Idle \in Request /\ Sound(Idle) /\ GoOn(h, Idle)
      /\ UNCHANGED <<users, credentials, cutShort, withdrawn, overtaken>>
  BY IdleTyped DEF LoginCredentials, Unfinished, AccountsInv, RequestsAreSound, Done, GoOn
<1>1. n \in Accounts /\ f \in Accounts /\ (f = n \/ Erased(n))
  BY <1>0 DEF Named, Sound, Signing
<1>2. CASE UNCHANGED <<sessions, lastToken>> /\ (UNCHANGED page \/ Answered(request[h].browser, n, 0))
  <2>1. /\ page' \in [Browsers -> Page]
        /\ \A c \in Browsers : page'[c].saved = page[c].saved /\ page'[c].token = page[c].token
    BY <1>1, <1>2, AnswerWithout DEF AccountsInv, AccountsTypeOK
  <2>2. AccountsTypeOK'
    BY <1>0, <1>2, <2>1, QuietStep DEF AccountsInv, AccountsTypeOK
  <2>3. TokensAreDrawn' /\ SessionOfOwner'
    BY <1>0, <1>2, <2>1 DEF AccountsInv, TokensAreDrawn, SessionOfOwner, Erased
  <2> QED
    BY <1>0, <2>2, <2>3, QuietStep DEF AccountsInv
<1>3. CASE /\ lastToken < MaxTokens /\ lastToken' = lastToken + 1
           /\ sessions' = [sessions EXCEPT ![lastToken + 1] = f]
           /\ Answered(request[h].browser, n, lastToken + 1)
  <2>0. /\ lastToken \in Nat /\ lastToken + 1 \in Tokens /\ lastToken' \in 0..MaxTokens
    BY <1>3, AccountsAssumption DEF Tokens, AccountsInv, AccountsTypeOK
  <2>1. /\ page' \in [Browsers -> Page]
        /\ \A c \in Browsers : \/ page'[c] = page[c]
                               \/ page'[c].saved = n /\ page'[c].token = lastToken + 1
    <3>1. AccountsTypeOK
      BY DEF AccountsInv
    <3>2. n \in Accounts /\ Answered(request[h].browser, n, lastToken + 1)
      BY <1>1, <1>3
    <3>3. page \in [Browsers -> Page] /\ lastToken + 1 \in Tokens
      BY <2>0, <3>1 DEF AccountsTypeOK
    <3> DEFINE t == lastToken + 1
               b == request[h].browser
    <3>4. t \in Tokens /\ Answered(b, n, t)
      BY <3>2, <3>3
    <3>5. n \in Accounts
      BY <3>2
    <3> HIDE DEF n, t, b
    <3>6. /\ page' \in [Browsers -> Page]
          /\ \A c \in Browsers : page'[c] = page[c] \/ (page'[c].saved = n /\ page'[c].token = t)
      BY <3>1, <3>4, <3>5, AnswerWith
    <3> QED
      BY <3>6 DEF t
  <2>2. /\ sessions' \in [Tokens -> Accounts \cup {"none"}]
        /\ sessions'[lastToken + 1] = f
        /\ \A t \in Tokens : t # lastToken + 1 => sessions'[t] = sessions[t]
    BY <1>1, <1>3, <2>0 DEF AccountsInv, AccountsTypeOK
  <2>3. AccountsTypeOK'
    BY <1>0, <2>0, <2>1, <2>2, QuietStep DEF AccountsInv, AccountsTypeOK
  <2>4. TokensAreDrawn'
    <3>1. \A t \in Tokens : t > lastToken + 1 => t > lastToken /\ t # lastToken + 1
      BY <2>0 DEF Tokens
    <3>2. \A b \in Browsers : page[b].token \in Nat
      BY DEF AccountsInv, AccountsTypeOK, Page, Tokens
    <3> QED
      BY <1>1, <1>3, <2>0, <2>1, <2>2, <3>1, <3>2 DEF AccountsInv, TokensAreDrawn
  <2>5. SessionOfOwner'
    <3> SUFFICES ASSUME NEW b \in Browsers, page'[b].token # 0,
                        sessions'[page'[b].token] # "none"
                 PROVE  sessions'[page'[b].token] = page'[b].saved 
                          \/ users'[page'[b].saved].email = page'[b].saved
      BY DEF SessionOfOwner, Erased
    <3>1. CASE page'[b].saved = n /\ page'[b].token = lastToken + 1
      BY <1>0, <1>1, <2>2, <3>1 DEF Erased
    <3>2. CASE page'[b] = page[b]
      <4>1. page[b].token \in Tokens /\ page[b].token <= lastToken
        BY <3>2 DEF AccountsInv, AccountsTypeOK, Page, TokensAreDrawn
      <4>2. page[b].token # lastToken + 1
        BY <2>0, <4>1 DEF Tokens
      <4>3. sessions'[page[b].token] = sessions[page[b].token]
        BY <2>2, <4>1, <4>2
      <4> QED
        BY <1>0, <3>2, <4>3 DEF AccountsInv, SessionOfOwner, Erased
    <3> QED
      BY <2>1, <3>1, <3>2
  <2> QED
    BY <1>0, <2>3, <2>4, <2>5, QuietStep DEF AccountsInv
<1> QED
  BY <1>2, <1>3 DEF LoginCredentials, Named, AccountsInv

(* Requests that keep what soundness is about stay sound. *)
LEMMA RequestsAlike ==
  ASSUME AccountsInv, UNCHANGED users,
         \A h \in Handlers :
           /\ request'[h].at = request[h].at /\ request'[h].account = request[h].account
           /\ request'[h].email = request[h].email /\ request'[h].found = request[h].found
           /\ request'[h].password = request[h].password
           /\ request'[h].purposes = request[h].purposes
           /\ request'[h].named = request[h].named /\ request'[h].late = request[h].late
  PROVE  RequestsAreSound'
<1> SUFFICES ASSUME NEW h \in Handlers PROVE Sound(request[h])'
  BY DEF RequestsAreSound
<1>1. Sound(request[h])
  BY DEF AccountsInv, RequestsAreSound
<1>2. Sound(request'[h])
  BY <1>1 DEF Sound
<1> QED
  BY <1>2 DEF Sound, Erased, Exists

(* A page is left or reloaded. *)
LEMMA LeavingKeepsAccountsInv ==
  ASSUME AccountsInv, NEW b \in Browsers, LogoutCustomer(b) \/ CheckExistingSession(b)
  PROVE  AccountsInv'
<1>0. /\ UNCHANGED <<users, credentials, sessions, lastToken, cutShort, withdrawn, overtaken>>
      /\ Leave(b)
  BY DEF LogoutCustomer, CheckExistingSession
<1>1. /\ request' \in [Handlers -> Request]
      /\ \A h \in Handlers :
           /\ request'[h].at = request[h].at /\ request'[h].account = request[h].account
           /\ request'[h].email = request[h].email /\ request'[h].found = request[h].found
           /\ request'[h].password = request[h].password
           /\ request'[h].purposes = request[h].purposes
           /\ request'[h].named = request[h].named /\ request'[h].late = request[h].late
  <2>1. \A r \in Request : LET q == [r EXCEPT !.browser = "none"] IN
          /\ q \in Request /\ q.at = r.at /\ q.account = r.account /\ q.email = r.email
          /\ q.found = r.found /\ q.password = r.password /\ q.purposes = r.purposes
          /\ q.named = r.named /\ q.late = r.late
    BY DEF Request
  <2>2. \A h \in Handlers : request[h] \in Request
    BY DEF AccountsInv, AccountsTypeOK
  <2> QED
    BY <1>0, <2>1, <2>2 DEF Leave
<1>2. /\ page' \in [Browsers -> Page]
      /\ \A c \in Browsers : \/ page'[c].saved = page[c].saved /\ page'[c].token = page[c].token
                             \/ page'[c].token = 0
  <2>0. page \in [Browsers -> Page] /\ page[b] \in Page
    BY DEF AccountsInv, AccountsTypeOK
  <2>1. CASE LogoutCustomer(b)
    <3>1. SignedOut \in Page /\ SignedOut.token = 0
      BY DEF SignedOut, Page
    <3> QED
      BY <2>0, <2>1, <3>1 DEF LogoutCustomer
  <2>2. CASE CheckExistingSession(b)
    <3> DEFINE new == [page[b] EXCEPT !.shown = page[b].saved]
    <3>1. new \in Page /\ new.saved = page[b].saved /\ new.token = page[b].token
      BY <2>0 DEF Page
    <3>2. page' = [page EXCEPT ![b] = new]
      BY <2>2 DEF CheckExistingSession
    <3> HIDE DEF new
    <3> QED
      BY <2>0, <3>1, <3>2
  <2> QED
    BY <2>1, <2>2
<1>3. AccountsTypeOK'
  BY <1>0, <1>1, <1>2 DEF AccountsInv, AccountsTypeOK
<1>4. RequestsAreSound'
  BY <1>0, <1>1, RequestsAlike
<1>5. EmailsAreUnique' /\ NothingWithdrawnBefore' /\ WithdrawnStaysWithdrawn'
  BY <1>0 DEF AccountsInv, EmailsAreUnique, NothingWithdrawnBefore, WithdrawnStaysWithdrawn, Exists
<1>6. NobodyIsLockedOut'
  BY <1>0, <1>1 DEF AccountsInv, NobodyIsLockedOut, Unfinished, Exists
<1>7. TokensAreDrawn'
  <2>1. lastToken \in Nat
    BY DEF AccountsInv, AccountsTypeOK
  <2> QED
    BY <1>0, <1>2, <2>1 DEF AccountsInv, TokensAreDrawn
<1>8. SessionOfOwner'
  BY <1>0, <1>2 DEF AccountsInv, SessionOfOwner, Erased
<1> QED
  BY <1>3, <1>4, <1>5, <1>6, <1>7, <1>8 DEF AccountsInv

LEMMA VerifySessionKeepsAccountsInv ==
  ASSUME AccountsInv, NEW t \in Tokens, VerifySession(t)
  PROVE  AccountsInv'
<1>0. /\ UNCHANGED <<users, credentials, lastToken, request, page, cutShort, withdrawn, overtaken>>
      /\ sessions' \in [Tokens -> Accounts \cup {"none"}]
      /\ \A q \in Tokens : sessions'[q] = sessions[q] \/ sessions'[q] = "none"
  BY DEF VerifySession, AccountsInv, AccountsTypeOK
<1>1. AccountsTypeOK'
  BY <1>0 DEF AccountsInv, AccountsTypeOK
<1>2. RequestsAreSound'
  BY <1>0, RequestsAlike
<1>3. EmailsAreUnique' /\ NothingWithdrawnBefore' /\ WithdrawnStaysWithdrawn' /\ NobodyIsLockedOut'
  BY <1>0 DEF AccountsInv, EmailsAreUnique, NothingWithdrawnBefore, WithdrawnStaysWithdrawn,
              NobodyIsLockedOut, Unfinished, Exists
<1>4. TokensAreDrawn'
  BY <1>0 DEF AccountsInv, TokensAreDrawn
<1>5. SessionOfOwner'
  <2>1. \A b \in Browsers : page[b].token # 0 => page[b].token \in Tokens
    BY DEF AccountsInv, AccountsTypeOK, Page
  <2> QED
    BY <1>0, <2>1 DEF AccountsInv, SessionOfOwner, Erased
<1> QED
  BY <1>1, <1>2, <1>3, <1>4, <1>5 DEF AccountsInv

(* A failure or a stop leaves the signups it cuts short to history. *)
LEMMA FailuresKeepAccountsInv ==
  ASSUME AccountsInv, (\E h \in Handlers : StatementFails(h)) \/ AccountsCrash
  PROVE  AccountsInv'
<1>a. \A h \in Handlers : Unfinished(h) => request[h].account \in Accounts
  BY DEF AccountsInv, RequestsAreSound, Sound, Signing, Unfinished
<1>b. /\ UNCHANGED <<users, credentials, lastToken, page, withdrawn, overtaken>>
      /\ sessions' \in [Tokens -> Accounts \cup {"none"}]
      /\ \A q \in Tokens : sessions'[q] = sessions[q] \/ sessions'[q] = "none"
  <2>1. CASE \E h \in Handlers : StatementFails(h)
    BY <2>1 DEF StatementFails, AccountsInv, AccountsTypeOK
  <2>2. CASE AccountsCrash
    BY <2>2 DEF AccountsCrash
  <2> QED
    BY <2>1, <2>2
<1>c. /\ request' \in [Handlers -> Request]
      /\ \A h \in Handlers : request'[h] = request[h] \/ request'[h] = Idle
  <2>1. CASE \E h \in Handlers : StatementFails(h)
    BY <2>1, IdleTyped DEF StatementFails, Done, AccountsInv, AccountsTypeOK
  <2>2. CASE AccountsCrash
    BY <2>2, IdleTyped DEF AccountsCrash
  <2> QED
    BY <2>1, <2>2
<1>d. /\ cutShort' \subseteq Accounts /\ cutShort \subseteq cutShort'
      /\ \A h \in Handlers : Unfinished(h) =>
           request'[h] = request[h] \/ request[h].account \in cutShort'
  <2>0. cutShort \subseteq Accounts
    BY DEF AccountsInv, AccountsTypeOK
  <2>1. CASE \E h \in Handlers : StatementFails(h)
    <3>1. PICK h \in Handlers : StatementFails(h)
      BY <2>1
    <3>2. cutShort' = cutShort \cup (IF Unfinished(h) THEN {request[h].account} ELSE {})
      BY <3>1 DEF StatementFails
    <3>3. \A g \in Handlers \ {h} : request'[g] = request[g]
      BY <3>1 DEF StatementFails, Done, AccountsInv, AccountsTypeOK
    <3> QED
      BY <1>a, <2>0, <3>2, <3>3
  <2>2. CASE AccountsCrash
    <3>1. cutShort' = cutShort \cup {request[h].account : h \in {g \in Handlers : Unfinished(g)}}
      BY <2>2 DEF AccountsCrash
    <3>2. \A h \in Handlers : Unfinished(h) => request[h].account \in cutShort'
      BY <3>1
    <3>3. cutShort' \subseteq Accounts
      BY <1>a, <2>0, <3>1
    <3> QED
      BY <3>1, <3>2, <3>3
  <2> QED
    BY <2>1, <2>2
<1>1. AccountsTypeOK'
  BY <1>b, <1>c, <1>d DEF AccountsInv, AccountsTypeOK
<1>2. RequestsAreSound'
  <2> SUFFICES ASSUME NEW h \in Handlers PROVE Sound(request[h])'
    BY DEF RequestsAreSound
  <2>1. Sound(request'[h])
    BY <1>c, IdleTyped DEF AccountsInv, RequestsAreSound
  <2> QED
    BY <1>b, <2>1 DEF Sound, Erased, Exists
<1>3. EmailsAreUnique' /\ NothingWithdrawnBefore' /\ WithdrawnStaysWithdrawn'
  BY <1>b DEF AccountsInv, EmailsAreUnique, NothingWithdrawnBefore, WithdrawnStaysWithdrawn, Exists
<1>4. NobodyIsLockedOut'
  BY <1>b, <1>d DEF AccountsInv, NobodyIsLockedOut, Unfinished, Exists
<1>5. TokensAreDrawn'
  BY <1>b DEF AccountsInv, TokensAreDrawn
<1>6. SessionOfOwner'
  <2>1. \A b \in Browsers : page[b].token # 0 => page[b].token \in Tokens
    BY DEF AccountsInv, AccountsTypeOK, Page
  <2> QED
    BY <1>b, <2>1 DEF AccountsInv, SessionOfOwner, Erased
<1> QED
  BY <1>1, <1>2, <1>3, <1>4, <1>5, <1>6 DEF AccountsInv

(* The password is that of the account whose row the handler inserted. *)
LEMMA SetPasswordKeepsAccountsInv ==
  ASSUME AccountsInv, NEW h \in Handlers, SetPassword(h)
  PROVE  AccountsInv'
<1> DEFINE r == [request[h] EXCEPT !.at = "SIGNUP_USER"]
           u == request[h].account
<1>0. /\ request[h].at = "SIGNUP_PASSWORD" /\ Sound(request[h]) /\ request[h] \in Request
      /\ UNCHANGED <<users, sessions, lastToken, page, cutShort, withdrawn, overtaken>>
      /\ credentials' = [credentials EXCEPT ![u] = request[h].password]
      /\ request' = [request EXCEPT ![h] = r]
  BY DEF SetPassword, GoOn, AccountsInv, AccountsTypeOK, RequestsAreSound
<1>1. /\ r \in Request /\ r.at = "SIGNUP_USER" /\ r.account = u /\ r.email = request[h].email
      /\ r.password = request[h].password
  BY <1>0 DEF Request
<1>2. u \in Accounts /\ request[h].password \in Passwords
  BY <1>0 DEF Sound, Signing
<1> HIDE DEF r
<1>3. /\ request' \in [Handlers -> Request] /\ request'[h] = r
      /\ \A g \in Handlers \ {h} : request'[g] = request[g]
      /\ credentials' \in [Accounts -> Passwords \cup {"none"}]
      /\ credentials'[u] = request[h].password
      /\ \A v \in Accounts \ {u} : credentials'[v] = credentials[v]
  BY <1>0, <1>1, <1>2 DEF AccountsInv, AccountsTypeOK
<1>4. AccountsTypeOK'
  BY <1>0, <1>3 DEF AccountsInv, AccountsTypeOK
<1>5. RequestsAreSound'
  <2> SUFFICES ASSUME NEW g \in Handlers PROVE Sound(request[g])'
    BY DEF RequestsAreSound
  <2>1. Sound(r)
    BY <1>0, <1>1 DEF Sound, Signing
  <2>2. Sound(request'[g])
    BY <1>3, <2>1 DEF AccountsInv, RequestsAreSound
  <2> QED
    BY <1>0, <2>2 DEF Sound, Erased, Exists
<1>6. NobodyIsLockedOut'
  <2> SUFFICES ASSUME NEW v \in Accounts, Exists(v)', credentials'[v] = "none"
               PROVE  \/ v \in cutShort'
                      \/ \E g \in Handlers : Unfinished(g)' /\ request'[g].account = v
    BY DEF NobodyIsLockedOut
  <2>1. v # u
    BY <1>2, <1>3, AccountsAssumption
  <2>2. Exists(v) /\ credentials[v] = "none"
    BY <1>0, <1>3, <2>1 DEF Exists
  <2> QED
    BY <1>0, <1>3, <2>1, <2>2 DEF AccountsInv, NobodyIsLockedOut, Unfinished
<1>7. EmailsAreUnique' /\ NothingWithdrawnBefore' /\ WithdrawnStaysWithdrawn'
  BY <1>0 DEF AccountsInv, EmailsAreUnique, NothingWithdrawnBefore, WithdrawnStaysWithdrawn, Exists
<1> QED
  BY <1>0, <1>4, <1>5, <1>6, <1>7, SamePages DEF AccountsInv
-----------------------------------------------------------------------------
(* Steps that write a row.                                                 *)

(* The row of a signup is new: nobody held its id and nobody its address. *)
LEMMA SignupInsertKeepsAccountsInv ==
  ASSUME AccountsInv, NEW h \in Handlers, SignupInsert(h)
  PROVE  AccountsInv'
<1> DEFINE e == request[h].email
<1>0. /\ request[h].at = "SIGNUP_INSERT" /\ ~Unfinished(h) /\ Sound(request[h])
      /\ request[h] \in Request
      /\ UNCHANGED <<credentials, sessions, lastToken, page, cutShort, withdrawn, overtaken>>
  BY DEF SignupInsert, Unfinished, AccountsInv, RequestsAreSound, AccountsTypeOK
<1>1. CASE Done(h) /\ UNCHANGED users
  <2>1. GoOn(h, Idle)
    BY <1>1 DEF Done, GoOn
  <2>2. AccountsTypeOK'
    BY <1>0, <1>1, <2>1, IdleTyped, QuietStep DEF AccountsInv, AccountsTypeOK
  <2> QED
    BY <1>0, <1>1, <2>1, <2>2, IdleTyped, QuietStep, SamePages DEF AccountsInv
<1>2. ASSUME NEW u \in Accounts, ~Used(e), ~Exists(u),
             users' = [users EXCEPT ![u] = [email |-> e, purposes |-> request[h].purposes]],
             GoOn(h, [request[h] EXCEPT !.at = "SIGNUP_PASSWORD", !.account = u])
      PROVE  AccountsInv'
  <2> DEFINE r == [request[h] EXCEPT !.at = "SIGNUP_PASSWORD", !.account = u]
  <2>1. /\ r \in Request /\ r.at = "SIGNUP_PASSWORD" /\ r.account = u /\ r.email = e
        /\ r.password = request[h].password
    BY <1>0 DEF Request
  <2>2. e \in Emails /\ request[h].password \in Passwords
    BY <1>0 DEF Sound
  <2>3. [email |-> e, purposes |-> request[h].purposes] \in User
    BY <1>0, <2>2 DEF User, Request
  <2>4. /\ users' \in [Accounts -> User] /\ users'[u].email = e
        /\ \A v \in Accounts \ {u} : users'[v] = users[v]
    BY <1>2, <2>3 DEF AccountsInv, AccountsTypeOK
  <2>5. GoOn(h, r)
    BY <1>2
  <2> HIDE DEF r
  <2>6. /\ request' \in [Handlers -> Request] /\ request'[h] = r
        /\ \A g \in Handlers \ {h} : request'[g] = request[g]
    BY <2>1, <2>5 DEF GoOn, AccountsInv, AccountsTypeOK
  <2>7. \A v \in Accounts : Erased(v) => v # u /\ Erased(v)'
    BY <1>2, <2>4, AccountsAssumption DEF Erased, Exists
  <2>8. \A v \in Accounts : users[v].email \in Emails => v # u
    BY <1>2, AccountsAssumption DEF Exists
  <2>9. AccountsTypeOK'
    BY <1>0, <2>4, <2>6 DEF AccountsInv, AccountsTypeOK
  <2>10. RequestsAreSound'
    <3> SUFFICES ASSUME NEW g \in Handlers PROVE Sound(request[g])'
      BY DEF RequestsAreSound
    <3>1. CASE g = h
      BY <2>1, <2>2, <2>4, <2>6, <3>1 DEF Sound, Signing
    <3>2. CASE g # h
      <4>1. Sound(request[g]) /\ request'[g] = request[g]
        BY <2>6, <3>2 DEF AccountsInv, RequestsAreSound
      <4> QED
        BY <1>2, <2>4, <2>7, <2>8, <4>1 DEF Sound, Signing, Exists
    <3> QED
      BY <3>1, <3>2
  <2>11. EmailsAreUnique'
    BY <1>2, <2>4 DEF AccountsInv, EmailsAreUnique, Used
  <2>12. NothingWithdrawnBefore'
    BY <1>0, <2>2, <2>4, AccountsAssumption DEF AccountsInv, NothingWithdrawnBefore, Exists
  <2>13. NobodyIsLockedOut'
    <3> SUFFICES ASSUME NEW v \in Accounts, Exists(v)', credentials'[v] = "none"
                 PROVE  \/ v \in cutShort'
                        \/ \E g \in Handlers : Unfinished(g)' /\ request'[g].account = v
      BY DEF NobodyIsLockedOut
    <3>1. CASE v = u
      BY <2>1, <2>6, <3>1 DEF Unfinished
    <3>2. CASE v # u
      BY <1>0, <2>4, <2>6, <3>2 DEF AccountsInv, NobodyIsLockedOut, Unfinished, Exists
    <3> QED
      BY <3>1, <3>2
  <2>14. WithdrawnStaysWithdrawn'
    <3>1. withdrawn[u] = {}
      BY <1>2 DEF AccountsInv, NothingWithdrawnBefore
    <3> QED
      BY <1>0, <2>4, <3>1 DEF AccountsInv, WithdrawnStaysWithdrawn
  <2>15. TokensAreDrawn'
    BY <1>0 DEF AccountsInv, TokensAreDrawn
  <2>16. SessionOfOwner'
    BY <1>0, <2>7 DEF AccountsInv, SessionOfOwner, TokensAreDrawn
  <2> QED
    BY <2>9, <2>10, <2>11, <2>12, <2>13, <2>14, <2>15, <2>16 DEF AccountsInv
<1> QED
  BY <1>1, <1>2 DEF SignupInsert

(* Marking withdrawals late changes nothing else. *)
Marks(u, q, r) ==
  /\ q.at = r.at /\ q.account = r.account /\ q.email = r.email /\ q.found = r.found
  /\ q.password = r.password /\ q.purposes = r.purposes /\ q.named = r.named
  /\ IF r.at = "WITHDRAW_UPDATE" /\ r.account = u THEN q.late = TRUE ELSE q.late = r.late

LEMMA OvertakingMarks ==
  ASSUME NEW u, NEW r \in [Handlers -> Request]
  PROVE  /\ Overtaking(u, r) \in [Handlers -> Request]
         /\ \A g \in Handlers : Marks(u, Overtaking(u, r)[g], r[g])
<1>1. \A x \in Request : LET q == [x EXCEPT !.late = TRUE] IN
        /\ q \in Request /\ q.at = x.at /\ q.account = x.account /\ q.email = x.email
        /\ q.found = x.found /\ q.password = x.password /\ q.purposes = x.purposes
        /\ q.named = x.named /\ q.late = TRUE
  BY DEF Request
<1>2. \A g \in Handlers : Overtaking(u, r)[g] =
        IF r[g].at = "WITHDRAW_UPDATE" /\ r[g].account = u
        THEN [r[g] EXCEPT !.late = TRUE] ELSE r[g]
  BY DEF Overtaking
<1>3. Overtaking(u, r) \in [Handlers -> Request]
  BY <1>1 DEF Overtaking
<1>4. ASSUME NEW g \in Handlers PROVE Marks(u, Overtaking(u, r)[g], r[g])
  <2> DEFINE x == r[g]
  <2>1. x \in Request
    OBVIOUS
  <2>2. CASE x.at = "WITHDRAW_UPDATE" /\ x.account = u
    <3> DEFINE q == [x EXCEPT !.late = TRUE]
    <3>1. /\ q.at = x.at /\ q.account = x.account /\ q.email = x.email
          /\ q.found = x.found /\ q.password = x.password /\ q.purposes = x.purposes
          /\ q.named = x.named /\ q.late = TRUE
      BY <1>1, <2>1
    <3>2. Overtaking(u, r)[g] = q
      BY <1>2, <2>2
    <3> HIDE DEF q, x
    <3>3. Marks(u, q, x)
      BY <2>2, <3>1 DEF Marks
    <3> QED
      BY <3>2, <3>3 DEF x
  <2>3. CASE ~(x.at = "WITHDRAW_UPDATE" /\ x.account = u)
    <3>1. Overtaking(u, r)[g] = x
      BY <1>2, <2>3
    <3> HIDE DEF x
    <3>2. Marks(u, x, x)
      BY <2>3 DEF Marks
    <3> QED
      BY <3>1, <3>2 DEF x
  <2> QED
    BY <2>2, <2>3
<1> QED
  BY <1>3, <1>4

(* A withdrawal that nobody overtook writes what is left of the row; the     *)
(* others that have read the row are late from now.                          *)
LEMMA WithdrawUpdateKeepsAccountsInv ==
  ASSUME AccountsInv, NEW h \in Handlers, WithdrawUpdate(h)
  PROVE  AccountsInv'
<1> DEFINE r == request[h]
           u == request[h].account
           idle == [request EXCEPT ![h] = Idle]
<1>0. /\ r.at = "WITHDRAW_UPDATE" /\ r \in Request /\ Sound(r)
      /\ users' = [users EXCEPT ![u].purposes = r.purposes]
      /\ withdrawn' = [withdrawn EXCEPT ![u] = @ \cup r.named]
      /\ overtaken' = IF r.late THEN overtaken \cup {u} ELSE overtaken
      /\ request' = Overtaking(u, idle)
      /\ UNCHANGED <<credentials, sessions, lastToken, page, cutShort>>
  BY DEF WithdrawUpdate, AccountsInv, AccountsTypeOK, RequestsAreSound
<1>1. /\ u \in Accounts /\ Exists(u)
      /\ r.late \/ r.purposes = users[u].purposes \ r.named
      /\ r.purposes \subseteq Purposes /\ r.named \subseteq Purposes
  BY <1>0 DEF Sound, Request
<1>2. /\ users' \in [Accounts -> User] /\ users'[u].purposes = r.purposes
      /\ \A v \in Accounts : users'[v].email = users[v].email
      /\ \A v \in Accounts \ {u} : users'[v] = users[v]
  <2> DEFINE new == [users[u] EXCEPT !.purposes = r.purposes]
  <2>1. new \in User /\ new.email = users[u].email /\ new.purposes = r.purposes
    BY <1>1 DEF User, AccountsInv, AccountsTypeOK
  <2>2. users' = [users EXCEPT ![u] = new]
    BY <1>0
  <2> HIDE DEF new
  <2> QED
    BY <1>1, <2>1, <2>2 DEF AccountsInv, AccountsTypeOK
<1>3. /\ withdrawn' \in [Accounts -> SUBSET Purposes]
      /\ withdrawn'[u] = withdrawn[u] \cup r.named
      /\ \A v \in Accounts \ {u} : withdrawn'[v] = withdrawn[v]
      /\ overtaken' \subseteq Accounts /\ overtaken \subseteq overtaken'
  BY <1>0, <1>1 DEF AccountsInv, AccountsTypeOK
<1>4. /\ idle \in [Handlers -> Request] /\ idle[h] = Idle
      /\ \A g \in Handlers \ {h} : idle[g] = request[g]
  BY IdleTyped DEF AccountsInv, AccountsTypeOK
<1> HIDE DEF idle
<1>m. /\ request' \in [Handlers -> Request]
      /\ \A g \in Handlers : Marks(u, request'[g], idle[g])
  BY <1>0, <1>4, OvertakingMarks
<1>5. AccountsTypeOK'
  BY <1>0, <1>2, <1>3, <1>m DEF AccountsInv, AccountsTypeOK
<1>6. RequestsAreSound'
  <2> SUFFICES ASSUME NEW g \in Handlers PROVE Sound(request[g])'
    BY DEF RequestsAreSound
  <2> DEFINE q == request'[g]
  <2>1. Sound(idle[g])
    BY <1>4, IdleTyped DEF AccountsInv, RequestsAreSound
  <2>2. Marks(u, q, idle[g])
    BY <1>m
  <2> HIDE DEF q
  <2>3. /\ q.at \in {"SIGNUP_INSERT"} \cup Signing => q.email \in Emails /\ q.password \in Passwords
        /\ q.at \in Signing => q.account \in Accounts
             /\ (users'[q.account].email = q.email \/ users'[q.account].email = q.account)
        /\ q.at \in {"SIGNUP_CREDENTIALS", "LOGIN_CREDENTIALS"} => q.found \in Accounts
        /\ q.at = "SIGNUP_CREDENTIALS" => q.found = q.account \/ users'[q.account].email = q.account
    BY <1>2, <2>1, <2>2 DEF Sound, Signing, Erased, Marks
  <2>4. q.at = "WITHDRAW_UPDATE" =>
          /\ q.account \in Accounts /\ users'[q.account].email # "none"
          /\ q.late \/ q.purposes = users'[q.account].purposes \ q.named
    <3>1. q.account = u => q.at # "WITHDRAW_UPDATE" \/ q.late
      BY <2>2 DEF Marks
    <3>2. q.at = "WITHDRAW_UPDATE" => q.account \in Accounts /\ users[q.account].email # "none"
      BY <2>1, <2>2 DEF Marks, Sound, Exists
    <3>3. q.at = "WITHDRAW_UPDATE" /\ q.account # u =>
            q.late \/ q.purposes = users[q.account].purposes \ q.named
      BY <2>1, <2>2 DEF Marks, Sound
    <3> QED
      BY <1>2, <3>1, <3>2, <3>3
  <2> QED
    BY <2>3, <2>4 DEF q, Sound, Erased, Exists
<1>7. EmailsAreUnique'
  BY <1>2 DEF AccountsInv, EmailsAreUnique
<1>8. NothingWithdrawnBefore'
  BY <1>1, <1>2, <1>3 DEF AccountsInv, NothingWithdrawnBefore, Exists
<1>9. NobodyIsLockedOut'
  <2>1. \A g \in Handlers : Unfinished(g) =>
          request'[g].at = request[g].at /\ request'[g].account = request[g].account
    BY <1>0, <1>4, <1>m DEF Unfinished, Marks
  <2> QED
    BY <1>0, <1>2, <2>1 DEF AccountsInv, NobodyIsLockedOut, Unfinished, Exists
<1>10. WithdrawnStaysWithdrawn'
  <2> SUFFICES ASSUME NEW v \in Accounts, users'[v].purposes \cap withdrawn'[v] # {}
               PROVE  v \in overtaken'
    BY DEF WithdrawnStaysWithdrawn
  <2>1. CASE v # u
    BY <1>2, <1>3, <2>1 DEF AccountsInv, WithdrawnStaysWithdrawn
  <2>2. CASE v = u /\ r.late
    BY <1>0, <2>2
  <2>3. CASE v = u /\ r.purposes = users[u].purposes \ r.named
    <3>1. users[u].purposes \cap withdrawn[u] # {}
      BY <1>2, <1>3, <2>3
    <3> QED
      BY <1>1, <1>3, <2>3, <3>1 DEF AccountsInv, WithdrawnStaysWithdrawn
  <2> QED
    BY <1>1, <2>1, <2>2, <2>3
<1>11. TokensAreDrawn'
  BY <1>0 DEF AccountsInv, TokensAreDrawn
<1>12. SessionOfOwner'
  BY <1>0, <1>2 DEF AccountsInv, SessionOfOwner, TokensAreDrawn, Erased
<1> QED
  BY <1>5, <1>6, <1>7, <1>8, <1>9, <1>10, <1>11, <1>12 DEF AccountsInv

(* Erasure masks the row and empties its consents. *)
LEMMA EraseKeepsAccountsInv ==
  ASSUME AccountsInv, NEW u \in Accounts, Erase(u)
  PROVE  AccountsInv'
<1>0. /\ Exists(u) /\ users' = [users EXCEPT ![u] = Masked(u)]
      /\ withdrawn' = [withdrawn EXCEPT ![u] = Purposes]
      /\ request' = Overtaking(u, request)
      /\ UNCHANGED <<credentials, sessions, lastToken, cutShort, overtaken>>
  BY DEF Erase
<1>1. /\ users' \in [Accounts -> User] /\ users'[u].email = u /\ users'[u].purposes = {}
      /\ \A v \in Accounts \ {u} : users'[v] = users[v]
  BY <1>0 DEF AccountsInv, AccountsTypeOK, Masked, User
<1>2. /\ withdrawn' \in [Accounts -> SUBSET Purposes]
      /\ \A v \in Accounts \ {u} : withdrawn'[v] = withdrawn[v]
  BY <1>0 DEF AccountsInv, AccountsTypeOK
<1>3. /\ page' \in [Browsers -> Page]
      /\ \A b \in Browsers : page'[b].token = 0 \/ page'[b] = page[b]
  <2>1. page \in [Browsers -> Page]
    BY DEF AccountsInv, AccountsTypeOK
  <2>2. \A b \in Browsers : LET new == [SignedOut EXCEPT !.shown = page[b].shown]
                           IN  new \in Page /\ new.token = 0
    BY <2>1 DEF SignedOut, Page
  <2>3. UNCHANGED page \/ \E b \in Browsers :
          page' = [page EXCEPT ![b] = [SignedOut EXCEPT !.shown = page[b].shown]]
    BY DEF Erase
  <2> QED
    BY <2>1, <2>2, <2>3
<1>m. /\ request' \in [Handlers -> Request]
      /\ \A g \in Handlers : Marks(u, request'[g], request[g])
  <2>1. request \in [Handlers -> Request]
    BY DEF AccountsInv, AccountsTypeOK
  <2> QED
    BY <1>0, <2>1, OvertakingMarks
<1>5. AccountsTypeOK'
  BY <1>0, <1>1, <1>2, <1>3, <1>m DEF AccountsInv, AccountsTypeOK
<1>6. RequestsAreSound'
  <2> SUFFICES ASSUME NEW g \in Handlers PROVE Sound(request[g])'
    BY DEF RequestsAreSound
  <2> DEFINE q == request'[g]
  <2>1. Sound(request[g])
    BY DEF AccountsInv, RequestsAreSound
  <2>2. Marks(u, q, request[g])
    BY <1>m
  <2> HIDE DEF q
  <2>3. /\ q.at \in {"SIGNUP_INSERT"} \cup Signing => q.email \in Emails /\ q.password \in Passwords
        /\ q.at \in Signing => q.account \in Accounts
             /\ (users'[q.account].email = q.email \/ users'[q.account].email = q.account)
        /\ q.at \in {"SIGNUP_CREDENTIALS", "LOGIN_CREDENTIALS"} => q.found \in Accounts
        /\ q.at = "SIGNUP_CREDENTIALS" => q.found = q.account \/ users'[q.account].email = q.account
    BY <1>1, <2>1, <2>2 DEF Marks, Sound, Signing, Erased
  <2>4. q.at = "WITHDRAW_UPDATE" =>
          /\ q.account \in Accounts /\ users'[q.account].email # "none"
          /\ q.late \/ q.purposes = users'[q.account].purposes \ q.named
    BY <1>1, <2>1, <2>2, AccountsAssumption DEF Marks, Sound, Exists
  <2> QED
    BY <2>3, <2>4 DEF q, Sound, Erased, Exists
<1>7. EmailsAreUnique'
  BY <1>1, AccountsAssumption DEF AccountsInv, EmailsAreUnique
<1>8. NothingWithdrawnBefore'
  BY <1>1, <1>2, AccountsAssumption DEF AccountsInv, NothingWithdrawnBefore, Exists
<1>9. NobodyIsLockedOut'
  <2>1. \A g \in Handlers :
          request'[g].at = request[g].at /\ request'[g].account = request[g].account
    BY <1>m DEF Marks
  <2> QED
    BY <1>0, <1>1, <2>1 DEF AccountsInv, NobodyIsLockedOut, Unfinished, Exists
<1>10. WithdrawnStaysWithdrawn'
  BY <1>0, <1>1, <1>2 DEF AccountsInv, WithdrawnStaysWithdrawn
<1>11. TokensAreDrawn'
  <2>1. lastToken \in Nat
    BY DEF AccountsInv, AccountsTypeOK
  <2> QED
    BY <1>0, <1>3, <2>1 DEF AccountsInv, TokensAreDrawn
<1>12. SessionOfOwner'
  BY <1>0, <1>1, <1>3 DEF AccountsInv, SessionOfOwner, TokensAreDrawn, Erased
<1> QED
  BY <1>5, <1>6, <1>7, <1>8, <1>9, <1>10, <1>11, <1>12 DEF AccountsInv
-----------------------------------------------------------------------------
LEMMA NextKeepsAccountsInv == AccountsInv /\ [AccountsNext]_accountsVars => AccountsInv'
<1> SUFFICES ASSUME AccountsInv, [AccountsNext]_accountsVars PROVE AccountsInv'
  OBVIOUS
<1>1. CASE \E h \in Handlers, b \in Browsers, e \in Emails, w \in Passwords, P \in Consents :
              SignupSelect(h, b, e, w, P)
  BY <1>1, SelectsKeepAccountsInv
<1>2. CASE \E h \in Handlers : SignupInsert(h)
  BY <1>2, SignupInsertKeepsAccountsInv
<1>3. CASE \E h \in Handlers : SetPassword(h)
  BY <1>3, SetPasswordKeepsAccountsInv
<1>4. CASE \E h \in Handlers : SignupUser(h)
  BY <1>4, SignupUserKeepsAccountsInv
<1>5. CASE \E h \in Handlers, b \in Browsers, e \in Emails, w \in Passwords : LoginUser(h, b, e, w)
  BY <1>5, SelectsKeepAccountsInv
<1>6. CASE \E h \in Handlers : LoginCredentials(h)
  BY <1>6, LoginCredentialsKeepsAccountsInv
<1>7. CASE \E t \in Tokens : VerifySession(t)
  BY <1>7, VerifySessionKeepsAccountsInv
<1>8. CASE \E h \in Handlers, u \in Accounts, p \in Purposes : WithdrawSelect(h, u, p)
  BY <1>8, SelectsKeepAccountsInv
<1>9. CASE \E h \in Handlers : WithdrawUpdate(h)
  BY <1>9, WithdrawUpdateKeepsAccountsInv
<1>10. CASE \E u \in Accounts : Erase(u)
  BY <1>10, EraseKeepsAccountsInv
<1>11. CASE (\E h \in Handlers : StatementFails(h)) \/ AccountsCrash
  BY <1>11, FailuresKeepAccountsInv
<1>12. CASE \E b \in Browsers : LogoutCustomer(b) \/ CheckExistingSession(b)
  BY <1>12, LeavingKeepsAccountsInv
<1>13. CASE UNCHANGED accountsVars
  <2>1. UNCHANGED <<users, credentials, sessions, lastToken, request, page,
                    cutShort, withdrawn, overtaken>>
    BY <1>13 DEF accountsVars
  <2>2. RequestsAreSound'
    BY <2>1, RequestsAlike
  <2>3. AccountsTypeOK'
    BY <2>1 DEF AccountsInv, AccountsTypeOK
  <2>4. EmailsAreUnique' /\ NothingWithdrawnBefore' /\ NobodyIsLockedOut' /\ WithdrawnStaysWithdrawn'
    BY <2>1 DEF AccountsInv, EmailsAreUnique, NothingWithdrawnBefore, NobodyIsLockedOut,
                WithdrawnStaysWithdrawn, Exists, Unfinished
  <2> QED
    BY <2>1, <2>2, <2>3, <2>4, SamePages DEF AccountsInv
<1> QED
  BY <1>1, <1>2, <1>3, <1>4, <1>5, <1>6, <1>7, <1>8, <1>9, <1>10, <1>11, <1>12, <1>13
  DEF AccountsNext, AccountsStep

LEMMA AccountsInvHolds == AccountsSpec => []AccountsInv
BY InitAccountsInv, NextKeepsAccountsInv, PTL DEF AccountsSpec

(* The tables, the handlers and the browsers hold values of their types. *)
THEOREM TypeCorrect == AccountsSpec => []AccountsTypeOK
<1>1. AccountsInv => AccountsTypeOK
  BY DEF AccountsInv
<1> QED
  BY <1>1, AccountsInvHolds, PTL

(* Only a signup that runs or was cut short leaves an account no one can use. *)
THEOREM SignupLocksNobodyOut == AccountsSpec => []NobodyIsLockedOut
<1>1. AccountsInv => NobodyIsLockedOut
  BY DEF AccountsInv
<1> QED
  BY <1>1, AccountsInvHolds, PTL

(* Only a withdrawal that wrote what it had read before another write brings  *)
(* back a purpose.                                                            *)
THEOREM ConsentComesBackOnlyByStaleWrite == AccountsSpec => []WithdrawnStaysWithdrawn
<1>1. AccountsInv => WithdrawnStaysWithdrawn
  BY DEF AccountsInv
<1> QED
  BY <1>1, AccountsInvHolds, PTL

(* A browser's token is for the account it shows, unless that was erased. *)
THEOREM TokenIsOfTheAccountShown == AccountsSpec => []SessionOfOwner
<1>1. AccountsInv => SessionOfOwner
  BY DEF AccountsInv
<1> QED
  BY <1>1, AccountsInvHolds, PTL

-----------------------------------------------------------------------------
(* The accounts in the storefront.                                         *)

LEMMA WorkloadKept ==
  workload \in Workloads /\ [Next]_vars => (workload \in Workloads)'
<1> SUFFICES ASSUME workload \in Workloads, [Next]_vars PROVE UNCHANGED workload
  OBVIOUS
<1> USE DEF bootVars, seedRest, tillRest, ordersVars
<1>1. CASE \E x \in Processes : StartSeeding(x) \/ SeedProduct(x) \/ SelectEmployees(x)
                                  \/ SeedEmployee(x) \/ SeedCredentials(x) \/ Crash(x)
  BY <1>1 DEF StartSeeding, SeedProduct, SelectEmployees, SeedEmployee, SeedCredentials,
              SeedStaff, Crash
<1>2. CASE \E b \in Browsers : Reload(b) \/ FetchCatalog(b)
  BY <1>2 DEF Reload, PageLeft, FetchCatalog
<1>3. CASE \E b \in Browsers, p \in Products : AddToCart(b, p) \/ RemoveFromCart(b, p)
  BY <1>3 DEF AddToCart, RemoveFromCart
<1>4. CASE \E b \in Browsers, t \in Tills : CheckoutCart(b, t)
  BY <1>4 DEF CheckoutCart
<1>5. CASE \E t \in Tills : (\E p \in Products : TakeItem(t, p)) \/ InsertOrder(t) \/ CheckoutFails(t)
  BY <1>5 DEF TakeItem, InsertOrder, CheckoutFails
<1>6. CASE \E p \in Products, n \in StaffStocks : UpdateStock(p, n) \/ AddProduct(p, n)
  BY <1>6 DEF UpdateStock, AddProduct, Shelve
<1>7. CASE UNCHANGED vars \/ UNCHANGED ordersVars
  BY <1>7 DEF vars
<1> QED
  BY <1>1, <1>2, <1>3, <1>4, <1>5, <1>6, <1>7 DEF Next

(* Every step of the storefront is one of the accounts or leaves them alone. *)
LEMMA AccountsStepOrStutter ==
  ASSUME workload \in Workloads, [Next]_vars
  PROVE  [AccountsNext]_accountsVars
<1>1. CASE \E x \in Processes : StartSeeding(x) \/ SeedProduct(x) \/ SelectEmployees(x)
                                  \/ SeedEmployee(x) \/ SeedCredentials(x)
  BY <1>1 DEF StartSeeding, SeedProduct, SelectEmployees, SeedEmployee, SeedCredentials,
              SeedStaff, seedRest
<1>2. CASE \E x \in Processes : Crash(x)
  BY <1>2 DEF Crash, AccountsNext
<1>3. CASE AccountRequest
  <2>1. workload.passwords \subseteq Passwords
    BY StorefrontAssumption
  <2> QED
    BY <1>3, <2>1 DEF AccountRequest, AccountsNext, AccountsStep
<1>4. CASE \E b \in Browsers : Reload(b)
  BY <1>4 DEF Reload, AccountsNext
<1>5. CASE \E b \in Browsers : FetchCatalog(b) \/ \E p \in Products : AddToCart(b, p) \/ RemoveFromCart(b, p)
  BY <1>5 DEF FetchCatalog, AddToCart, RemoveFromCart
<1>6. CASE \E b \in Browsers, t \in Tills : CheckoutCart(b, t)
  BY <1>6 DEF CheckoutCart
<1>7. CASE \E t \in Tills : (\E p \in Products : TakeItem(t, p)) \/ InsertOrder(t) \/ CheckoutFails(t)
  BY <1>7 DEF TakeItem, InsertOrder, CheckoutFails, tillRest
<1>8. CASE \E p \in Products, n \in StaffStocks : UpdateStock(p, n) \/ AddProduct(p, n)
  BY <1>8 DEF UpdateStock, AddProduct, Shelve
<1>9. CASE UNCHANGED vars
  BY <1>9 DEF vars
<1> QED
  BY <1>1, <1>2, <1>3, <1>4, <1>5, <1>6, <1>7, <1>8, <1>9 DEF Next

(* The storefront, whatever its processes, carts and staff do, implements the *)
(* accounts: what holds of them by themselves holds of it.                    *)
THEOREM StorefrontImplementsAccounts == Spec => AccountsSpec
<1>1. Init => AccountsInit /\ workload \in Workloads
  BY DEF Init
<1>2. workload \in Workloads /\ [Next]_vars => [AccountsNext]_accountsVars
  BY AccountsStepOrStutter
<1> QED
  BY <1>1, <1>2, WorkloadKept, PTL DEF Spec, AccountsSpec

(* What is proved of the accounts holds in the storefront. *)
THEOREM AccountsAreSafe ==
  Spec => [](AccountsTypeOK /\ NobodyIsLockedOut /\ WithdrawnStaysWithdrawn /\ SessionOfOwner)
<1>1. AccountsInv => AccountsTypeOK /\ NobodyIsLockedOut /\ WithdrawnStaysWithdrawn /\ SessionOfOwner
  BY DEF AccountsInv
<1> QED
  BY <1>1, StorefrontImplementsAccounts, AccountsInvHolds, PTL

-----------------------------------------------------------------------------
(* The seeding.                                                            *)

seedVars == <<server, staff, listed, seedCut>>

Places == DOMAIN Catalog
ServerTyped ==
  server \in [Processes -> [next : Places,
    at : {"DOWN", "PRODUCTS", "EMPLOYEES", "EMPLOYEE", "CREDENTIALS", "UP"}]]

Loading(x) == server[x].at = "PRODUCTS"
Past(x) == server[x].at \in {"EMPLOYEES", "EMPLOYEE", "CREDENTIALS", "UP"}

(* The process that is ahead of the first product is alone there, has        *)
(* inserted all before and found none of the rest in the table.              *)
LeaderIsAlone ==
  \A x, y \in Processes :
    Loading(x) /\ server[x].next # 1 /\ Loading(y) /\ server[y].next # 1 => x = y

LeaderKnowsTheTable ==
  \A x \in Processes : Loading(x) /\ (server[x].next # 1) =>
    /\ Catalog[1] \in listed
    /\ seedCut \/ \A i \in Places : Catalog[i] \in listed <=> i < server[x].next

(* Without a stop, the first product is followed by the others. *)
FirstIsFollowed ==
  Catalog[1] \in listed =>
    \/ seedCut
    \/ \E x \in Processes : Loading(x) /\ server[x].next # 1
    \/ \A i \in Places : Catalog[i] \in listed

FirstIsFirst ==
  /\ listed # {} => Catalog[1] \in listed
  /\ \A x \in Processes : Past(x) => Catalog[1] \in listed

StaffIsSeeded ==
  /\ \A x \in Processes : server[x].at \in {"CREDENTIALS", "UP"} => "employee" \in staff
  /\ "employee" \in staff =>
       \/ seedCut
       \/ \E x \in Processes : server[x].at = "CREDENTIALS"
       \/ "credentials" \in staff

SeedInv ==
  /\ ServerTyped /\ seedCut \in BOOLEAN
  /\ LeaderIsAlone /\ LeaderKnowsTheTable /\ FirstIsFollowed /\ FirstIsFirst
  /\ StaffIsSeeded

LEMMA PlacesOfCatalog ==
  /\ Places = 1..Len(Catalog) /\ Len(Catalog) \in Nat \ {0}
  /\ 1 \in Places
  /\ Down \in [next : Places,
               at : {"DOWN", "PRODUCTS", "EMPLOYEES", "EMPLOYEE", "CREDENTIALS", "UP"}]
<1>1. Catalog \in Seq(Products) /\ Catalog # <<>>
  BY StorefrontAssumption
<1>2. Places = 1..Len(Catalog) /\ Len(Catalog) \in Nat
  BY <1>1 DEF Places
<1>3. Len(Catalog) # 0
  BY <1>1
<1> QED
  BY <1>2, <1>3 DEF Down

LEMMA InitSeedInv == Init => SeedInv
<1> SUFFICES ASSUME Init PROVE SeedInv
  OBVIOUS
<1>1. /\ \A x \in Processes : server[x].at = "DOWN"
      /\ staff = {} /\ listed = {} /\ seedCut = FALSE
  BY DEF Init, Down
<1>2. ServerTyped
  BY PlacesOfCatalog DEF Init, ServerTyped
<1> QED
  BY <1>1, <1>2 DEF SeedInv, LeaderIsAlone, LeaderKnowsTheTable, FirstIsFollowed, FirstIsFirst,
                    StaffIsSeeded, Loading, Past

LEMMA SeedIsCompleteFollows == SeedInv => SeedIsComplete
<1> SUFFICES ASSUME SeedInv, NEW x \in Processes, Up(x), ~seedCut,
                    \A y \in Processes : ~Seeding(y)
             PROVE  (\A i \in DOMAIN Catalog : Catalog[i] \in listed) /\ "credentials" \in staff
  BY DEF SeedIsComplete
<1>1. Past(x) /\ server[x].at = "UP"
  BY DEF Up, Past
<1>2. \A i \in DOMAIN Catalog : Catalog[i] \in listed
  BY <1>1 DEF SeedInv, FirstIsFirst, FirstIsFollowed, Loading, Seeding, Places
<1>3. "credentials" \in staff
  BY <1>1 DEF SeedInv, StaffIsSeeded, Seeding
<1> QED
  BY <1>2, <1>3

(* What a process does with its own place leaves that of the others. *)
LEMMA PlaceTaken ==
  ASSUME ServerTyped, NEW x \in Processes,
         NEW r \in [next : Places, at : {"DOWN", "PRODUCTS", "EMPLOYEES", "EMPLOYEE",
                                         "CREDENTIALS", "UP"}],
         server' = [server EXCEPT ![x] = r]
  PROVE  /\ ServerTyped' /\ server'[x] = r
         /\ \A y \in Processes \ {x} : server'[y] = server[y]
BY DEF ServerTyped

LEMMA BootsPlaces ==
  ASSUME ServerTyped, NEW x \in Processes,
         NEW at \in {"DOWN", "PRODUCTS", "EMPLOYEES", "EMPLOYEE", "CREDENTIALS", "UP"},
         Boots(x, at)
  PROVE  /\ ServerTyped' /\ server'[x].at = at /\ server'[x].next = 1
         /\ \A y \in Processes \ {x} : server'[y] = server[y]
<1> DEFINE r == [Down EXCEPT !.at = at]
<1>1. /\ r \in [next : Places,
                at : {"DOWN", "PRODUCTS", "EMPLOYEES", "EMPLOYEE", "CREDENTIALS", "UP"}]
      /\ r.at = at /\ r.next = 1
  BY PlacesOfCatalog DEF Down
<1>2. server' = [server EXCEPT ![x] = r]
  BY DEF Boots
<1> HIDE DEF r
<1> QED
  BY <1>1, <1>2, PlaceTaken

LEMMA StartKeepsSeedInv ==
  ASSUME SeedInv, NEW x \in Processes, StartSeeding(x)
  PROVE  SeedInv'
<1>0. /\ server[x].at = "DOWN" /\ UNCHANGED <<staff, listed, seedCut>>
      /\ Boots(x, IF listed = {} THEN "PRODUCTS" ELSE "EMPLOYEES")
  BY DEF StartSeeding, seedRest
<1>1. /\ ServerTyped' /\ server'[x].next = 1
      /\ server'[x].at = IF listed = {} THEN "PRODUCTS" ELSE "EMPLOYEES"
      /\ \A y \in Processes \ {x} : server'[y] = server[y]
  BY <1>0, BootsPlaces DEF SeedInv
<1>2. LeaderIsAlone' /\ LeaderKnowsTheTable'
  BY <1>0, <1>1 DEF SeedInv, LeaderIsAlone, LeaderKnowsTheTable, Loading
<1>3. FirstIsFollowed'
  BY <1>0, <1>1 DEF SeedInv, FirstIsFollowed, Loading
<1>4. FirstIsFirst'
  BY <1>0, <1>1 DEF SeedInv, FirstIsFirst, Past
<1>5. StaffIsSeeded'
  BY <1>0, <1>1 DEF SeedInv, StaffIsSeeded
<1> QED
  BY <1>0, <1>1, <1>2, <1>3, <1>4, <1>5 DEF SeedInv

LEMMA SeedProductKeepsSeedInv ==
  ASSUME SeedInv, NEW x \in Processes, SeedProduct(x)
  PROVE  SeedInv'
<1> DEFINE n == server[x].next
           q == Catalog[server[x].next]
<1>0. Loading(x) /\ n \in Places /\ n \in Nat \ {0} /\ UNCHANGED <<staff, seedCut>>
  BY PlacesOfCatalog DEF SeedProduct, SeedInv, ServerTyped, Loading, seedRest
<1>a. \A i, j \in Places : Catalog[i] = Catalog[j] => i = j
  BY StorefrontAssumption DEF Places
<1>1. CASE q \in listed /\ Exits(x) /\ UNCHANGED listed
  <2>1. /\ ServerTyped' /\ server'[x].at = "DOWN"
        /\ \A y \in Processes \ {x} : server'[y] = server[y]
    BY <1>1, BootsPlaces DEF SeedInv, Exits
  <2>2. n # 1 => seedCut
    BY <1>0, <1>1 DEF SeedInv, LeaderKnowsTheTable
  <2>3. LeaderIsAlone' /\ LeaderKnowsTheTable'
    BY <1>0, <1>1, <2>1 DEF SeedInv, LeaderIsAlone, LeaderKnowsTheTable, Loading
  <2>4. FirstIsFollowed'
    <3>1. ASSUME NEW y \in Processes, Loading(y), server[y].next # 1, n = 1
          PROVE  server'[y] = server[y]
      BY <2>1, <3>1
    <3> QED
      BY <1>0, <1>1, <2>1, <2>2, <3>1 DEF SeedInv, FirstIsFollowed, Loading
  <2>5. FirstIsFirst' /\ StaffIsSeeded'
    BY <1>0, <1>1, <2>1 DEF SeedInv, FirstIsFirst, StaffIsSeeded, Past, Loading
  <2> QED
    BY <1>0, <2>1, <2>3, <2>4, <2>5 DEF SeedInv
<1>2. ASSUME q \notin listed, listed' = listed \cup {q}
      PROVE  /\ n = 1 => listed = {}
             /\ Catalog[1] \in listed'
             /\ seedCut \/ \A i \in Places : Catalog[i] \in listed' <=> i <= n
             /\ \A y \in Processes \ {x} : Loading(y) => server[y].next = 1
  <2>1. n = 1 => listed = {}
    BY <1>2 DEF SeedInv, FirstIsFirst
  <2>2. Catalog[1] \in listed'
    BY <1>0, <1>2 DEF SeedInv, LeaderKnowsTheTable
  <2>3. ASSUME ~seedCut, NEW i \in Places PROVE Catalog[i] \in listed' <=> i <= n
    <3>1. i \in Nat \ {0} /\ (Catalog[i] = q <=> i = n)
      BY <1>0, <1>a, PlacesOfCatalog
    <3>2. n # 1 => (Catalog[i] \in listed <=> i < n)
      BY <1>0, <2>3 DEF SeedInv, LeaderKnowsTheTable
    <3> QED
      BY <1>0, <1>2, <2>1, <3>1, <3>2
  <2>4. ASSUME NEW y \in Processes \ {x}, Loading(y) PROVE server[y].next = 1
    <3>1. CASE n = 1
      BY <2>1, <2>4, <3>1 DEF SeedInv, LeaderKnowsTheTable
    <3>2. CASE n # 1
      BY <1>0, <2>4, <3>2 DEF SeedInv, LeaderIsAlone
    <3> QED
      BY <3>1, <3>2
  <2> QED
    BY <2>1, <2>2, <2>3, <2>4
<1>3. CASE /\ q \notin listed /\ listed' = listed \cup {q}
           /\ n = Len(Catalog) /\ Boots(x, "EMPLOYEES")
  <2>1. /\ ServerTyped' /\ server'[x].at = "EMPLOYEES"
        /\ \A y \in Processes \ {x} : server'[y] = server[y]
    BY <1>3, BootsPlaces DEF SeedInv
  <2>2. seedCut \/ \A i \in Places : Catalog[i] \in listed'
    BY <1>2, <1>3, PlacesOfCatalog
  <2>3. LeaderIsAlone' /\ LeaderKnowsTheTable'
    BY <1>2, <1>3, <2>1 DEF LeaderIsAlone, LeaderKnowsTheTable, Loading
  <2>4. FirstIsFollowed' /\ FirstIsFirst'
    BY <1>0, <1>2, <1>3, <2>2 DEF FirstIsFollowed, FirstIsFirst
  <2>5. StaffIsSeeded'
    BY <1>0, <2>1 DEF SeedInv, StaffIsSeeded, Loading
  <2> QED
    BY <1>0, <2>1, <2>3, <2>4, <2>5 DEF SeedInv
<1>4. CASE /\ q \notin listed /\ listed' = listed \cup {q}
           /\ n # Len(Catalog) /\ server' = [server EXCEPT ![x].next = @ + 1]
  <2> DEFINE r == [server[x] EXCEPT !.next = n + 1]
  <2>1. /\ r \in [next : Places, at : {"DOWN", "PRODUCTS", "EMPLOYEES", "EMPLOYEE",
                                       "CREDENTIALS", "UP"}]
        /\ r.at = "PRODUCTS" /\ r.next = n + 1
    <3>1. n + 1 \in Places
      BY <1>0, <1>4, PlacesOfCatalog
    <3> QED
      BY <1>0, <3>1 DEF SeedInv, ServerTyped, Loading
  <2>2. server' = [server EXCEPT ![x] = r]
    BY <1>4
  <2> HIDE DEF r
  <2>3. /\ ServerTyped' /\ server'[x].at = "PRODUCTS" /\ server'[x].next = n + 1
        /\ \A y \in Processes \ {x} : server'[y] = server[y]
    BY <2>1, <2>2, PlaceTaken DEF SeedInv
  <2>4. LeaderIsAlone'
    BY <1>2, <1>4, <2>3 DEF LeaderIsAlone, Loading
  <2>5. LeaderKnowsTheTable'
    <3> SUFFICES ASSUME NEW y \in Processes, Loading(y)', server'[y].next # 1
                 PROVE  /\ Catalog[1] \in listed'
                        /\ seedCut' \/ \A i \in Places : Catalog[i] \in listed' <=> i < server'[y].next
      BY DEF LeaderKnowsTheTable
    <3>1. y = x
      BY <1>2, <1>4, <2>3 DEF Loading
    <3>2. \A i \in Places : i <= n <=> i < n + 1
      BY <1>0, PlacesOfCatalog
    <3> QED
      BY <1>0, <1>2, <1>4, <2>3, <3>1, <3>2
  <2>6. FirstIsFollowed' /\ FirstIsFirst'
    BY <1>0, <1>2, <1>4, <2>3 DEF FirstIsFollowed, FirstIsFirst, Loading
  <2>7. StaffIsSeeded'
    BY <1>0, <2>3 DEF SeedInv, StaffIsSeeded, Loading
  <2> QED
    BY <1>0, <2>3, <2>4, <2>5, <2>6, <2>7 DEF SeedInv
<1> QED
  BY <1>1, <1>3, <1>4 DEF SeedProduct, LastProduct

(* The steps on the staff: no process enters or leaves the loop. *)
LEMMA StaffStepsKeepSeedInv ==
  ASSUME SeedInv, NEW x \in Processes,
         SelectEmployees(x) \/ SeedEmployee(x) \/ SeedCredentials(x)
  PROVE  SeedInv'
<1>0. UNCHANGED <<listed, seedCut>> /\ staff \subseteq staff'
  BY DEF SelectEmployees, SeedEmployee, SeedCredentials, SeedStaff, seedRest
<1>1. PICK at \in {"DOWN", "EMPLOYEE", "CREDENTIALS", "UP"} :
        /\ Boots(x, at) /\ Past(x)
        /\ at \in {"CREDENTIALS", "UP"} => "employee" \in staff'
        /\ server[x].at = "CREDENTIALS" => "credentials" \in staff'
        /\ "employee" \in staff' => "employee" \in staff \/ at = "CREDENTIALS"
  <2>1. CASE SelectEmployees(x)
    BY <2>1 DEF SelectEmployees, Past
  <2>2. CASE SeedEmployee(x)
    BY <2>2 DEF SeedEmployee, SeedStaff, Past, Exits
  <2>3. CASE SeedCredentials(x)
    BY <2>3 DEF SeedCredentials, SeedStaff, Past, Exits, SeedInv, StaffIsSeeded
  <2> QED
    BY <2>1, <2>2, <2>3
<1>2. /\ ServerTyped' /\ server'[x].at = at
      /\ \A y \in Processes \ {x} : server'[y] = server[y]
  BY <1>1, BootsPlaces DEF SeedInv
<1>3. \A y \in Processes : Loading(y)' <=> Loading(y)
  BY <1>1, <1>2 DEF Loading, Past
<1>4. \A y \in Processes : Loading(y) => server'[y] = server[y]
  BY <1>1, <1>2 DEF Loading, Past
<1>5. LeaderIsAlone' /\ LeaderKnowsTheTable'
  BY <1>0, <1>3, <1>4 DEF SeedInv, LeaderIsAlone, LeaderKnowsTheTable
<1>6. FirstIsFollowed'
  BY <1>0, <1>3, <1>4 DEF SeedInv, FirstIsFollowed
<1>7. FirstIsFirst'
  BY <1>0, <1>1, <1>2 DEF SeedInv, FirstIsFirst, Past
<1>8. StaffIsSeeded'
  BY <1>0, <1>1, <1>2 DEF SeedInv, StaffIsSeeded
<1> QED
  BY <1>0, <1>2, <1>5, <1>6, <1>7, <1>8 DEF SeedInv

LEMMA CrashKeepsSeedInv ==
  ASSUME SeedInv, NEW x \in Processes, Crash(x)
  PROVE  SeedInv'
<1>0. /\ server' = [server EXCEPT ![x] = Down] /\ seedCut' = (seedCut \/ Seeding(x))
      /\ UNCHANGED <<staff, listed>>
  BY DEF Crash
<1>1. /\ ServerTyped' /\ server'[x].at = "DOWN"
      /\ \A y \in Processes \ {x} : server'[y] = server[y]
  BY <1>0, PlacesOfCatalog, PlaceTaken DEF SeedInv, Down
<1>2. Loading(x) \/ server[x].at = "CREDENTIALS" => seedCut'
  BY <1>0 DEF Seeding, Loading
<1>3. seedCut' \in BOOLEAN /\ (seedCut => seedCut')
  BY <1>0 DEF SeedInv, Seeding
<1>4. LeaderIsAlone' /\ LeaderKnowsTheTable'
  BY <1>0, <1>1, <1>3 DEF SeedInv, LeaderIsAlone, LeaderKnowsTheTable, Loading
<1>5. FirstIsFollowed'
  BY <1>0, <1>1, <1>2, <1>3 DEF SeedInv, FirstIsFollowed, Loading
<1>6. FirstIsFirst'
  BY <1>0, <1>1 DEF SeedInv, FirstIsFirst, Past
<1>7. StaffIsSeeded'
  BY <1>0, <1>1, <1>2, <1>3 DEF SeedInv, StaffIsSeeded
<1> QED
  BY <1>1, <1>3, <1>4, <1>5, <1>6, <1>7 DEF SeedInv

(* A product that staff add is none of the catalogue. *)
LEMMA AddProductKeepsSeedInv ==
  ASSUME SeedInv, NEW p \in Products, NEW n \in StaffStocks, AddProduct(p, n)
  PROVE  SeedInv'
<1>0. /\ UNCHANGED <<server, staff, seedCut>> /\ listed' = listed \cup {p}
      /\ \A i \in Places : Catalog[i] # p
      /\ server["admin"].at = "UP" /\ "admin" \in Processes
  BY StorefrontAssumption DEF AddProduct, Shelve, Up, Places
<1>1. \A i \in Places : Catalog[i] \in listed' <=> Catalog[i] \in listed
  BY <1>0
<1>2. LeaderIsAlone' /\ LeaderKnowsTheTable' /\ FirstIsFollowed'
  BY <1>0, <1>1, PlacesOfCatalog
  DEF SeedInv, LeaderIsAlone, LeaderKnowsTheTable, FirstIsFollowed, Loading
<1> QED
  BY <1>0, <1>1, <1>2, PlacesOfCatalog DEF SeedInv, FirstIsFirst, StaffIsSeeded, ServerTyped, Past

LEMMA OthersKeepSeedVars ==
  ASSUME \/ UNCHANGED ordersVars \/ UNCHANGED vars
         \/ \E b \in Browsers : Reload(b) \/ FetchCatalog(b)
         \/ \E b \in Browsers, p \in Products : AddToCart(b, p) \/ RemoveFromCart(b, p)
         \/ \E b \in Browsers, t \in Tills : CheckoutCart(b, t)
         \/ \E t \in Tills : (\E p \in Products : TakeItem(t, p)) \/ InsertOrder(t) \/ CheckoutFails(t)
         \/ \E p \in Products, n \in StaffStocks : UpdateStock(p, n)
  PROVE  UNCHANGED seedVars
<1> USE DEF bootVars, ordersVars, tillRest
<1>1. CASE UNCHANGED ordersVars \/ UNCHANGED vars
  BY <1>1 DEF vars, seedVars
<1>2. CASE \E b \in Browsers : Reload(b) \/ FetchCatalog(b)
  BY <1>2 DEF Reload, PageLeft, FetchCatalog, seedVars
<1>3. CASE \E b \in Browsers, p \in Products : AddToCart(b, p) \/ RemoveFromCart(b, p)
  BY <1>3 DEF AddToCart, RemoveFromCart, seedVars
<1>4. CASE \E b \in Browsers, t \in Tills : CheckoutCart(b, t)
  BY <1>4 DEF CheckoutCart, seedVars
<1>5. CASE \E t \in Tills : (\E p \in Products : TakeItem(t, p)) \/ InsertOrder(t) \/ CheckoutFails(t)
  BY <1>5 DEF TakeItem, InsertOrder, CheckoutFails, seedVars
<1>6. CASE \E p \in Products, n \in StaffStocks : UpdateStock(p, n)
  BY <1>6 DEF UpdateStock, Shelve, seedVars
<1> QED
  BY <1>1, <1>2, <1>3, <1>4, <1>5, <1>6

LEMMA NextKeepsSeedInv ==
  ASSUME SeedInv, [Next]_vars
  PROVE  SeedInv'
<1>1. CASE \E x \in Processes : StartSeeding(x)
  BY <1>1, StartKeepsSeedInv
<1>2. CASE \E x \in Processes : SeedProduct(x)
  BY <1>2, SeedProductKeepsSeedInv
<1>3. CASE \E x \in Processes : SelectEmployees(x) \/ SeedEmployee(x) \/ SeedCredentials(x)
  BY <1>3, StaffStepsKeepSeedInv
<1>4. CASE \E x \in Processes : Crash(x)
  BY <1>4, CrashKeepsSeedInv
<1>5. CASE \E p \in Products, n \in StaffStocks : AddProduct(p, n)
  BY <1>5, AddProductKeepsSeedInv
<1>6. CASE UNCHANGED seedVars
  BY <1>6 DEF seedVars, SeedInv, ServerTyped, LeaderIsAlone, LeaderKnowsTheTable, FirstIsFollowed,
              FirstIsFirst, StaffIsSeeded, Loading, Past
<1> QED
  BY <1>1, <1>2, <1>3, <1>4, <1>5, <1>6, OthersKeepSeedVars DEF Next

(* Whoever listens has the catalogue and a store manager, unless a process   *)
(* is still seeding or was stopped in the middle of it.                      *)
THEOREM StartsFindTheSeed == Spec => []SeedIsComplete
<1>1. SeedInv /\ [Next]_vars => SeedInv'
  BY NextKeepsSeedInv
<1> QED
  BY <1>1, InitSeedInv, SeedIsCompleteFollows, PTL DEF Spec
=============================================================================
