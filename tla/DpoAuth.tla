------------------------------- MODULE DpoAuth -------------------------------
(***************************************************************************)
(* The sign-in of the officers at the control plane: DpoAuthService in     *)
(* services/auth.service.ts with the routes 15 and 16 of server.ts and     *)
(* submitDpoLogin of public/app.js.                                        *)
(*                                                                         *)
(* A method runs without an await, so nothing interleaves with it; but its *)
(* statements commit one by one and the append to the audit ledger, which  *)
(* is the last, may throw.  Sessions are in memory only.                   *)
(***************************************************************************)
EXTENDS Integers, Sequences

CONSTANTS
  Officers,   \* the sequence of users that init seeds
  Tokens,     \* the session tokens ever drawn
  MaxClock,   \* bound on Date.now()
  Lifetime    \* of a session: 24 hours

ASSUME AuthAssumption ==
  /\ Officers \in Seq(STRING \ {"none"}) /\ Officers # <<>>
  /\ MaxClock \in Nat /\ Lifetime \in Nat
  /\ "none" \notin Tokens

VARIABLES
  running,      \* "DOWN", at a statement of init, or "UP"
  seeded,       \* how many officers this init is done with
  rows,         \* the rows of dpo_users
  provisioned,  \* the users with a DPO_USER_PROVISIONED event in the ledger
  logins,       \* what DPO_AUTHENTICATION_SUCCESS events there are, by token
  sessions,     \* activeSessions: the session of each token
  clock,        \* Date.now(), which may be set
  given,        \* the user of each token that was answered to somebody
  kept,         \* the token in the localStorage of the dashboard
  refused,      \* history: the tokens a route has refused
  seedCut       \* history: an init was stopped between its statements

authVars == <<running, seeded, rows, provisioned, logins, sessions, clock, given,
              kept, refused, seedCut>>

-----------------------------------------------------------------------------
User == {Officers[i] : i \in DOMAIN Officers}
NoSession == [user |-> "none", expiresAt |-> 0]
Session == [user : User, expiresAt : Nat]

AuthInit ==
  /\ running = "DOWN"
  /\ seeded = 0
  /\ rows = {}
  /\ provisioned = {}
  /\ logins = {}
  /\ sessions = [t \in Tokens |-> NoSession]
  /\ clock = 0
  /\ given = [t \in Tokens |-> "none"]
  /\ kept = "none"
  /\ refused = {}
  /\ seedCut = FALSE

Drawn(t) == sessions[t] # NoSession \/ t \in logins \cup refused \/ given[t] # "none"

-----------------------------------------------------------------------------
(* init and createUser.                                                    *)

seedRest == <<logins, sessions, clock, given, kept, refused>>

(* SELECT COUNT( * ): one row is as good as two. *)
StartControlPlane ==
  /\ running = "DOWN"
  /\ running' = IF rows = {} THEN "INSERT" ELSE "UP"
  /\ seeded' = 0
  /\ UNCHANGED <<seedRest, rows, provisioned, seedCut>>

InsertUser ==
  /\ running = "INSERT"
  /\ rows' = rows \cup {Officers[seeded + 1]}
  /\ running' = "LOG"
  /\ UNCHANGED <<seedRest, seeded, provisioned, seedCut>>

(* The append of createUser; init goes on with the next officer. *)
LogUser ==
  /\ running = "LOG"
  /\ provisioned' = provisioned \cup {Officers[seeded + 1]}
  /\ seeded' = seeded + 1
  /\ running' = IF seeded + 1 < Len(Officers) THEN "INSERT" ELSE "UP"
  /\ UNCHANGED <<seedRest, rows, seedCut>>

(* The process stops, or a statement of init throws, which stops it. *)
StopControlPlane ==
  /\ running # "DOWN"
  /\ running' = "DOWN"
  /\ sessions' = [t \in Tokens |-> NoSession]
  /\ seedCut' = (seedCut \/ running # "UP")
  /\ UNCHANGED <<seeded, rows, provisioned, logins, clock, given, kept, refused>>

-----------------------------------------------------------------------------
(* authenticate.                                                           *)

sessionRest == <<running, seeded, rows, provisioned, seedCut>>

Opened(t, u) == [sessions EXCEPT ![t] = [user |-> u, expiresAt |-> clock + Lifetime]]

(* A sign-in that is answered whether or not its event was written. *)
AuthenticateLeniently(u, t) ==
  /\ running = "UP" /\ u \in rows /\ ~Drawn(t)
  /\ sessions' = Opened(t, u)
  /\ logins' \in {logins, logins \cup {t}}
  /\ given' = [given EXCEPT ![t] = u]
  /\ kept' \in {kept, t}
  /\ UNCHANGED <<sessionRest, clock, refused>>

(* The right password.  The answer may be lost; the dashboard that gets it   *)
(* keeps the token.  Other answers, to wrong passwords, change nothing.      *)
Authenticate(u, t) ==
  /\ running = "UP" /\ u \in rows /\ ~Drawn(t)
  /\ sessions' = Opened(t, u)
  /\ logins' = logins \cup {t}
  /\ given' = [given EXCEPT ![t] = u]
  /\ kept' \in {kept, t}
  /\ UNCHANGED <<sessionRest, clock, refused>>

(* The append throws: the session stays behind in memory, its token unknown. *)
AuthenticateUnlogged(u, t) ==
  /\ running = "UP" /\ u \in rows /\ ~Drawn(t)
  /\ sessions' = Opened(t, u)
  /\ UNCHANGED <<sessionRest, logins, clock, given, kept, refused>>

-----------------------------------------------------------------------------
(* verifySession, at GET /api/v1/dpo/auth/me.                              *)

Live(t) == sessions[t] # NoSession /\ clock <= sessions[t].expiresAt

(* A refusal that leaves the expired session in place. *)
RefuseKeeping(t) ==
  /\ running = "UP" /\ given[t] # "none" /\ ~Live(t)
  /\ refused' = refused \cup {t}
  /\ UNCHANGED <<sessionRest, sessions, logins, clock, given, kept>>

(* 401: the token is unknown, or expired and with that deleted. *)
Refuse(t) ==
  /\ running = "UP" /\ given[t] # "none" /\ ~Live(t)
  /\ refused' = refused \cup {t}
  /\ sessions' = [sessions EXCEPT ![t] = NoSession]
  /\ UNCHANGED <<sessionRest, logins, clock, given, kept>>

(* The clock of the host goes on, or is set. *)
SetClock(now) ==
  /\ clock' = now
  /\ UNCHANGED <<sessionRest, sessions, logins, given, kept, refused>>

AuthNext ==
  \/ StartControlPlane
  \/ InsertUser
  \/ LogUser
  \/ StopControlPlane
  \/ \E u \in User, t \in Tokens : Authenticate(u, t)
  \/ \E u \in User, t \in Tokens : AuthenticateUnlogged(u, t)
  \/ \E t \in Tokens : Refuse(t)
  \/ \E now \in 0..MaxClock : SetClock(now)

AuthSpec == AuthInit /\ [][AuthNext]_authVars

-----------------------------------------------------------------------------
(* Properties.                                                             *)

(* The values of the service, its table and its dashboard. *)
AuthTypeOK ==
  /\ running \in {"DOWN", "INSERT", "LOG", "UP"}
  /\ seeded \in 0..Len(Officers)
  /\ running \in {"INSERT", "LOG"} => seeded < Len(Officers)
  /\ rows \subseteq User
  /\ provisioned \subseteq rows
  /\ logins \subseteq Tokens
  /\ sessions \in [Tokens -> Session \cup {NoSession}]
  /\ clock \in 0..MaxClock
  /\ given \in [Tokens -> User \cup {"none"}]
  /\ kept \in Tokens \cup {"none"}
  /\ refused \subseteq Tokens
  /\ seedCut \in BOOLEAN

(* Nobody holds a token that the ledger does not tell of, although the        *)
(* session is opened before its event is appended; and its holder is in the   *)
(* ledger as provisioned, unless an init was stopped before it could say so.  *)
AccessIsLogged ==
  /\ kept # "none" => given[kept] # "none"
  /\ \A t \in Tokens : given[t] # "none" =>
       t \in logins /\ (given[t] \in provisioned \/ seedCut)

(* A token that was refused once is never accepted again, not even when the   *)
(* clock is set back to before it expired or the control plane restarts.      *)
RefusedForGood == \A t \in refused : ~Live(t)
=============================================================================
