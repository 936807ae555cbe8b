------------------------- MODULE ConsentEnforcement -------------------------
(***************************************************************************)
(* Consent from the control plane to the hot path:                         *)
(* control-plane/src/services/consent.service.ts over the task queue of    *)
(* AgentTasks and the caches of ConsentEntry, one per agent.               *)
(*                                                                         *)
(* An application in an agent's zone reads a consent state from the        *)
(* control plane and, some time later, seeds the cache of its agent with   *)
(* it; nothing else fills the caches.  The application is not under src/.  *)
(***************************************************************************)
EXTENDS ConsentEntry, FiniteSets

CONSTANTS
  Agents, Principals, Slots, OfflineAge, MaxTasks, Faults,
  Ttls,        \* the times to live that applications ask for
  Withdrawn,   \* the purpose sets that withdrawal requests name
  ReadLag      \* ticks after which an application drops what it read

ASSUME EnforcementAssumption ==
  /\ Ttls \subseteq 0..MaxTtl
  /\ Withdrawn \subseteq SUBSET Scope
  /\ ReadLag \in Nat
  /\ OfflineAge \in Nat
  /\ MaxTasks \in Nat

VARIABLES
  registry, tasks, lastId, phase, exchange, executed,   \* see AgentTasks
  consents,   \* the rows of the consents table
  cache,      \* the consent cache of each agent
  reading,    \* what the application beside each agent read and not yet seeded
  since,      \* ticks since a purpose was last in effect, 0 while it is
  broken      \* the revocations that an agent may never learn of, see below

Invalidation == [type : {"TASK_CONSENT_INVALIDATE"}, principal : Principals,
                 withdrawn : SUBSET Scope]
Rescan == [type |-> "TASK_DISCOVERY_TRIGGER", principal |-> "none", withdrawn |-> {}]

T == INSTANCE AgentTasks WITH
       Data <- Invalidation \cup {Rescan}, Throwing <- {Rescan}

consentVars == <<consents, cache, reading, since, broken>>
vars == <<registry, tasks, lastId, phase, exchange, executed,
          consents, cache, reading, since, broken>>

-----------------------------------------------------------------------------
NoConsent == [status |-> "NONE", purposes |-> {}]
Consent == [status : {"NONE", "ACTIVE", "PARTIAL", "WITHDRAWN"},
            purposes : SUBSET Purposes]

NoReading == [read |-> FALSE, purposes |-> {}, age |-> 0]
Reading == [read : BOOLEAN, purposes : SUBSET Purposes, age : 0..ReadLag]

(* Where the clock of a revoked purpose stops. *)
SinceMax == ReadLag + MaxTtl + 1

Init ==
  /\ T!TaskInit
  /\ consents = [pr \in Principals |-> NoConsent]
  /\ cache = [a \in Agents |-> [pr \in Principals |-> NoEntry]]
  /\ reading = [a \in Agents |-> [pr \in Principals |-> NoReading]]
  /\ since = [pr \in Principals |-> [p \in Purposes |-> SinceMax]]
  /\ broken = {}

-----------------------------------------------------------------------------
(* `broken' is history, not state of the program: the triples of an agent, a *)
(* principal and a purpose revoked while something kept the agent from being *)
(* told.  A new grant of the purpose clears them.                            *)

Untold(S, pr, P) == {<<a, pr, p>> : a \in S, p \in P}

Names(d, pr, p) ==
  /\ d.type = "TASK_CONSENT_INVALIDATE"
  /\ d.principal = pr
  /\ p \in d.withdrawn \/ WithdrawsAll(d.withdrawn)

(* The revocations that the tasks B of agent a would have told it of. *)
ToldBy(a, B) ==
  {x \in {a} \X Principals \X Purposes :
     \E i \in B : \E d \in T!DataOf(a, i) : Names(d, x[2], x[3])}

-----------------------------------------------------------------------------
(* The control plane's consent service.                                    *)

(* recordConsent: the upsert replaces the purposes; no agent is told of      *)
(* those that were given before and are missing now.                         *)
RecordConsent(pr, P) ==
  /\ consents' = [consents EXCEPT ![pr] = [status |-> "ACTIVE", purposes |-> P]]
  /\ since' = [since EXCEPT ![pr] = [p \in Purposes |-> IF p \in P THEN 0 ELSE @[p]]]
  /\ broken' = {x \in broken : ~(x[2] = pr /\ x[3] \in P)}
                 \cup Untold(Agents, pr, consents[pr].purposes \ P)
  /\ UNCHANGED <<registry, tasks, lastId, phase, exchange, executed,
                 cache, reading>>

(* A filter with its operands swapped. *)
RemainingSwapped(pr, W) == W \ consents[pr].purposes

(* What is left of the consent of pr after W is withdrawn. *)
Remaining(pr, W) ==
  IF Wildcard \in W THEN {} ELSE consents[pr].purposes \ W

(* The UPDATE of withdrawConsent. *)
ConsentsReduced(pr, W) ==
  [consents EXCEPT ![pr] =
     [status |-> IF Remaining(pr, W) = {} THEN "WITHDRAWN" ELSE "PARTIAL",
      purposes |-> Remaining(pr, W)]]

(* A fan-out that forgets the dormant agents. *)
ActiveAgents == {a \in Agents : T!EffectiveStatus(a) = "ACTIVE"}

(* The agents that the fan-out tells. *)
ToldAgents == {a \in Agents : T!EffectiveStatus(a) \in {"ACTIVE", "DORMANT"}}

(* The agents that no fan-out tells, for `broken'. *)
UntoldAgents ==
  {a \in Agents : T!EffectiveStatus(a) \in {"NONE", "OFFLINE", "SCANNING", "ERROR"}}

InvalidateTask(pr, W) ==
  [type |-> "TASK_CONSENT_INVALIDATE", principal |-> pr, withdrawn |-> W]

(* The statements of withdrawConsent, with tasks for the agents of S. *)
WithdrawTelling(pr, W, S) ==
  /\ consents[pr].status # "NONE"
  /\ consents' = ConsentsReduced(pr, W)
  /\ T!QueueTasks(S, InvalidateTask(pr, W))
  /\ UNCHANGED <<registry, phase, exchange, executed, cache, reading, since>>

Revoked(pr, W) == consents[pr].purposes \ Remaining(pr, W)

WithdrawConsent(pr, W) ==
  /\ WithdrawTelling(pr, W, ToldAgents)
  /\ broken' = broken \cup Untold(UntoldAgents, pr, Revoked(pr, W))

(* The control plane stops after the UPDATE, with some of the tasks queued. *)
WithdrawInterrupted(pr, W) ==
  /\ "cpCrash" \in Faults
  /\ \E S \in SUBSET ToldAgents :
       /\ S # ToldAgents
       /\ WithdrawTelling(pr, W, S)
       /\ broken' = broken \cup Untold(Agents \ S, pr, Revoked(pr, W))

-----------------------------------------------------------------------------
(* The agents and the applications beside them.                            *)

(* GET /api/v1/consent/state, 404 without a row.  External. *)
AppRead(a, pr) ==
  /\ ~reading[a][pr].read
  /\ consents[pr].status # "NONE"
  /\ reading' = [reading EXCEPT ![a][pr] =
                   [read |-> TRUE, purposes |-> consents[pr].purposes, age |-> 0]]
  /\ UNCHANGED <<registry, tasks, lastId, phase, exchange, executed,
                 consents, cache, since, broken>>

(* POST /consent/cache/set with what was read, perhaps long ago.  External. *)
AppSeed(a, pr, ttl) ==
  /\ phase[a] # "DOWN"
  /\ reading[a][pr].read
  /\ cache' = [cache EXCEPT ![a][pr] = NewEntry(reading[a][pr].purposes, ttl)]
  /\ reading' = [reading EXCEPT ![a][pr] = NoReading]
  /\ broken' = broken \cup
       Untold({a}, pr, reading[a][pr].purposes \ consents[pr].purposes)
  /\ UNCHANGED <<registry, tasks, lastId, phase, exchange, executed,
                 consents, since>>

(* GET /consent/check *)
AppCheck(a, pr) ==
  /\ phase[a] # "DOWN"
  /\ cache' = [cache EXCEPT ![a][pr] = Checked(@)]
  /\ UNCHANGED <<registry, tasks, lastId, phase, exchange, executed,
                 consents, reading, since, broken>>

(* processIncomingTask: nothing but an invalidation touches the cache. *)
CacheTold(a, d) ==
  [pr \in Principals |->
     IF d.type = "TASK_CONSENT_INVALIDATE" /\ d.principal = pr
     THEN Invalidated(cache[a][pr], d.withdrawn)
     ELSE cache[a][pr]]

ProcessTask(a, s, i) ==
  /\ T!RunTask(a, s, i)
  /\ \E d \in T!DataOf(a, i) : cache' = [cache EXCEPT ![a] = CacheTold(a, d)]
  /\ UNCHANGED <<consents, reading, since, broken>>

(* The rescan of a batch fails and takes the tasks behind it along. *)
RescanThrows(a, s, i) ==
  /\ T!ThrowInTask(a, s, i)
  /\ broken' = broken \cup ToldBy(a, exchange[a][s].batch \ {i})
  /\ UNCHANGED <<consents, cache, reading, since>>

(* The tasks of an answer that never arrives stay DISPATCHED. *)
LoseMessage(a, s) ==
  /\ T!LoseMessage(a, s)
  /\ broken' = broken \cup ToldBy(a, exchange[a][s].batch)
  /\ UNCHANGED <<consents, cache, reading, since>>

(* So do those pulled for a request whose sender is gone. *)
ProcessHeartbeat(a, s) ==
  /\ T!ProcessHeartbeat(a, s)
  /\ broken' = IF exchange[a][s].stage = "ORPHAN"
               THEN broken \cup ToldBy(a, T!PulledIds(a))
               ELSE broken
  /\ UNCHANGED <<consents, cache, reading, since>>

(* The cache is memory of the process. *)
AgentCrash(a) ==
  /\ T!AgentCrash(a)
  /\ cache' = [cache EXCEPT ![a] = [pr \in Principals |-> NoEntry]]
  /\ UNCHANGED <<consents, reading, since, broken>>

-----------------------------------------------------------------------------
(* An application that read too long ago does not seed any more. *)
ReadingAged(r) ==
  IF r.read /\ r.age < ReadLag THEN [r EXCEPT !.age = @ + 1] ELSE NoReading

Tick ==
  /\ T!TaskTick
  /\ cache' = [a \in Agents |-> [pr \in Principals |-> Aged(cache[a][pr])]]
  /\ reading' = [a \in Agents |-> [pr \in Principals |-> ReadingAged(reading[a][pr])]]
  /\ since' = [pr \in Principals |-> [p \in Purposes |->
                 IF p \notin consents[pr].purposes /\ since[pr][p] < SinceMax
                 THEN since[pr][p] + 1 ELSE since[pr][p]]]
  /\ UNCHANGED <<consents, broken>>

Next ==
  \/ \E pr \in Principals, P \in SUBSET Purposes : RecordConsent(pr, P)
  \/ \E pr \in Principals, W \in Withdrawn : WithdrawConsent(pr, W)
  \/ \E pr \in Principals, W \in Withdrawn : WithdrawInterrupted(pr, W)
  \/ \E a \in Agents, pr \in Principals : AppRead(a, pr)
  \/ \E a \in Agents, pr \in Principals, ttl \in Ttls : AppSeed(a, pr, ttl)
  \/ \E a \in Agents, pr \in Principals : AppCheck(a, pr)
  \/ \E a \in Agents, s \in Slots, i \in T!Ids : ProcessTask(a, s, i)
  \/ \E a \in Agents, s \in Slots, i \in T!Ids : RescanThrows(a, s, i)
  \/ \E a \in Agents, s \in Slots : LoseMessage(a, s)
  \/ \E a \in Agents, s \in Slots : ProcessHeartbeat(a, s)
  \/ \E a \in Agents : AgentCrash(a)
  \/ \E a \in Agents : T!QueueTask(a, Rescan) /\ UNCHANGED consentVars
  \/ \E a \in Agents : T!AgentStart(a) /\ UNCHANGED consentVars
  \/ \E a \in Agents, reached \in BOOLEAN :
        T!AgentRegister(a, reached) /\ UNCHANGED consentVars
  \/ \E a \in Agents, s \in Slots, status \in T!ReportedStatus :
        T!SendHeartbeat(a, s, status) /\ UNCHANGED consentVars
  \/ \E a \in Agents, s \in Slots :
        T!CrashInHeartbeat(a, s) /\ UNCHANGED consentVars
  \/ \E a \in Agents, s \in Slots :
        T!ReceiveResponse(a, s) /\ UNCHANGED consentVars
  \/ Tick

Spec == Init /\ [][Next]_vars

(* The daemon's restarts, timers and event loop and the network, as in       *)
(* AgentTasks.  Nothing is assumed of the clock, so entries need not expire. *)
Fairness ==
  \A a \in Agents :
    /\ WF_vars(T!AgentStart(a) /\ UNCHANGED consentVars)
    /\ WF_vars(\E reached \in BOOLEAN :
                 T!AgentRegister(a, reached) /\ UNCHANGED consentVars)
    /\ \A s \in Slots :
         /\ WF_vars(\E status \in T!ReportedStatus :
                      T!SendHeartbeat(a, s, status) /\ UNCHANGED consentVars)
         /\ SF_vars(ProcessHeartbeat(a, s))
         /\ SF_vars(T!ReceiveResponse(a, s) /\ UNCHANGED consentVars)
         /\ WF_vars(\E i \in T!Ids : ProcessTask(a, s, i))

FairSpec == Spec /\ Fairness

-----------------------------------------------------------------------------
(* Properties.                                                             *)

(* The values the tables, the caches and the applications can hold. *)
TypeOK ==
  /\ T!TypeOK
  /\ consents \in [Principals -> Consent]
  /\ cache \in [Agents -> [Principals -> Entry]]
  /\ reading \in [Agents -> [Principals -> Reading]]
  /\ since \in [Principals -> [Purposes -> 0..SinceMax]]
  /\ broken \subseteq Agents \X Principals \X Purposes

InEffect(pr, p) == p \in consents[pr].purposes

(* An agent still allows what was revoked. *)
Stale(a, pr, p) == Allows(cache[a][pr], p) /\ ~InEffect(pr, p)

(* However many invalidations get lost, skipped or overtaken, and whatever     *)
(* crashes, no cache allows a purpose longer than ReadLag + MaxTtl ticks after *)
(* it was last in effect.                                                      *)
BoundedStaleness ==
  \A a \in Agents, pr \in Principals, p \in Purposes :
    Allows(cache[a][pr], p) => since[pr][p] <= ReadLag + MaxTtl

(* An invalidation of p that agent a has yet to process. *)
Outstanding(a, pr, p) ==
  \E t \in tasks :
    /\ t.agent = a
    /\ t.status = "PENDING" \/ T!InFlight(a, t.id)
    /\ Names(t.data, pr, p)

(* Every stale entry has an invalidation on its way, unless one of the known   *)
(* causes broke the chain: the agent was not told because of its status, the   *)
(* answer or the batch with the task was dropped, the control plane stopped    *)
(* half way, recordConsent narrowed the consent, or the application seeded     *)
(* what it had read before the revocation.                                     *)
StaleIsCovered ==
  \A a \in Agents, pr \in Principals, p \in Purposes :
    Stale(a, pr, p) => Outstanding(a, pr, p) \/ <<a, pr, p>> \in broken

(* A stale entry goes away by the heartbeats alone, whatever crashes and is    *)
(* lost, unless one of the causes above kept the agent from being told or the  *)
(* purpose is granted again.                                                   *)
StaleIsEvicted ==
  \A a \in Agents, pr \in Principals, p \in Purposes :
    Stale(a, pr, p) ~> ~Stale(a, pr, p) \/ <<a, pr, p>> \in broken

(* decisions.md:39: on a withdrawal the control plane pushes an invalidation   *)
(* event to all agents in the fleet.                                           *)
FleetIsTold ==
  [][\A pr \in Principals, W \in Withdrawn :
       WithdrawConsent(pr, W) =>
         \A a \in Agents : T!Registered(a) =>
           \E t \in tasks' \ tasks : t.agent = a /\ t.data = InvalidateTask(pr, W)]_vars
=============================================================================
