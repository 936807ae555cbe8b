---------------------- MODULE ConsentEnforcementProofs ----------------------
(***************************************************************************)
(* Staleness is bounded by the clock alone, and every stale entry has an   *)
(* invalidation under way or a known reason why it has none: for any       *)
(* number of agents, principals, purposes and tasks, and under every fault.*)
(*                                                                         *)
(* The task queue's part is AgentTasksProofs, instantiated like AgentTasks *)
(* is in ConsentEnforcement.                                               *)
(***************************************************************************)
EXTENDS ConsentEnforcement, TLAPS

TP == INSTANCE AgentTasksProofs WITH
        Data <- Invalidation \cup {Rescan}, Throwing <- {Rescan}

-----------------------------------------------------------------------------
(* The task queue as it is used here.                                      *)

(* The assumptions of the task queue. *)
LEMMA QueueAssumption == TP!TasksAssumption
BY EnforcementAssumption DEF TP!TasksAssumption

(* Its types. *)
LEMMA QueueType == T!TypeOK <=> TP!TypeOK
BY DEF T!TypeOK, TP!TypeOK, T!AgentStatus, TP!AgentStatus, T!ReportedStatus,
       TP!ReportedStatus, T!TaskRow, TP!TaskRow, T!Exchange, TP!Exchange, T!Ids, TP!Ids

(* Its initial state. *)
LEMMA QueueInit == T!TaskInit <=> TP!TaskInit
BY DEF T!TaskInit, TP!TaskInit, T!NoRow, TP!NoRow, T!Idle, TP!Idle, T!Ids, TP!Ids

(* Its steps: every step here is one of them, or queues for several agents. *)
LEMMA QueueSteps ==
  ASSUME Next
  PROVE  \/ [TP!TaskNext]_(TP!taskVars)
         \/ \E S \in SUBSET Agents, d \in Invalidation \cup {Rescan} : TP!FanOut(S, d)
<1> USE DEF T!Ids, TP!Ids
<1>1. CASE UNCHANGED <<registry, tasks, lastId, phase, exchange, executed>>
  BY <1>1 DEF TP!taskVars
<1>2. ASSUME NEW pr \in Principals, NEW W \in Withdrawn, NEW S \in SUBSET Agents,
             WithdrawTelling(pr, W, S)
      PROVE  \E d \in Invalidation \cup {Rescan} : TP!FanOut(S, d)
  <2>1. InvalidateTask(pr, W) \in Invalidation
    BY EnforcementAssumption DEF InvalidateTask, Invalidation
  <2>2. TP!FanOut(S, InvalidateTask(pr, W))
    BY <1>2 DEF WithdrawTelling, T!QueueTasks, T!EnqueuedFor,
                TP!FanOut, TP!QueueTasks, TP!EnqueuedFor
  <2> QED
    BY <2>1, <2>2
<1>3. ASSUME NEW a \in Agents, T!QueueTask(a, Rescan)
      PROVE  TP!TaskNext
  <2>1. TP!QueueTask(a, Rescan)
    BY <1>3 DEF T!QueueTask, T!QueueTasks, T!EnqueuedFor,
                TP!QueueTask, TP!QueueTasks, TP!EnqueuedFor
  <2> QED
    BY <2>1 DEF TP!TaskNext
<1>4. ASSUME NEW a \in Agents, T!AgentStart(a)
      PROVE  TP!TaskNext
  <2>1. TP!AgentStart(a)
    BY <1>4 DEF T!AgentStart, TP!AgentStart
  <2> QED
    BY <2>1 DEF TP!TaskNext
<1>5. ASSUME NEW a \in Agents, NEW reached \in BOOLEAN, T!AgentRegister(a, reached)
      PROVE  TP!TaskNext
  <2>1. TP!AgentRegister(a, reached)
    BY <1>5 DEF T!AgentRegister, TP!AgentRegister,
                T!RegistryRegistered, TP!RegistryRegistered
  <2> QED
    BY <2>1 DEF TP!TaskNext
<1>6. ASSUME NEW a \in Agents, NEW s \in Slots, NEW status \in T!ReportedStatus,
             T!SendHeartbeat(a, s, status)
      PROVE  TP!TaskNext
  <2>1. TP!SendHeartbeat(a, s, status) /\ status \in TP!ReportedStatus
    BY <1>6 DEF T!SendHeartbeat, TP!SendHeartbeat, T!ReportedStatus, TP!ReportedStatus
  <2> QED
    BY <2>1 DEF TP!TaskNext
<1>7. ASSUME NEW a \in Agents, NEW s \in Slots, T!ProcessHeartbeat(a, s)
      PROVE  TP!TaskNext
  <2>1. TP!ProcessHeartbeat(a, s)
    BY <1>7 DEF T!ProcessHeartbeat, TP!ProcessHeartbeat,
                T!RegistryHeard, TP!RegistryHeard, T!Registered, TP!Registered,
                T!TasksPulled, TP!TasksPulled, T!PulledIds, TP!PulledIds,
                T!PendingOf, TP!PendingOf, T!Idle, TP!Idle
  <2> QED
    BY <2>1 DEF TP!TaskNext
<1>8. ASSUME NEW a \in Agents, NEW s \in Slots, T!CrashInHeartbeat(a, s)
      PROVE  TP!TaskNext
  <2>1. TP!CrashInHeartbeat(a, s)
    BY <1>8 DEF T!CrashInHeartbeat, TP!CrashInHeartbeat,
                T!RegistryHeard, TP!RegistryHeard, T!Registered, TP!Registered,
                T!Idle, TP!Idle
  <2> QED
    BY <2>1 DEF TP!TaskNext
<1>9. ASSUME NEW a \in Agents, NEW s \in Slots, T!ReceiveResponse(a, s)
      PROVE  TP!TaskNext
  <2>1. TP!ReceiveResponse(a, s)
    BY <1>9 DEF T!ReceiveResponse, TP!ReceiveResponse, T!Idle, TP!Idle
  <2> QED
    BY <2>1 DEF TP!TaskNext
<1>10. ASSUME NEW a \in Agents, NEW s \in Slots, T!LoseMessage(a, s)
       PROVE  TP!TaskNext
  <2>1. TP!LoseMessage(a, s)
    BY <1>10 DEF T!LoseMessage, TP!LoseMessage, T!Idle, TP!Idle
  <2> QED
    BY <2>1 DEF TP!TaskNext
<1>11. ASSUME NEW a \in Agents, NEW s \in Slots, NEW i \in T!Ids, T!RunTask(a, s, i)
       PROVE  TP!TaskNext
  <2>1. TP!RunTask(a, s, i)
    BY <1>11 DEF T!RunTask, TP!RunTask, T!IsHead, TP!IsHead,
                 T!BatchAfter, TP!BatchAfter, T!Idle, TP!Idle
  <2> QED
    BY <2>1 DEF TP!TaskNext
<1>12. ASSUME NEW a \in Agents, NEW s \in Slots, NEW i \in T!Ids, T!ThrowInTask(a, s, i)
       PROVE  TP!TaskNext
  <2>1. TP!ThrowInTask(a, s, i)
    BY <1>12 DEF T!ThrowInTask, TP!ThrowInTask, T!IsHead, TP!IsHead,
                 T!DataOf, TP!DataOf, T!Idle, TP!Idle
  <2> QED
    BY <2>1 DEF TP!TaskNext
<1>13. ASSUME NEW a \in Agents, T!AgentCrash(a)
       PROVE  TP!TaskNext
  <2>1. TP!AgentCrash(a)
    BY <1>13 DEF T!AgentCrash, TP!AgentCrash, T!Idle, TP!Idle
  <2> QED
    BY <2>1 DEF TP!TaskNext
<1>14. ASSUME T!TaskTick
       PROVE  TP!TaskNext
  <2>1. TP!TaskTick
    BY <1>14 DEF T!TaskTick, TP!TaskTick, T!RegistryAged, TP!RegistryAged,
                 T!Registered, TP!Registered
  <2> QED
    BY <2>1 DEF TP!TaskNext
<1>15. ASSUME NEW pr \in Principals, NEW W \in Withdrawn,
              WithdrawConsent(pr, W) \/ WithdrawInterrupted(pr, W)
       PROVE  \E S \in SUBSET Agents, d \in Invalidation \cup {Rescan} : TP!FanOut(S, d)
  <2>1. ToldAgents \in SUBSET Agents
    BY DEF ToldAgents
  <2>2. \E S \in SUBSET Agents : WithdrawTelling(pr, W, S)
    BY <1>15, <2>1 DEF WithdrawConsent, WithdrawInterrupted
  <2> QED
    BY <1>2, <2>2
<1>16. ASSUME \/ \E pr \in Principals, P \in SUBSET Purposes : RecordConsent(pr, P)
              \/ \E a \in Agents, pr \in Principals : AppRead(a, pr)
              \/ \E a \in Agents, pr \in Principals, ttl \in Ttls : AppSeed(a, pr, ttl)
              \/ \E a \in Agents, pr \in Principals : AppCheck(a, pr)
       PROVE  UNCHANGED <<registry, tasks, lastId, phase, exchange, executed>>
  BY <1>16 DEF RecordConsent, AppRead, AppSeed, AppCheck
<1> QED
  BY <1>1, <1>3, <1>4, <1>5, <1>6, <1>7, <1>8, <1>9, <1>10, <1>11, <1>12, <1>13,
     <1>14, <1>15, <1>16
     DEF Next, ProcessTask, RescanThrows, LoseMessage, ProcessHeartbeat, AgentCrash, Tick

(* What AgentTasksProofs shows of the queue holds here too. *)
LEMMA QueueInvariant ==
  ASSUME TP!IInv, [Next]_vars
  PROVE  TP!IInv'
<1>1. CASE [TP!TaskNext]_(TP!taskVars)
  BY <1>1, QueueAssumption, TP!NextInv
<1>2. ASSUME NEW S \in SUBSET Agents, NEW d \in Invalidation \cup {Rescan}, TP!FanOut(S, d)
      PROVE  TP!IInv'
  BY <1>2, QueueAssumption, TP!FanOutInv
<1>3. CASE UNCHANGED vars
  BY <1>1, <1>3 DEF vars, TP!taskVars
<1> QED
  BY <1>1, <1>2, <1>3, QueueSteps

-----------------------------------------------------------------------------
(* Types.                                                                  *)

(* What the cache's methods make of an entry is an entry. *)
LEMMA EntryTypes ==
  /\ NoEntry \in Entry
  /\ \A P \in SUBSET Scope, ttl \in 0..MaxTtl : NewEntry(P, ttl) \in Entry
  /\ \A e \in Entry : Checked(e) \in Entry /\ Aged(e) \in Entry
  /\ \A e \in Entry : \A W : Invalidated(e, W) \in Entry
<1>1. NoEntry \in Entry
  BY EntryAssumption DEF NoEntry, Entry
<1>2. \A P \in SUBSET Scope, ttl \in 0..MaxTtl : NewEntry(P, ttl) \in Entry
  BY EntryAssumption DEF NewEntry, Entry
<1>3. ASSUME NEW e \in Entry
      PROVE  Checked(e) \in Entry /\ Aged(e) \in Entry
  <2>1. e.left >= 0 => [e EXCEPT !.left = e.left - 1] \in Entry
    BY EntryAssumption DEF Entry
  <2> QED
    BY <1>1, <2>1 DEF Checked, Aged
<1>4. ASSUME NEW e \in Entry, NEW W
      PROVE  Invalidated(e, W) \in Entry
  <2>1. e.purposes \ W \in SUBSET Scope
    BY DEF Entry
  <2>2. \A P \in SUBSET Scope : [e EXCEPT !.purposes = P] \in Entry
    BY DEF Entry
  <2> QED
    BY <1>1, <2>1, <2>2 DEF Invalidated
<1> QED
  BY <1>1, <1>2, <1>3, <1>4

(* A reading that grows old is still one. *)
LEMMA ReadingTypes ==
  /\ NoReading \in Reading
  /\ \A r \in Reading : ReadingAged(r) \in Reading
<1>1. NoReading \in Reading
  BY EnforcementAssumption DEF NoReading, Reading
<1>2. ASSUME NEW r \in Reading, r.age < ReadLag
      PROVE  [r EXCEPT !.age = r.age + 1] \in Reading
  <2>1. r.age + 1 \in 0..ReadLag
    BY <1>2, EnforcementAssumption DEF Reading
  <2> QED
    BY <2>1 DEF Reading
<1> QED
  BY <1>1, <1>2 DEF ReadingAged

(* What is not the task queue's. *)
LocalType ==
  /\ consents \in [Principals -> Consent]
  /\ cache \in [Agents -> [Principals -> Entry]]
  /\ reading \in [Agents -> [Principals -> Reading]]
  /\ since \in [Principals -> [Purposes -> 0..SinceMax]]
  /\ broken \subseteq Agents \X Principals \X Purposes

(* The initial tables, caches and readings are well typed. *)
LEMMA InitLocalType == Init => LocalType
<1>1. NoConsent \in Consent
  BY DEF NoConsent, Consent
<1>2. NoReading \in Reading
  BY EnforcementAssumption DEF NoReading, Reading
<1>3. SinceMax \in 0..SinceMax
  BY EntryAssumption, EnforcementAssumption DEF SinceMax
<1> QED
  BY <1>1, <1>2, <1>3, EntryTypes DEF Init, LocalType

(* The history only ever names triples. *)
LEMMA UntoldTypes ==
  /\ \A S \in SUBSET Agents, pr \in Principals, P \in SUBSET Purposes :
       Untold(S, pr, P) \subseteq Agents \X Principals \X Purposes
  /\ \A a \in Agents : \A B :
       ToldBy(a, B) \subseteq Agents \X Principals \X Purposes
BY DEF Untold, ToldBy

(* Every step keeps the local types. *)
LEMMA NextLocalType ==
  ASSUME LocalType, [Next]_vars
  PROVE  LocalType'
<1> USE DEF LocalType
<1>1. \A pr \in Principals : consents[pr].purposes \in SUBSET Purposes
  BY DEF Consent
<1>2. ASSUME UNCHANGED consentVars
      PROVE  LocalType'
  BY <1>2 DEF consentVars
<1>3. ASSUME NEW pr \in Principals, NEW P \in SUBSET Purposes, RecordConsent(pr, P)
      PROVE  LocalType'
  <2>1. [status |-> "ACTIVE", purposes |-> P] \in Consent
    BY DEF Consent
  <2>2. [p \in Purposes |-> IF p \in P THEN 0 ELSE since[pr][p]] \in [Purposes -> 0..SinceMax]
    BY EntryAssumption, EnforcementAssumption DEF SinceMax
  <2>3. broken' \subseteq Agents \X Principals \X Purposes
    BY <1>1, <1>3, UntoldTypes DEF RecordConsent
  <2> QED
    BY <1>3, <2>1, <2>2, <2>3 DEF RecordConsent
<1>4. ASSUME NEW pr \in Principals, NEW W \in Withdrawn,
             WithdrawConsent(pr, W) \/ WithdrawInterrupted(pr, W)
      PROVE  LocalType'
  <2>1. Remaining(pr, W) \in SUBSET Purposes /\ Revoked(pr, W) \in SUBSET Purposes
    BY <1>1 DEF Remaining, Revoked
  <2>2. [status |-> IF Remaining(pr, W) = {} THEN "WITHDRAWN" ELSE "PARTIAL",
         purposes |-> Remaining(pr, W)] \in Consent
    BY <2>1 DEF Consent
  <2>3. consents' \in [Principals -> Consent]
    BY <1>4, <2>2 DEF WithdrawConsent, WithdrawInterrupted, WithdrawTelling, ConsentsReduced
  <2>4. UNCHANGED <<cache, reading, since>>
    BY <1>4 DEF WithdrawConsent, WithdrawInterrupted, WithdrawTelling
  <2>5. broken' \subseteq Agents \X Principals \X Purposes
    <3>1. UntoldAgents \in SUBSET Agents /\ \A S : Agents \ S \in SUBSET Agents
      BY DEF UntoldAgents
    <3> QED
      BY <1>4, <2>1, <3>1, UntoldTypes DEF WithdrawConsent, WithdrawInterrupted
  <2> QED
    BY <2>3, <2>4, <2>5
<1>5. ASSUME NEW a \in Agents, NEW pr \in Principals, AppRead(a, pr)
      PROVE  LocalType'
  <2>1. [read |-> TRUE, purposes |-> consents[pr].purposes, age |-> 0] \in Reading
    BY <1>1, EnforcementAssumption DEF Reading
  <2> QED
    BY <1>5, <2>1 DEF AppRead
<1>6. ASSUME NEW a \in Agents, NEW pr \in Principals, NEW ttl \in Ttls, AppSeed(a, pr, ttl)
      PROVE  LocalType'
  <2>1. reading[a][pr].purposes \in SUBSET Purposes
    BY DEF Reading
  <2>2. NewEntry(reading[a][pr].purposes, ttl) \in Entry
    BY <2>1, EntryTypes, EnforcementAssumption DEF Scope
  <2>3. NoReading \in Reading
    BY EnforcementAssumption DEF NoReading, Reading
  <2>4. Untold({a}, pr, reading[a][pr].purposes \ consents[pr].purposes)
          \subseteq Agents \X Principals \X Purposes
    BY <2>1, UntoldTypes
  <2> QED
    BY <1>6, <2>2, <2>3, <2>4 DEF AppSeed
<1>7. ASSUME NEW a \in Agents, NEW pr \in Principals, AppCheck(a, pr)
      PROVE  LocalType'
  <2>1. Checked(cache[a][pr]) \in Entry
    BY EntryTypes
  <2> QED
    BY <1>7, <2>1 DEF AppCheck
<1>8. ASSUME NEW a \in Agents, NEW s \in Slots, NEW i \in T!Ids, ProcessTask(a, s, i)
      PROVE  LocalType'
  <2>1. PICK d : cache' = [cache EXCEPT ![a] = CacheTold(a, d)]
    BY <1>8 DEF ProcessTask
  <2>2. CacheTold(a, d) \in [Principals -> Entry]
    BY EntryTypes DEF CacheTold
  <2> QED
    BY <1>8, <2>1, <2>2 DEF ProcessTask
<1>9. ASSUME NEW a \in Agents, NEW s \in Slots, NEW i \in T!Ids, RescanThrows(a, s, i)
      PROVE  LocalType'
  BY <1>9, UntoldTypes DEF RescanThrows
<1>10. ASSUME NEW a \in Agents, NEW s \in Slots,
              LoseMessage(a, s) \/ ProcessHeartbeat(a, s)
       PROVE  LocalType'
  BY <1>10, UntoldTypes DEF LoseMessage, ProcessHeartbeat
<1>11. ASSUME NEW a \in Agents, AgentCrash(a)
       PROVE  LocalType'
  BY <1>11, EntryTypes DEF AgentCrash
<1>12. ASSUME Tick
       PROVE  LocalType'
  <2>1. cache' \in [Agents -> [Principals -> Entry]]
    BY <1>12, EntryTypes DEF Tick
  <2>2. reading' \in [Agents -> [Principals -> Reading]]
    BY <1>12, ReadingTypes DEF Tick
  <2>3. \A n \in 0..SinceMax : n < SinceMax => n + 1 \in 0..SinceMax
    BY EntryAssumption, EnforcementAssumption DEF SinceMax
  <2>4. since' \in [Principals -> [Purposes -> 0..SinceMax]]
    BY <1>12, <2>3 DEF Tick
  <2> QED
    BY <1>12, <2>1, <2>2, <2>4 DEF Tick
<1> QED
  BY <1>2, <1>3, <1>4, <1>5, <1>6, <1>7, <1>8, <1>9, <1>10, <1>11, <1>12
     DEF Next, vars, consentVars

(* The control plane, the queue, the caches and the applications only ever   *)
(* hold values of their types.                                               *)
THEOREM TypeCorrect == Spec => []TypeOK
<1>1. Init => TP!IInv /\ LocalType
  BY InitLocalType, QueueInit, QueueAssumption, TP!InitInv DEF Init
<1>2. TP!IInv /\ LocalType /\ [Next]_vars => (TP!IInv /\ LocalType)'
  BY QueueInvariant, NextLocalType
<1>3. TP!IInv /\ LocalType => TypeOK
  BY QueueType DEF TP!IInv, LocalType, TypeOK
<1> QED
  BY <1>1, <1>2, <1>3, PTL DEF Spec

-----------------------------------------------------------------------------
(* Staleness is bounded by the clock.                                      *)

(* The time a cached purpose has left and the age of a reading that names it *)
(* make up for the time since it was in effect.  No entry has the wildcard:  *)
(* applications seed what the control plane told them.                       *)
Fresh ==
  /\ \A pr \in Principals, p \in Purposes : InEffect(pr, p) => since[pr][p] = 0
  /\ \A a \in Agents, pr \in Principals :
       /\ Wildcard \notin cache[a][pr].purposes
       /\ \A p \in Purposes :
            /\ Allows(cache[a][pr], p) =>
                 since[pr][p] + cache[a][pr].left <= ReadLag + MaxTtl
            /\ reading[a][pr].read /\ p \in reading[a][pr].purposes =>
                 since[pr][p] <= reading[a][pr].age

(* f allows no more than e, and no longer. *)
Weaker(f, e) ==
  /\ f.purposes \subseteq e.purposes
  /\ \A p : Allows(f, p) => Allows(e, p) /\ f.left <= e.left

(* Checking and invalidating an entry make it no stronger. *)
LEMMA MethodsWeaken ==
  ASSUME NEW e \in Entry
  PROVE  /\ Weaker(e, e)
         /\ Weaker(NoEntry, e)
         /\ Weaker(Checked(e), e)
         /\ \A W : Weaker(Invalidated(e, W), e)
<1>1. Weaker(e, e) /\ Weaker(NoEntry, e)
  BY DEF Weaker, NoEntry, Allows, Entry
<1>2. Weaker(Checked(e), e)
  BY <1>1 DEF Checked
<1>3. ASSUME NEW W
      PROVE  Weaker(Invalidated(e, W), e)
  <2> DEFINE f == [e EXCEPT !.purposes = e.purposes \ W]
  <2>1. /\ f.purposes = e.purposes \ W /\ f.left = e.left /\ f.cached = e.cached
        /\ e.left \in Int
    BY EntryAssumption DEF Entry
  <2> HIDE DEF f
  <2>2. Weaker(f, e)
    BY <2>1 DEF Weaker, Allows, Expired
  <2>3. Invalidated(e, W) \in {e, NoEntry, f}
    BY DEF Invalidated, f
  <2> QED
    BY <1>1, <2>2, <2>3
<1> QED
  BY <1>1, <1>2, <1>3

(* Apart from seeding and the clock, no step makes an entry stronger. *)
LEMMA CachesWeaken ==
  ASSUME LocalType, Next, ~Tick,
         ~\E a \in Agents, pr \in Principals, ttl \in Ttls : AppSeed(a, pr, ttl)
  PROVE  \A a \in Agents, pr \in Principals : Weaker(cache'[a][pr], cache[a][pr])
<1>1. \A a \in Agents, pr \in Principals : cache[a][pr] \in Entry
  BY DEF LocalType
<1>2. CASE UNCHANGED cache
  BY <1>1, <1>2, MethodsWeaken
<1>3. ASSUME NEW a \in Agents, NEW pr \in Principals, AppCheck(a, pr)
      PROVE  \A b \in Agents, q \in Principals : Weaker(cache'[b][q], cache[b][q])
  <2>1. \A b \in Agents, q \in Principals :
          cache'[b][q] = cache[b][q] \/ cache'[b][q] = Checked(cache[b][q])
    BY <1>3 DEF AppCheck, LocalType
  <2> QED
    BY <1>1, <2>1, MethodsWeaken
<1>4. ASSUME NEW a \in Agents, NEW s \in Slots, NEW i \in T!Ids, ProcessTask(a, s, i)
      PROVE  \A b \in Agents, q \in Principals : Weaker(cache'[b][q], cache[b][q])
  <2>1. PICK d : cache' = [cache EXCEPT ![a] = CacheTold(a, d)]
    BY <1>4 DEF ProcessTask
  <2>2. \A b \in Agents, q \in Principals :
          \/ cache'[b][q] = cache[b][q]
          \/ cache'[b][q] = Invalidated(cache[b][q], d.withdrawn)
    BY <2>1 DEF CacheTold, LocalType
  <2> QED
    BY <1>1, <2>2, MethodsWeaken
<1>5. ASSUME NEW a \in Agents, AgentCrash(a)
      PROVE  \A b \in Agents, q \in Principals : Weaker(cache'[b][q], cache[b][q])
  <2>1. \A b \in Agents, q \in Principals :
          cache'[b][q] = cache[b][q] \/ cache'[b][q] = NoEntry
    BY <1>5 DEF AgentCrash, LocalType
  <2> QED
    BY <1>1, <2>1, MethodsWeaken
<1> QED
  BY <1>2, <1>3, <1>4, <1>5
     DEF Next, consentVars, RecordConsent, WithdrawConsent, WithdrawInterrupted,
         WithdrawTelling, AppRead, RescanThrows, LoseMessage, ProcessHeartbeat

(* The numbers of Fresh. *)
LEMMA Clocks ==
  ASSUME LocalType
  PROVE  /\ ReadLag \in Nat /\ MaxTtl \in Nat
         /\ \A pr \in Principals, p \in Purposes : since[pr][p] \in Nat
         /\ \A a \in Agents, pr \in Principals :
              /\ cache[a][pr] \in Entry /\ cache[a][pr].left \in Int
              /\ cache[a][pr].left <= MaxTtl
              /\ reading[a][pr] \in Reading /\ reading[a][pr].age \in Nat
              /\ reading[a][pr].age <= ReadLag
              /\ reading[a][pr].purposes \subseteq Purposes
BY EntryAssumption, EnforcementAssumption DEF LocalType, Entry, Reading, SinceMax

(* Weaker caches, shorter clocks and fewer consents keep Fresh. *)
LEMMA FreshKept ==
  ASSUME LocalType, LocalType', Fresh, UNCHANGED reading,
         \A a \in Agents, pr \in Principals : Weaker(cache'[a][pr], cache[a][pr]),
         \A pr \in Principals, p \in Purposes :
           /\ since'[pr][p] <= since[pr][p]
           /\ InEffect(pr, p)' => since'[pr][p] = 0
  PROVE  Fresh'
<1>1. ASSUME NEW a \in Agents, NEW pr \in Principals, NEW p \in Purposes
      PROVE  /\ Allows(cache'[a][pr], p) =>
                  since'[pr][p] + cache'[a][pr].left <= ReadLag + MaxTtl
             /\ reading'[a][pr].read /\ p \in reading'[a][pr].purposes =>
                  since'[pr][p] <= reading'[a][pr].age
  <2>1. /\ since[pr][p] \in Nat /\ cache[a][pr].left \in Int /\ reading[a][pr].age \in Nat
        /\ ReadLag \in Nat /\ MaxTtl \in Nat
    BY Clocks
  <2>2. since'[pr][p] \in Nat /\ cache'[a][pr].left \in Int
    BY EntryAssumption, EnforcementAssumption DEF LocalType, Entry, SinceMax
  <2> QED
    BY <2>1, <2>2 DEF Fresh, Weaker
<1>2. \A a \in Agents, pr \in Principals : Wildcard \notin cache'[a][pr].purposes
  BY DEF Fresh, Weaker
<1> QED
  BY <1>1, <1>2 DEF Fresh

(* The clock runs for the revoked purpose, the entry and the reading alike. *)
LEMMA FreshTick ==
  ASSUME LocalType, Fresh, Tick
  PROVE  Fresh'
<1>1. ASSUME NEW a \in Agents, NEW pr \in Principals
      PROVE  /\ cache'[a][pr] = Aged(cache[a][pr])
             /\ reading'[a][pr] = ReadingAged(reading[a][pr])
  BY DEF Tick
<1>2. ASSUME NEW pr \in Principals, NEW p \in Purposes
      PROVE  /\ since'[pr][p] = since[pr][p] \/ since'[pr][p] = since[pr][p] + 1
             /\ InEffect(pr, p)' <=> InEffect(pr, p)
             /\ InEffect(pr, p) => since'[pr][p] = since[pr][p]
  BY DEF Tick, InEffect
<1>3. ASSUME NEW e \in Entry
      PROVE  /\ Aged(e).purposes = e.purposes
             /\ \A p : Allows(Aged(e), p) => Allows(e, p) /\ Aged(e).left = e.left - 1
  <2>1. e.left >= 0 => /\ [e EXCEPT !.left = e.left - 1].purposes = e.purposes
                       /\ [e EXCEPT !.left = e.left - 1].cached = e.cached
                       /\ [e EXCEPT !.left = e.left - 1].left = e.left - 1
    BY DEF Entry
  <2>2. e.left \in Int
    BY EntryAssumption DEF Entry
  <2>3. CASE e.left >= 0
    BY <2>1, <2>2, <2>3 DEF Aged, Allows, Expired
  <2>4. CASE ~(e.left >= 0)
    BY <2>2, <2>4 DEF Aged, Allows, Expired
  <2> QED
    BY <2>3, <2>4
<1>4. ASSUME NEW r \in Reading, ReadingAged(r).read
      PROVE  /\ r.read /\ ReadingAged(r).purposes = r.purposes
             /\ ReadingAged(r).age = r.age + 1
  <2>1. /\ [r EXCEPT !.age = r.age + 1].purposes = r.purposes
        /\ [r EXCEPT !.age = r.age + 1].age = r.age + 1
    BY DEF Reading
  <2> QED
    BY <1>4, <2>1 DEF ReadingAged, NoReading
<1>5. ASSUME NEW a \in Agents, NEW pr \in Principals, NEW p \in Purposes
      PROVE  /\ Wildcard \notin cache'[a][pr].purposes
             /\ Allows(cache'[a][pr], p) =>
                  since'[pr][p] + cache'[a][pr].left <= ReadLag + MaxTtl
             /\ reading'[a][pr].read /\ p \in reading'[a][pr].purposes =>
                  since'[pr][p] <= reading'[a][pr].age
  <2>1. /\ since[pr][p] \in Nat
        /\ cache[a][pr] \in Entry /\ cache[a][pr].left \in Int
        /\ reading[a][pr] \in Reading /\ reading[a][pr].age \in Nat
        /\ ReadLag \in Nat /\ MaxTtl \in Nat
    BY Clocks
  <2>2. Wildcard \notin cache'[a][pr].purposes
    BY <1>1, <1>3, <2>1 DEF Fresh
  <2>3. ASSUME Allows(cache'[a][pr], p)
        PROVE  since'[pr][p] + cache'[a][pr].left <= ReadLag + MaxTtl
    BY <1>1, <1>2, <1>3, <2>1, <2>3 DEF Fresh
  <2>4. ASSUME reading'[a][pr].read, p \in reading'[a][pr].purposes
        PROVE  since'[pr][p] <= reading'[a][pr].age
    BY <1>1, <1>2, <1>4, <2>1, <2>4 DEF Fresh
  <2> QED
    BY <2>2, <2>3, <2>4
<1>6. \A a \in Agents, pr \in Principals : Wildcard \notin cache'[a][pr].purposes
  BY <1>1, <1>3, Clocks DEF Fresh
<1>7. \A pr \in Principals, p \in Purposes : InEffect(pr, p)' => since'[pr][p] = 0
  BY <1>2 DEF Fresh
<1> QED
  BY <1>5, <1>6, <1>7 DEF Fresh

(* What is seeded has the age of its reading. *)
LEMMA FreshSeed ==
  ASSUME LocalType, Fresh, NEW a \in Agents, NEW pr \in Principals, NEW ttl \in Ttls,
         AppSeed(a, pr, ttl)
  PROVE  Fresh'
<1> DEFINE e == NewEntry(reading[a][pr].purposes, ttl)
<1>1. /\ e.purposes = reading[a][pr].purposes /\ e.left = ttl
      /\ ttl \in Nat /\ ttl <= MaxTtl
  BY EnforcementAssumption, EntryAssumption DEF NewEntry
<1>2. \A p \in Purposes : Allows(e, p) => p \in reading[a][pr].purposes
  BY Clocks, EntryAssumption DEF Allows, NewEntry, Wildcard
<1> HIDE DEF e
<1>3. /\ cache'[a][pr] = e /\ reading'[a][pr] = NoReading /\ reading[a][pr].read
      /\ \A b \in Agents, q \in Principals : b # a \/ q # pr =>
           cache'[b][q] = cache[b][q] /\ reading'[b][q] = reading[b][q]
      /\ UNCHANGED <<consents, since>>
  BY DEF AppSeed, LocalType, e
<1>4. Wildcard \notin e.purposes
  BY <1>1, Clocks, EntryAssumption DEF Wildcard
<1>5. \A p \in Purposes : Allows(e, p) => since[pr][p] + e.left <= ReadLag + MaxTtl
  <2> TAKE p \in Purposes
  <2>1. /\ since[pr][p] \in Nat /\ reading[a][pr].age \in Nat
        /\ reading[a][pr].age <= ReadLag /\ ReadLag \in Nat /\ MaxTtl \in Nat
    BY Clocks
  <2> QED
    BY <1>1, <1>2, <1>3, <2>1 DEF Fresh
<1>6. ~NoReading.read
  BY DEF NoReading
<1>7. ASSUME NEW b \in Agents, NEW q \in Principals
      PROVE  /\ Wildcard \notin cache'[b][q].purposes
             /\ \A p \in Purposes :
                  /\ Allows(cache'[b][q], p) =>
                       since'[q][p] + cache'[b][q].left <= ReadLag + MaxTtl
                  /\ reading'[b][q].read /\ p \in reading'[b][q].purposes =>
                       since'[q][p] <= reading'[b][q].age
  <2>1. CASE b = a /\ q = pr
    BY <1>3, <1>4, <1>5, <1>6, <2>1 DEF Fresh
  <2>2. CASE b # a \/ q # pr
    BY <1>3, <2>2 DEF Fresh
  <2> QED
    BY <2>1, <2>2
<1> QED
  BY <1>3, <1>7 DEF Fresh, InEffect

(* Every step keeps Fresh. *)
LEMMA NextFresh ==
  ASSUME LocalType, LocalType', Fresh, [Next]_vars
  PROVE  Fresh'
<1>1. CASE Tick
  BY <1>1, FreshTick
<1>2. CASE \E a \in Agents, pr \in Principals, ttl \in Ttls : AppSeed(a, pr, ttl)
  BY <1>2, FreshSeed
<1>3. CASE UNCHANGED vars
  BY <1>3 DEF vars, Fresh, InEffect
<1>4. CASE /\ Next /\ ~Tick
           /\ ~\E a \in Agents, pr \in Principals, ttl \in Ttls : AppSeed(a, pr, ttl)
  <2>1. \A a \in Agents, pr \in Principals : Weaker(cache'[a][pr], cache[a][pr])
    BY <1>4, CachesWeaken
  <2>2. ASSUME NEW pr \in Principals, NEW P \in SUBSET Purposes, RecordConsent(pr, P)
        PROVE  Fresh'
    <3>1. \A q \in Principals, p \in Purposes :
            /\ since'[q][p] = IF q = pr /\ p \in P THEN 0 ELSE since[q][p]
            /\ InEffect(q, p)' <=> IF q = pr THEN p \in P ELSE InEffect(q, p)
      BY <2>2 DEF RecordConsent, LocalType, InEffect
    <3>2. \A q \in Principals, p \in Purposes :
            /\ since'[q][p] <= since[q][p]
            /\ InEffect(q, p)' => since'[q][p] = 0
      BY <3>1, Clocks DEF Fresh
    <3> QED
      BY <2>1, <2>2, <3>2, FreshKept DEF RecordConsent
  <2>3. ASSUME NEW pr \in Principals, NEW W \in Withdrawn,
               WithdrawConsent(pr, W) \/ WithdrawInterrupted(pr, W)
        PROVE  Fresh'
    <3>1. UNCHANGED <<reading, since>> /\ consents' = ConsentsReduced(pr, W)
      BY <2>3 DEF WithdrawConsent, WithdrawInterrupted, WithdrawTelling
    <3>2. \A q \in Principals, p \in Purposes : InEffect(q, p)' => InEffect(q, p)
      BY <3>1 DEF ConsentsReduced, Remaining, LocalType, InEffect
    <3>3. \A q \in Principals, p \in Purposes :
            since'[q][p] <= since[q][p] /\ (InEffect(q, p)' => since'[q][p] = 0)
      BY <3>1, <3>2, Clocks DEF Fresh
    <3> QED
      BY <2>1, <3>1, <3>3, FreshKept
  <2>4. ASSUME NEW a \in Agents, NEW pr \in Principals, AppRead(a, pr)
        PROVE  Fresh'
    <3>1. /\ reading'[a][pr].purposes = consents[pr].purposes /\ reading'[a][pr].age = 0
          /\ \A b \in Agents, q \in Principals : b # a \/ q # pr =>
               reading'[b][q] = reading[b][q]
          /\ UNCHANGED <<consents, cache, since>>
      BY <2>4 DEF AppRead, LocalType
    <3>2. \A p \in Purposes : p \in reading'[a][pr].purposes =>
            since'[pr][p] <= reading'[a][pr].age
      BY <3>1 DEF Fresh, InEffect
    <3>3. ASSUME NEW b \in Agents, NEW q \in Principals, NEW p \in Purposes,
                 reading'[b][q].read, p \in reading'[b][q].purposes
          PROVE  since'[q][p] <= reading'[b][q].age
      BY <3>1, <3>2, <3>3 DEF Fresh
    <3> QED
      BY <3>1, <3>3 DEF Fresh, InEffect
  <2>5. CASE UNCHANGED <<consents, reading, since>>
    BY <2>1, <2>5, Clocks, FreshKept DEF Fresh, InEffect
  <2> QED
    BY <1>4, <2>2, <2>3, <2>4, <2>5
       DEF Next, consentVars, AppCheck, ProcessTask, RescanThrows, LoseMessage,
           ProcessHeartbeat, AgentCrash
<1> QED
  BY <1>1, <1>2, <1>3, <1>4

(* No cache allows a purpose longer than ReadLag + MaxTtl ticks after it was  *)
(* last in effect, whatever becomes of the invalidations.                     *)
THEOREM StalenessIsBounded == Spec => []BoundedStaleness
<1>1. Init => Fresh
  BY DEF Init, Fresh, InEffect, NoConsent, NoEntry, NoReading, Allows
<1>2. LocalType /\ LocalType' /\ Fresh /\ [Next]_vars => Fresh'
  BY NextFresh
<1>3. LocalType /\ [Next]_vars => LocalType'
  BY NextLocalType
<1>4. LocalType /\ Fresh => BoundedStaleness
  <2> SUFFICES ASSUME LocalType, Fresh, NEW a \in Agents, NEW pr \in Principals,
                      NEW p \in Purposes, Allows(cache[a][pr], p)
               PROVE  since[pr][p] <= ReadLag + MaxTtl
    BY DEF BoundedStaleness
  <2>1. cache[a][pr].left >= 0
    BY Clocks DEF Allows, Expired
  <2>2. since[pr][p] + cache[a][pr].left <= ReadLag + MaxTtl
    BY DEF Fresh
  <2> QED
    BY <2>1, <2>2, Clocks
<1> QED
  BY <1>1, <1>2, <1>3, <1>4, InitLocalType, PTL DEF Spec

-----------------------------------------------------------------------------
(* Stale entries are covered.                                              *)

(* What the queue's invariant says of rows and exchanges. *)
LEMMA QueueFacts ==
  ASSUME TP!IInv
  PROVE  /\ \A t \in tasks : /\ t.agent \in Agents /\ t.id \in T!Ids
                             /\ t.data \in Invalidation \cup {Rescan}
                             /\ t.status \in {"PENDING", "DISPATCHED"}
                             /\ [t EXCEPT !.status = "DISPATCHED"].agent = t.agent
                             /\ [t EXCEPT !.status = "DISPATCHED"].id = t.id
                             /\ [t EXCEPT !.status = "DISPATCHED"].data = t.data
         /\ \A t, u \in tasks : t.agent = u.agent /\ t.id = u.id => t = u
         /\ exchange \in [Agents -> [Slots -> T!Exchange]]
         /\ \A a \in Agents, s \in Slots :
              exchange[a][s].stage \in {"IDLE", "REQUEST", "ORPHAN"} =>
                exchange[a][s].batch = {}
         /\ \A a \in Agents :
              registry[a].status \in {"NONE", "ACTIVE", "DORMANT", "SCANNING", "ERROR"}
<1>1. T!TypeOK
  BY QueueType DEF TP!IInv
<1>2. \A t \in tasks : t \in T!TaskRow
  BY <1>1 DEF T!TypeOK
<1>3. \A t \in T!TaskRow : /\ t.agent \in Agents /\ t.id \in T!Ids
                           /\ t.data \in Invalidation \cup {Rescan}
                           /\ t.status \in {"PENDING", "DISPATCHED"}
                           /\ [t EXCEPT !.status = "DISPATCHED"].agent = t.agent
                           /\ [t EXCEPT !.status = "DISPATCHED"].id = t.id
                           /\ [t EXCEPT !.status = "DISPATCHED"].data = t.data
  BY DEF T!TaskRow
<1>4. \A t, u \in tasks : t.agent = u.agent /\ t.id = u.id => t = u
  BY DEF TP!IInv, TP!RowsAreTasks
<1>5. \A a \in Agents, s \in Slots :
        exchange[a][s].stage \in {"IDLE", "REQUEST", "ORPHAN"} => exchange[a][s].batch = {}
  BY DEF TP!IInv, TP!RequestsAreEmpty
<1>6. \A a \in Agents :
        registry[a].status \in {"NONE", "ACTIVE", "DORMANT", "SCANNING", "ERROR"}
  BY <1>1 DEF T!TypeOK, T!AgentStatus, T!ReportedStatus
<1>7. exchange \in [Agents -> [Slots -> T!Exchange]]
  BY <1>1 DEF T!TypeOK
<1> QED
  BY <1>2, <1>3, <1>4, <1>5, <1>6, <1>7

(* What is outstanding stays so while rows and batches do. *)
LEMMA OutstandingKept ==
  ASSUME NEW a, NEW pr, NEW p, Outstanding(a, pr, p), tasks \subseteq tasks',
         \A i : T!InFlight(a, i) => T!InFlight(a, i)'
  PROVE  Outstanding(a, pr, p)'
<1>1. PICK t \in tasks : /\ t.agent = a
                         /\ t.status = "PENDING" \/ T!InFlight(a, t.id)
                         /\ Names(t.data, pr, p)
  BY DEF Outstanding
<1>2. t \in tasks' /\ (T!InFlight(a, t.id) => T!InFlight(a, t.id)')
  BY <1>1
<1> QED
  BY <1>1, <1>2 DEF Outstanding

(* A step that strengthens no entry and revokes nothing keeps every stale    *)
(* entry covered if it explains what is no longer outstanding.               *)
LEMMA CoveredKept ==
  ASSUME StaleIsCovered, UNCHANGED consents, broken \subseteq broken',
         \A a \in Agents, pr \in Principals : Weaker(cache'[a][pr], cache[a][pr]),
         \A a \in Agents, pr \in Principals, p \in Purposes :
           Outstanding(a, pr, p) =>
             \/ Outstanding(a, pr, p)'
             \/ <<a, pr, p>> \in broken'
             \/ ~Allows(cache'[a][pr], p)
  PROVE  StaleIsCovered'
<1> SUFFICES ASSUME NEW a \in Agents, NEW pr \in Principals, NEW p \in Purposes,
                    Stale(a, pr, p)'
             PROVE  Outstanding(a, pr, p)' \/ <<a, pr, p>> \in broken'
  BY DEF StaleIsCovered
<1>1. Allows(cache'[a][pr], p) /\ ~InEffect(pr, p)'
  BY DEF Stale
<1>2. Stale(a, pr, p)
  BY <1>1 DEF Stale, Weaker, InEffect
<1> QED
  BY <1>1, <1>2 DEF StaleIsCovered

(* The tasks of a batch that is dropped are in the history. *)
LEMMA DroppedIsTold ==
  ASSUME NEW a \in Agents, NEW pr \in Principals, NEW p \in Purposes, NEW B,
         NEW t \in tasks, t.agent = a, t.id \in B, Names(t.data, pr, p)
  PROVE  <<a, pr, p>> \in ToldBy(a, B)
<1>1. t.data \in T!DataOf(a, t.id)
  BY DEF T!DataOf
<1> DEFINE x == <<a, pr, p>>
<1>2. x \in {a} \X Principals \X Purposes /\ x[2] = pr /\ x[3] = p
  OBVIOUS
<1>3. \E i \in B : \E d \in T!DataOf(a, i) : Names(d, x[2], x[3])
  BY <1>1, <1>2
<1> HIDE DEF x
<1>4. x \in ToldBy(a, B)
  BY <1>2, <1>3 DEF ToldBy
<1> QED
  BY <1>4 DEF x

(* What is untold is in the history. *)
LEMMA InUntold ==
  \A S, P, pr : \A a \in S, p \in P : <<a, pr, p>> \in Untold(S, pr, P)
BY DEF Untold

(* Batches and rows that are left alone keep everything outstanding. *)
LEMMA SameOutstanding ==
  ASSUME UNCHANGED <<tasks, exchange>>
  PROVE  \A a, pr, p : Outstanding(a, pr, p) <=> Outstanding(a, pr, p)'
BY DEF Outstanding, T!InFlight

(* A grant clears the history of what it grants, and that only; what it       *)
(* leaves out is put there.                                                   *)
LEMMA RecordCovered ==
  ASSUME LocalType, StaleIsCovered, NEW pr \in Principals, NEW P \in SUBSET Purposes,
         RecordConsent(pr, P)
  PROVE  StaleIsCovered'
<1> SUFFICES ASSUME NEW a \in Agents, NEW q \in Principals, NEW p \in Purposes,
                    Stale(a, q, p)'
             PROVE  Outstanding(a, q, p)' \/ <<a, q, p>> \in broken'
  BY DEF StaleIsCovered
<1>1. /\ UNCHANGED <<tasks, exchange, cache>>
      /\ broken' = {x \in broken : ~(x[2] = pr /\ x[3] \in P)}
                     \cup Untold(Agents, pr, consents[pr].purposes \ P)
      /\ InEffect(q, p)' <=> IF q = pr THEN p \in P ELSE InEffect(q, p)
  BY DEF RecordConsent, InEffect, LocalType
<1>2. Outstanding(a, q, p) <=> Outstanding(a, q, p)'
  BY <1>1, SameOutstanding
<1>3. Allows(cache[a][q], p) /\ ~(q = pr /\ p \in P)
  BY <1>1 DEF Stale
<1>4. <<a, q, p>> \in broken => <<a, q, p>> \in broken'
  BY <1>1, <1>3
<1>5. CASE InEffect(q, p)
  <2>1. q = pr /\ p \in consents[pr].purposes \ P
    BY <1>1, <1>3, <1>5 DEF Stale, InEffect
  <2>2. <<a, pr, p>> \in Untold(Agents, pr, consents[pr].purposes \ P)
    BY <2>1, InUntold
  <2> QED
    BY <1>1, <2>1, <2>2
<1>6. CASE ~InEffect(q, p)
  BY <1>2, <1>3, <1>4, <1>6 DEF StaleIsCovered, Stale
<1> QED
  BY <1>5, <1>6

(* A withdrawal leaves each agent an invalidation or a place in the history. *)
LEMMA WithdrawCovered ==
  ASSUME LocalType, StaleIsCovered, NEW pr \in Principals, NEW W, NEW S \in SUBSET Agents,
         WithdrawTelling(pr, W, S), broken \subseteq broken',
         \A a \in Agents \ S, p \in Revoked(pr, W) : <<a, pr, p>> \in broken'
  PROVE  StaleIsCovered'
<1> SUFFICES ASSUME NEW a \in Agents, NEW q \in Principals, NEW p \in Purposes,
                    Stale(a, q, p)'
             PROVE  Outstanding(a, q, p)' \/ <<a, q, p>> \in broken'
  BY DEF StaleIsCovered
<1>1. /\ UNCHANGED <<exchange, cache>>
      /\ tasks' = tasks \cup T!EnqueuedFor(S, InvalidateTask(pr, W))
      /\ InEffect(q, p)' <=> IF q = pr THEN p \in Remaining(pr, W) ELSE InEffect(q, p)
  BY DEF WithdrawTelling, T!QueueTasks, ConsentsReduced, InEffect, LocalType
<1>2. Outstanding(a, q, p) => Outstanding(a, q, p)'
  <2>1. \A i : T!InFlight(a, i) => T!InFlight(a, i)'
    BY <1>1 DEF T!InFlight
  <2> QED
    BY <1>1, <2>1, OutstandingKept
<1>3. Allows(cache[a][q], p)
  BY <1>1 DEF Stale
<1>4. CASE ~InEffect(q, p)
  BY <1>2, <1>3, <1>4 DEF StaleIsCovered, Stale
<1>5. CASE InEffect(q, p)
  <2>1. q = pr /\ p \in consents[pr].purposes /\ p \notin Remaining(pr, W)
    BY <1>1, <1>5 DEF Stale, InEffect
  <2>2. p \in Revoked(pr, W) /\ (p \in W \/ WithdrawsAll(W))
    BY <2>1 DEF Revoked, Remaining, WithdrawsAll
  <2>3. CASE a \notin S
    BY <2>1, <2>2, <2>3
  <2>4. CASE a \in S
    <3> DEFINE t == [id |-> lastId + 1, agent |-> a,
                     data |-> InvalidateTask(pr, W), status |-> "PENDING"]
    <3>1. t \in tasks'
      BY <1>1, <2>4 DEF T!EnqueuedFor
    <3>2. t.agent = a /\ t.status = "PENDING" /\ Names(t.data, pr, p)
      BY <2>2 DEF Names, InvalidateTask
    <3> HIDE DEF t
    <3>3. Outstanding(a, pr, p)'
      BY <3>1, <3>2 DEF Outstanding
    <3> QED
      BY <2>1, <3>3
  <2> QED
    BY <2>3, <2>4
<1> QED
  BY <1>4, <1>5

(* An agent is told unless its status keeps it from being told. *)
LEMMA ToldOrUntold ==
  ASSUME TP!IInv
  PROVE  Agents \ ToldAgents \subseteq UntoldAgents
<1>1. ASSUME NEW a \in Agents
      PROVE  T!EffectiveStatus(a) \in
               {"NONE", "ACTIVE", "DORMANT", "SCANNING", "ERROR", "OFFLINE"}
  BY QueueFacts DEF T!EffectiveStatus
<1> QED
  BY <1>1 DEF ToldAgents, UntoldAgents

(* What is seeded is in effect, or the seeding is put in the history. *)
LEMMA SeedCovered ==
  ASSUME LocalType, StaleIsCovered, NEW a \in Agents, NEW pr \in Principals,
         NEW ttl \in Ttls, AppSeed(a, pr, ttl)
  PROVE  StaleIsCovered'
<1> SUFFICES ASSUME NEW b \in Agents, NEW q \in Principals, NEW p \in Purposes,
                    Stale(b, q, p)'
             PROVE  Outstanding(b, q, p)' \/ <<b, q, p>> \in broken'
  BY DEF StaleIsCovered
<1>1. /\ UNCHANGED <<tasks, exchange, consents>>
      /\ broken' = broken \cup
           Untold({a}, pr, reading[a][pr].purposes \ consents[pr].purposes)
      /\ cache'[a][pr] = NewEntry(reading[a][pr].purposes, ttl)
      /\ b # a \/ q # pr => cache'[b][q] = cache[b][q]
  BY DEF AppSeed, LocalType
<1>2. ~InEffect(q, p) /\ Allows(cache'[b][q], p)
  BY <1>1 DEF Stale, InEffect
<1>3. CASE b = a /\ q = pr
  <2>1. p \in reading[a][pr].purposes
    BY <1>1, <1>2, <1>3, Clocks, EntryAssumption DEF Allows, NewEntry, Wildcard
  <2>2. p \in reading[a][pr].purposes \ consents[pr].purposes
    BY <1>2, <1>3, <2>1 DEF InEffect
  <2> QED
    BY <1>1, <1>3, <2>2, InUntold
<1>4. CASE b # a \/ q # pr
  <2>1. Stale(b, q, p)
    BY <1>1, <1>2, <1>4 DEF Stale
  <2> QED
    BY <1>1, <2>1, SameOutstanding DEF StaleIsCovered
<1> QED
  BY <1>3, <1>4

(* What is in flight when one exchange changes. *)
LEMMA OneExchange ==
  ASSUME TP!IInv, NEW a \in Agents, NEW s \in Slots, NEW e,
         exchange' = [exchange EXCEPT ![a][s] = e]
  PROVE  /\ exchange'[a][s] = e
         /\ \A b \in Agents : \A i :
              T!InFlight(b, i) =>
                T!InFlight(b, i)' \/ (b = a /\ i \in exchange[a][s].batch)
         /\ \A i : i \in e.batch => T!InFlight(a, i)'
<1>1. /\ exchange'[a][s] = e
      /\ \A b \in Agents, r \in Slots :
           b # a \/ r # s => exchange'[b][r] = exchange[b][r]
  BY QueueFacts
<1> QED
  BY <1>1 DEF T!InFlight

(* A dropped exchange costs what its batch would have told. *)
LEMMA DropCovered ==
  ASSUME TP!IInv, LocalType, StaleIsCovered, NEW a \in Agents, NEW s \in Slots,
         exchange' = [exchange EXCEPT ![a][s] = T!Idle],
         UNCHANGED <<tasks, consents, cache>>, broken \subseteq broken',
         \A t \in tasks, pr \in Principals, p \in Purposes :
           t.agent = a /\ t.id \in exchange[a][s].batch /\ Names(t.data, pr, p) =>
             <<a, pr, p>> \in broken'
  PROVE  StaleIsCovered'
<1>1. ASSUME NEW b \in Agents, NEW pr \in Principals, NEW p \in Purposes,
             Outstanding(b, pr, p)
      PROVE  Outstanding(b, pr, p)' \/ <<b, pr, p>> \in broken'
  <2>1. PICK t \in tasks : /\ t.agent = b
                           /\ t.status = "PENDING" \/ T!InFlight(b, t.id)
                           /\ Names(t.data, pr, p)
    BY <1>1 DEF Outstanding
  <2>2. CASE t.status = "PENDING" \/ T!InFlight(b, t.id)'
    BY <2>1, <2>2 DEF Outstanding
  <2>3. CASE b = a /\ t.id \in exchange[a][s].batch
    BY <2>1, <2>3
  <2>4. T!InFlight(b, t.id) =>
          T!InFlight(b, t.id)' \/ (b = a /\ t.id \in exchange[a][s].batch)
    <3>1. PICK e : e = T!Idle
      OBVIOUS
    <3>2. exchange' = [exchange EXCEPT ![a][s] = e]
      BY <3>1
    <3>3. \A i : T!InFlight(b, i) =>
            T!InFlight(b, i)' \/ (b = a /\ i \in exchange[a][s].batch)
      BY <3>2, OneExchange
    <3> QED
      BY <3>3
  <2> QED
    BY <2>1, <2>2, <2>3, <2>4
<1>2. \A b \in Agents, pr \in Principals : Weaker(cache'[b][pr], cache[b][pr])
  BY MethodsWeaken DEF LocalType
<1> QED
  BY <1>1, <1>2, CoveredKept

(* A lost answer costs its batch. *)
LEMMA LossCovered ==
  ASSUME TP!IInv, LocalType, StaleIsCovered, NEW a \in Agents, NEW s \in Slots,
         LoseMessage(a, s)
  PROVE  StaleIsCovered'
<1>1. PICK B : B = exchange[a][s].batch
  OBVIOUS
<1>2. /\ exchange' = [exchange EXCEPT ![a][s] = T!Idle]
      /\ UNCHANGED <<tasks, consents, cache>>
      /\ broken' = broken \cup ToldBy(a, B)
  BY <1>1 DEF LoseMessage, T!LoseMessage
<1>3. \A t \in tasks, pr \in Principals, p \in Purposes :
        t.agent = a /\ t.id \in B /\ Names(t.data, pr, p) => <<a, pr, p>> \in broken'
  BY <1>2, DroppedIsTold
<1> QED
  BY <1>1, <1>2, <1>3, DropCovered

(* A failing rescan costs the rest of the batch; the rescan tells nothing. *)
LEMMA ThrowCovered ==
  ASSUME TP!IInv, LocalType, StaleIsCovered, NEW a \in Agents, NEW s \in Slots,
         NEW i \in T!Ids, RescanThrows(a, s, i)
  PROVE  StaleIsCovered'
<1>1. PICK B : B = exchange[a][s].batch \ {i}
  OBVIOUS
<1>2. /\ exchange' = [exchange EXCEPT ![a][s] = T!Idle]
      /\ UNCHANGED <<tasks, consents, cache>>
      /\ broken' = broken \cup ToldBy(a, B)
      /\ T!DataOf(a, i) \cap {Rescan} # {}
  BY <1>1 DEF RescanThrows, T!ThrowInTask
<1>3. PICK u \in tasks : u.agent = a /\ u.id = i /\ u.data = Rescan
  BY <1>2 DEF T!DataOf
<1>4. \A t \in tasks : \A pr, p :
        t.agent = a /\ t.id \in exchange[a][s].batch /\ Names(t.data, pr, p) => t.id \in B
  BY <1>1, <1>3, QueueFacts DEF Names, Rescan
<1>5. \A t \in tasks, pr \in Principals, p \in Purposes :
        t.agent = a /\ t.id \in B /\ Names(t.data, pr, p) => <<a, pr, p>> \in broken'
  BY <1>2, DroppedIsTold
<1>6. \A t \in tasks, pr \in Principals, p \in Purposes :
        t.agent = a /\ t.id \in exchange[a][s].batch /\ Names(t.data, pr, p) =>
          <<a, pr, p>> \in broken'
  BY <1>4, <1>5
<1>7. broken \subseteq broken'
  BY <1>2
<1> QED
  BY <1>2, <1>6, <1>7, DropCovered

(* A processed invalidation evicts what it names. *)
LEMMA ToldIsGone ==
  ASSUME NEW e \in Entry, NEW W, NEW p \in Purposes, Wildcard \notin e.purposes,
         p \in W \/ WithdrawsAll(W)
  PROVE  ~Allows(Invalidated(e, W), p)
<1>1. ~Allows(NoEntry, p)
  BY DEF NoEntry, Allows
<1>2. /\ [e EXCEPT !.purposes = e.purposes \ W].purposes = e.purposes \ W
      /\ [e EXCEPT !.purposes = e.purposes \ W].cached = e.cached
  BY DEF Entry
<1>3. CASE p \in W
  BY <1>1, <1>2, <1>3 DEF Invalidated, Allows
<1>4. CASE WithdrawsAll(W)
  BY <1>1, <1>4 DEF Invalidated, Allows
<1> QED
  BY <1>3, <1>4

(* Processing a task settles what it names and leaves the rest in flight. *)
LEMMA ProcessCovered ==
  ASSUME TP!IInv, LocalType, Fresh, StaleIsCovered, NEW a \in Agents, NEW s \in Slots,
         NEW i \in T!Ids, ProcessTask(a, s, i),
         \A b \in Agents, pr \in Principals : Weaker(cache'[b][pr], cache[b][pr])
  PROVE  StaleIsCovered'
<1>1. /\ exchange' = [exchange EXCEPT ![a][s] = T!BatchAfter(a, s, i)]
      /\ UNCHANGED <<tasks, consents, broken>>
  BY DEF ProcessTask, T!RunTask
<1>2. PICK d \in T!DataOf(a, i) : cache' = [cache EXCEPT ![a] = CacheTold(a, d)]
  BY DEF ProcessTask
<1>3. \A j : j \in exchange[a][s].batch /\ j # i => j \in T!BatchAfter(a, s, i).batch
  <2>1. exchange[a][s] \in T!Exchange
    BY QueueFacts
  <2>2. \A e \in T!Exchange : \A B : [e EXCEPT !.batch = B].batch = B
    BY DEF T!Exchange
  <2> QED
    BY <2>1, <2>2 DEF T!BatchAfter
<1>4. ASSUME NEW b \in Agents, NEW pr \in Principals, NEW p \in Purposes,
             Outstanding(b, pr, p)
      PROVE  Outstanding(b, pr, p)' \/ ~Allows(cache'[b][pr], p)
  <2>1. PICK t \in tasks : /\ t.agent = b
                           /\ t.status = "PENDING" \/ T!InFlight(b, t.id)
                           /\ Names(t.data, pr, p)
    BY <1>4 DEF Outstanding
  <2>2. CASE t.status = "PENDING" \/ T!InFlight(b, t.id)'
    BY <1>1, <2>1, <2>2 DEF Outstanding
  <2>3. CASE b = a /\ t.id \in exchange[a][s].batch /\ t.id # i
    <3>1. T!InFlight(b, t.id)'
      BY <1>1, <1>3, <2>3, OneExchange
    <3> QED
      BY <2>2, <3>1
  <2>4. CASE b = a /\ t.id = i
    <3>1. t.data = d
      BY <2>1, <2>4, QueueFacts DEF T!DataOf
    <3>2. cache'[a][pr] = Invalidated(cache[a][pr], d.withdrawn)
      BY <1>2, <2>1, <3>1 DEF CacheTold, Names, LocalType
    <3>3. ~Allows(cache'[a][pr], p)
      BY <2>1, <3>1, <3>2, ToldIsGone, Clocks DEF Names, Fresh
    <3> QED
      BY <2>4, <3>3
  <2> QED
    BY <1>1, <2>1, <2>2, <2>3, <2>4, OneExchange
<1> QED
  BY <1>1, <1>4, CoveredKept

(* A heartbeat moves what is pending into its answer, or into the history if *)
(* nobody waits for the answer.                                              *)
LEMMA HeartbeatCovered ==
  ASSUME TP!IInv, LocalType, StaleIsCovered, NEW a \in Agents, NEW s \in Slots,
         ProcessHeartbeat(a, s)
  PROVE  StaleIsCovered'
<1> DEFINE Marked(t) == [t EXCEPT !.status = "DISPATCHED"]
           e == IF exchange[a][s].stage = "REQUEST"
                THEN [stage |-> "RESPONSE", status |-> "NONE", batch |-> T!PulledIds(a)]
                ELSE T!Idle
<1>1. /\ exchange[a][s].stage \in {"REQUEST", "ORPHAN"}
      /\ exchange' = [exchange EXCEPT ![a][s] = e]
      /\ tasks' = (tasks \ T!PendingOf(a)) \cup {Marked(t) : t \in T!PendingOf(a)}
      /\ UNCHANGED <<consents, cache>>
      /\ exchange[a][s].stage = "REQUEST" => UNCHANGED broken
      /\ exchange[a][s].stage = "ORPHAN" => broken' = broken \cup ToldBy(a, T!PulledIds(a))
  BY DEF ProcessHeartbeat, T!ProcessHeartbeat, T!TasksPulled
<1>2. exchange[a][s].batch = {}
  BY <1>1, QueueFacts
<1>3. /\ \A t \in tasks : Marked(t).agent = t.agent /\ Marked(t).id = t.id
                          /\ Marked(t).data = t.data
      /\ exchange[a][s].stage = "REQUEST" => e.batch = T!PulledIds(a)
  BY QueueFacts
<1> HIDE DEF Marked, e
<1>4. \A b \in Agents : \A i : T!InFlight(b, i) => T!InFlight(b, i)'
  BY <1>1, <1>2, OneExchange
<1>5. exchange[a][s].stage = "REQUEST" => \A i \in T!PulledIds(a) : T!InFlight(a, i)'
  <2>1. exchange'[a][s] = e
    BY <1>1, QueueFacts
  <2> QED
    BY <1>3, <2>1 DEF T!InFlight
<1>6. ASSUME NEW b \in Agents, NEW pr \in Principals, NEW p \in Purposes,
             Outstanding(b, pr, p)
      PROVE  Outstanding(b, pr, p)' \/ <<b, pr, p>> \in broken'
  <2>1. PICK t \in tasks : /\ t.agent = b
                           /\ t.status = "PENDING" \/ T!InFlight(b, t.id)
                           /\ Names(t.data, pr, p)
    BY <1>6 DEF Outstanding
  <2>2. CASE t \notin T!PendingOf(a)
    <3>1. t \in tasks'
      BY <1>1, <2>2
    <3> QED
      BY <1>4, <2>1, <3>1 DEF Outstanding
  <2>3. CASE t \in T!PendingOf(a)
    <3>1. t.agent = a /\ b = a /\ t.id \in T!PulledIds(a)
      BY <2>1, <2>3 DEF T!PendingOf, T!PulledIds
    <3>2. CASE exchange[a][s].stage = "REQUEST"
      <4>1. T!InFlight(a, t.id)' /\ Marked(t) \in tasks'
        BY <1>1, <1>5, <2>3, <3>1, <3>2
      <4>2. Marked(t).agent = a /\ Marked(t).id = t.id /\ Marked(t).data = t.data
        BY <1>3, <3>1
      <4> QED
        BY <2>1, <3>1, <4>1, <4>2 DEF Outstanding
    <3>3. CASE exchange[a][s].stage = "ORPHAN"
      <4>1. <<a, pr, p>> \in ToldBy(a, T!PulledIds(a))
        <5>1. PICK B : B = T!PulledIds(a)
          OBVIOUS
        <5> QED
          BY <2>1, <3>1, <5>1, DroppedIsTold
      <4> QED
        BY <1>1, <3>1, <3>3, <4>1
    <3> QED
      BY <1>1, <3>2, <3>3
  <2> QED
    BY <2>2, <2>3
<1>7. \A b \in Agents, pr \in Principals : Weaker(cache'[b][pr], cache[b][pr])
  BY <1>1, MethodsWeaken DEF LocalType
<1>8. broken \subseteq broken'
  BY <1>1
<1> QED
  BY <1>1, <1>6, <1>7, <1>8, CoveredKept

(* A crash empties the cache that the lost batches were for. *)
LEMMA CrashCovered ==
  ASSUME TP!IInv, LocalType, StaleIsCovered, NEW a \in Agents, AgentCrash(a)
  PROVE  StaleIsCovered'
<1>1. /\ UNCHANGED <<tasks, consents, broken>>
      /\ \A b \in Agents : b # a => exchange'[b] = exchange[b] /\ cache'[b] = cache[b]
      /\ \A pr \in Principals : cache'[a][pr] = NoEntry
  BY QueueFacts DEF AgentCrash, T!AgentCrash, LocalType
<1> SUFFICES ASSUME NEW b \in Agents, NEW pr \in Principals, NEW p \in Purposes,
                    Stale(b, pr, p)'
             PROVE  Outstanding(b, pr, p)' \/ <<b, pr, p>> \in broken'
  BY DEF StaleIsCovered
<1>2. b # a
  BY <1>1 DEF Stale, NoEntry, Allows
<1>3. Stale(b, pr, p)
  BY <1>1, <1>2 DEF Stale, InEffect
<1>4. Outstanding(b, pr, p) => Outstanding(b, pr, p)'
  BY <1>1, <1>2 DEF Outstanding, T!InFlight
<1> QED
  BY <1>1, <1>3, <1>4 DEF StaleIsCovered

(* A step that keeps rows, what is in flight, and consents, and strengthens  *)
(* no entry.                                                                 *)
LEMMA QuietCovered ==
  ASSUME StaleIsCovered, UNCHANGED <<consents, broken>>, tasks \subseteq tasks',
         \A a \in Agents : \A i : T!InFlight(a, i) => T!InFlight(a, i)',
         \A a \in Agents, pr \in Principals : Weaker(cache'[a][pr], cache[a][pr])
  PROVE  StaleIsCovered'
<1>1. \A a \in Agents, pr \in Principals, p \in Purposes :
        Outstanding(a, pr, p) => Outstanding(a, pr, p)'
  BY OutstandingKept
<1> QED
  BY <1>1, CoveredKept

(* The steps of the queue that leave consents, caches and history alone      *)
(* delete no row and drop no batch.                                          *)
LEMMA QueueCovered ==
  ASSUME TP!IInv, LocalType, StaleIsCovered, UNCHANGED consentVars,
         \/ \E a \in Agents : T!QueueTask(a, Rescan)
         \/ \E a \in Agents : T!AgentStart(a)
         \/ \E a \in Agents, reached \in BOOLEAN : T!AgentRegister(a, reached)
         \/ \E a \in Agents, s \in Slots, status \in T!ReportedStatus :
               T!SendHeartbeat(a, s, status)
         \/ \E a \in Agents, s \in Slots : T!CrashInHeartbeat(a, s)
         \/ \E a \in Agents, s \in Slots : T!ReceiveResponse(a, s)
  PROVE  StaleIsCovered'
<1>1. \A a \in Agents, pr \in Principals : Weaker(cache'[a][pr], cache[a][pr])
  BY MethodsWeaken DEF LocalType, consentVars
<1>2. tasks \subseteq tasks'
  BY DEF T!QueueTask, T!QueueTasks, T!AgentStart, T!AgentRegister, T!SendHeartbeat,
         T!CrashInHeartbeat, T!ReceiveResponse
<1>3. CASE UNCHANGED exchange
  <2>1. \A a \in Agents : \A i : T!InFlight(a, i) => T!InFlight(a, i)'
    BY <1>3 DEF T!InFlight
  <2> QED
    BY <1>1, <1>2, <2>1, QuietCovered DEF consentVars
<1>4. ASSUME NEW a \in Agents, NEW s \in Slots, NEW e,
             exchange' = [exchange EXCEPT ![a][s] = e], exchange[a][s].batch \subseteq e.batch
      PROVE  StaleIsCovered'
  <2>1. /\ \A b \in Agents : \A i :
             T!InFlight(b, i) =>
               T!InFlight(b, i)' \/ (b = a /\ i \in exchange[a][s].batch)
        /\ \A i : i \in e.batch => T!InFlight(a, i)'
    BY <1>4, OneExchange
  <2>2. \A b \in Agents : \A i : T!InFlight(b, i) => T!InFlight(b, i)'
    BY <1>4, <2>1
  <2> QED
    BY <1>1, <1>2, <2>2, QuietCovered DEF consentVars
<1>5. ASSUME NEW a \in Agents, NEW s \in Slots, NEW status \in T!ReportedStatus,
             T!SendHeartbeat(a, s, status)
      PROVE  StaleIsCovered'
  <2>1. exchange[a][s].batch = {}
    BY <1>5, QueueFacts DEF T!SendHeartbeat
  <2>2. \E e : exchange' = [exchange EXCEPT ![a][s] = e]
    BY <1>5 DEF T!SendHeartbeat
  <2> QED
    BY <1>4, <2>1, <2>2
<1>6. ASSUME NEW a \in Agents, NEW s \in Slots, T!CrashInHeartbeat(a, s)
      PROVE  StaleIsCovered'
  <2>1. exchange[a][s].batch = {}
    BY <1>6, QueueFacts DEF T!CrashInHeartbeat
  <2>2. \E e : exchange' = [exchange EXCEPT ![a][s] = e]
    BY <1>6 DEF T!CrashInHeartbeat
  <2> QED
    BY <1>4, <2>1, <2>2
<1>7. ASSUME NEW a \in Agents, NEW s \in Slots, T!ReceiveResponse(a, s)
      PROVE  StaleIsCovered'
  <2>1. PICK e : e = IF exchange[a][s].batch = {} THEN T!Idle
                     ELSE [exchange[a][s] EXCEPT !.stage = "BATCH"]
    OBVIOUS
  <2>2. exchange[a][s] \in T!Exchange
    BY QueueFacts
  <2>3. [exchange[a][s] EXCEPT !.stage = "BATCH"].batch = exchange[a][s].batch
    BY <2>2 DEF T!Exchange
  <2>4. exchange[a][s].batch \subseteq e.batch
    BY <2>1, <2>3
  <2>5. exchange' = [exchange EXCEPT ![a][s] = e]
    BY <1>7, <2>1 DEF T!ReceiveResponse
  <2> QED
    BY <1>4, <2>4, <2>5
<1>8. (\E a \in Agents : T!QueueTask(a, Rescan) \/ T!AgentStart(a)
         \/ \E reached \in BOOLEAN : T!AgentRegister(a, reached))
        => UNCHANGED exchange
  BY DEF T!QueueTask, T!AgentStart, T!AgentRegister
<1> QED
  BY <1>3, <1>5, <1>6, <1>7, <1>8

(* Time, readings and checks leave rows and batches alone. *)
LEMMA LocalCovered ==
  ASSUME LocalType, StaleIsCovered,
         \/ Tick
         \/ \E a \in Agents, pr \in Principals : AppRead(a, pr)
         \/ \E a \in Agents, pr \in Principals : AppCheck(a, pr)
  PROVE  StaleIsCovered'
<1>1. UNCHANGED <<tasks, exchange, consents, broken>>
  BY DEF Tick, T!TaskTick, AppRead, AppCheck
<1>2. ASSUME NEW e \in Entry
      PROVE  Weaker(Aged(e), e)
  <2>1. e.left >= 0 => /\ [e EXCEPT !.left = e.left - 1].purposes = e.purposes
                       /\ [e EXCEPT !.left = e.left - 1].cached = e.cached
                       /\ [e EXCEPT !.left = e.left - 1].left = e.left - 1
    BY DEF Entry
  <2>2. e.left \in Int
    BY EntryAssumption DEF Entry
  <2>3. CASE e.left >= 0
    BY <2>1, <2>2, <2>3 DEF Aged, Allows, Expired, Weaker
  <2>4. CASE ~(e.left >= 0)
    BY <2>4, MethodsWeaken DEF Aged
  <2> QED
    BY <2>3, <2>4
<1>3. \A a \in Agents, pr \in Principals :
        /\ cache[a][pr] \in Entry
        /\ cache'[a][pr] \in {cache[a][pr], Aged(cache[a][pr]), Checked(cache[a][pr])}
  BY DEF Tick, AppRead, AppCheck, LocalType
<1>4. \A a \in Agents, pr \in Principals : Weaker(cache'[a][pr], cache[a][pr])
  BY <1>2, <1>3, MethodsWeaken
<1>5. \A a \in Agents : \A i : T!InFlight(a, i) => T!InFlight(a, i)'
  BY <1>1 DEF T!InFlight
<1> QED
  BY <1>1, <1>4, <1>5, QuietCovered

(* Every step keeps stale entries covered. *)
LEMMA NextCovered ==
  ASSUME TP!IInv, LocalType, Fresh, StaleIsCovered, [Next]_vars
  PROVE  StaleIsCovered'
<1>1. CASE UNCHANGED vars
  BY <1>1 DEF vars, StaleIsCovered, Stale, InEffect, Outstanding, T!InFlight
<1>2. ASSUME NEW pr \in Principals, NEW P \in SUBSET Purposes, RecordConsent(pr, P)
      PROVE  StaleIsCovered'
  BY <1>2, RecordCovered
<1>3. ASSUME NEW pr \in Principals, NEW W \in Withdrawn, WithdrawConsent(pr, W)
      PROVE  StaleIsCovered'
  <2>1. PICK S : S = ToldAgents
    OBVIOUS
  <2>2. S \in SUBSET Agents
    BY <2>1 DEF ToldAgents
  <2>3. WithdrawTelling(pr, W, S) /\ broken \subseteq broken'
    BY <1>3, <2>1 DEF WithdrawConsent
  <2>4. \A a \in Agents \ S, p \in Revoked(pr, W) : <<a, pr, p>> \in broken'
    BY <1>3, <2>1, ToldOrUntold, InUntold DEF WithdrawConsent
  <2> QED
    BY <2>2, <2>3, <2>4, WithdrawCovered
<1>4. ASSUME NEW pr \in Principals, NEW W \in Withdrawn, WithdrawInterrupted(pr, W)
      PROVE  StaleIsCovered'
  <2>1. PICK S \in SUBSET ToldAgents :
          /\ WithdrawTelling(pr, W, S)
          /\ broken' = broken \cup Untold(Agents \ S, pr, Revoked(pr, W))
    BY <1>4 DEF WithdrawInterrupted
  <2>2. S \in SUBSET Agents
    BY DEF ToldAgents
  <2>3. \A a \in Agents \ S, p \in Revoked(pr, W) : <<a, pr, p>> \in broken'
    BY <2>1, InUntold
  <2> QED
    BY <2>1, <2>2, <2>3, WithdrawCovered
<1>5. ASSUME NEW a \in Agents, NEW pr \in Principals, NEW ttl \in Ttls, AppSeed(a, pr, ttl)
      PROVE  StaleIsCovered'
  BY <1>5, SeedCovered
<1>6. ASSUME NEW a \in Agents, NEW s \in Slots, NEW i \in T!Ids, ProcessTask(a, s, i)
      PROVE  StaleIsCovered'
  <2>1. PICK d : cache' = [cache EXCEPT ![a] = CacheTold(a, d)]
    BY <1>6 DEF ProcessTask
  <2>2. \A b \in Agents, q \in Principals :
          /\ cache[b][q] \in Entry
          /\ \/ cache'[b][q] = cache[b][q]
             \/ cache'[b][q] = Invalidated(cache[b][q], d.withdrawn)
    BY <2>1 DEF CacheTold, LocalType
  <2>3. \A b \in Agents, q \in Principals : Weaker(cache'[b][q], cache[b][q])
    BY <2>2, MethodsWeaken
  <2> QED
    BY <1>6, <2>3, ProcessCovered
<1>7. ASSUME NEW a \in Agents, NEW s \in Slots, NEW i \in T!Ids, RescanThrows(a, s, i)
      PROVE  StaleIsCovered'
  BY <1>7, ThrowCovered
<1>8. ASSUME NEW a \in Agents, NEW s \in Slots, LoseMessage(a, s)
      PROVE  StaleIsCovered'
  BY <1>8, LossCovered
<1>9. ASSUME NEW a \in Agents, NEW s \in Slots, ProcessHeartbeat(a, s)
      PROVE  StaleIsCovered'
  BY <1>9, HeartbeatCovered
<1>10. ASSUME NEW a \in Agents, AgentCrash(a)
       PROVE  StaleIsCovered'
  BY <1>10, CrashCovered
<1> QED
  BY <1>1, <1>2, <1>3, <1>4, <1>5, <1>6, <1>7, <1>8, <1>9, <1>10,
     QueueCovered, LocalCovered
     DEF Next

(* Whatever is lost, skipped or crashes, a cache that allows what was revoked *)
(* has the invalidation on its way, or one of the known causes broke the      *)
(* chain.                                                                     *)
THEOREM StaleCovered == Spec => []StaleIsCovered
<1>1. Init => TP!IInv /\ LocalType /\ Fresh /\ StaleIsCovered
  <2>1. Init => Fresh
    BY DEF Init, Fresh, InEffect, NoConsent, NoEntry, NoReading, Allows
  <2>2. Init => StaleIsCovered
    BY DEF Init, StaleIsCovered, Stale, NoEntry, Allows
  <2> QED
    BY <2>1, <2>2, InitLocalType, QueueInit, QueueAssumption, TP!InitInv DEF Init
<1>2. TP!IInv /\ LocalType /\ [Next]_vars => (TP!IInv /\ LocalType)'
  BY QueueInvariant, NextLocalType
<1>3. LocalType /\ LocalType' /\ Fresh /\ [Next]_vars => Fresh'
  BY NextFresh
<1>4. TP!IInv /\ LocalType /\ Fresh /\ StaleIsCovered /\ [Next]_vars => StaleIsCovered'
  BY NextCovered
<1> QED
  BY <1>1, <1>2, <1>3, <1>4, PTL DEF Spec
=============================================================================
