---------------------------- MODULE DsrSagaProofs ----------------------------
(***************************************************************************)
(* A request is completed by the receipts of its own plan, one for each    *)
(* task, and never touched again: for any number of agents, requests and   *)
(* tables and under every fault.                                           *)
(*                                                                         *)
(* The task queue's part is AgentTasksProofs, instantiated like AgentTasks *)
(* is in DsrSaga.                                                          *)
(***************************************************************************)
EXTENDS DsrSaga, FiniteSetTheorems, TLAPS

TP == INSTANCE AgentTasksProofs WITH
        Data <- {Erasure(x, tb) : x \in Requests, tb \in Tables} \cup Rescans,
        Throwing <- Rescans

TaskData == {Erasure(x, tb) : x \in Requests, tb \in Tables} \cup Rescans

-----------------------------------------------------------------------------
(* The task queue as it is used here.                                      *)

(* The assumptions of the task queue. *)
LEMMA QueueAssumption == TP!TasksAssumption
BY SagaAssumption DEF TP!TasksAssumption

(* Its types. *)
LEMMA QueueType == T!TypeOK <=> TP!TypeOK
BY DEF T!TypeOK, TP!TypeOK, T!AgentStatus, TP!AgentStatus, T!ReportedStatus,
       TP!ReportedStatus, T!TaskRow, TP!TaskRow, T!Exchange, TP!Exchange, T!Ids, TP!Ids

(* Its initial state. *)
LEMMA QueueInit == T!TaskInit <=> TP!TaskInit
BY DEF T!TaskInit, TP!TaskInit, T!NoRow, TP!NoRow, T!Idle, TP!Idle, T!Ids, TP!Ids

(* What its invariant says of rows, batches and counts. *)
LEMMA QueueFacts ==
  ASSUME TP!IInv
  PROVE  /\ lastId \in Nat
         /\ \A t \in tasks : /\ t \in T!TaskRow
                             /\ t.agent \in Agents /\ t.id \in T!Ids /\ t.id <= lastId
                             /\ t.data \in TaskData
                             /\ [t EXCEPT !.status = "DISPATCHED"].agent = t.agent
                             /\ [t EXCEPT !.status = "DISPATCHED"].id = t.id
                             /\ [t EXCEPT !.status = "DISPATCHED"].data = t.data
         /\ \A t, u \in tasks : t.agent = u.agent /\ t.id = u.id => t = u
         /\ \A a \in Agents, s \in Slots : \A i \in exchange[a][s].batch : executed[a][i] = 0
         /\ executed \in [Agents -> [T!Ids -> Nat]]
<1>1. T!TypeOK
  BY QueueType DEF TP!IInv
<1>2. \A t \in tasks : t \in T!TaskRow
  BY <1>1 DEF T!TypeOK
<1>3. \A t \in T!TaskRow : /\ t.agent \in Agents /\ t.id \in T!Ids
                           /\ t.data \in TaskData
                           /\ [t EXCEPT !.status = "DISPATCHED"].agent = t.agent
                           /\ [t EXCEPT !.status = "DISPATCHED"].id = t.id
                           /\ [t EXCEPT !.status = "DISPATCHED"].data = t.data
  BY DEF T!TaskRow, TaskData
<1>4. /\ \A t, u \in tasks : t.agent = u.agent /\ t.id = u.id => t = u
      /\ \A t \in tasks : t.id <= lastId
  BY DEF TP!IInv, TP!RowsAreTasks
<1>5. \A a \in Agents, s \in Slots : \A i \in exchange[a][s].batch : executed[a][i] = 0
  BY DEF TP!IInv, TP!Placed
<1>6. lastId \in Nat /\ executed \in [Agents -> [T!Ids -> Nat]]
  BY <1>1, SagaAssumption DEF T!TypeOK
<1> QED
  BY <1>2, <1>3, <1>4, <1>5, <1>6

-----------------------------------------------------------------------------
(* Plans.                                                                  *)

(* The first tables of the data map are numbered from 1, without gaps.     *)
LEMMA Ranks ==
  ASSUME NEW S \in SUBSET Tables, NEW P \in SUBSET S,
         \A tb \in P, u \in S : u < tb => u \in P
  PROVE  /\ IsFiniteSet(P) /\ Cardinality(P) \in Nat
         /\ \A tb \in P : Cardinality({u \in S : u <= tb}) \in 1..Cardinality(P)
         /\ \A tb, v \in P :
              Cardinality({u \in S : u <= tb}) = Cardinality({u \in S : u <= v}) => tb = v
<1> DEFINE Below(tb) == {u \in S : u <= tb}
<1>0. S \subseteq Nat
  BY SagaAssumption
<1>1. IsFiniteSet(S) /\ IsFiniteSet(P) /\ Cardinality(P) \in Nat
  BY SagaAssumption, FS_Subset, FS_CardinalityType
<1>2. ASSUME NEW tb \in P
      PROVE  Below(tb) \in SUBSET P /\ tb \in Below(tb)
  <2>1. tb \in Nat /\ tb \in S /\ tb <= tb
    BY <1>0
  <2>2. ASSUME NEW u \in S, u <= tb PROVE u \in P
    <3>1. u \in Nat /\ (u = tb \/ u < tb)
      BY <1>0, <2>1, <2>2
    <3> QED
      BY <3>1
  <2> QED
    BY <2>1, <2>2
<1>3. ASSUME NEW tb \in P
      PROVE  /\ IsFiniteSet(Below(tb)) /\ Cardinality(Below(tb)) \in Nat
             /\ Cardinality(Below(tb)) <= Cardinality(P)
             /\ Cardinality(Below(tb)) # 0
  <2>1. /\ IsFiniteSet(Below(tb)) /\ Cardinality(Below(tb)) <= Cardinality(P)
    BY <1>1, <1>2, FS_Subset
  <2>2. Cardinality(Below(tb)) # 0
    BY <1>2, <2>1, FS_EmptySet
  <2> QED
    BY <2>1, <2>2, FS_CardinalityType
<1>4. ASSUME NEW tb \in P, NEW v \in P, tb < v
      PROVE  Cardinality(Below(tb)) # Cardinality(Below(v))
  <2>0. tb \in Nat /\ v \in Nat /\ ~(v <= tb) /\ v \in S /\ v <= v
    BY <1>0, <1>4
  <2>1. Below(tb) \in SUBSET Below(v) /\ v \in Below(v) /\ v \notin Below(tb)
    <3>1. \A u \in S : u <= tb => u <= v
      BY <1>0, <1>4, <2>0
    <3> QED
      BY <2>0, <3>1
  <2> QED
    BY <1>3, <2>1, FS_Subset
<1>5. \A tb, v \in P : tb = v \/ tb < v \/ v < tb
  BY <1>0
<1> QED
  BY <1>1, <1>3, <1>4, <1>5

(* The rows of a plan are new tasks, one id for each table. *)
LEMMA PlanEnqueues ==
  ASSUME TP!IInv, dataMap \in SUBSET Tables, NEW x \in Requests, NEW P \in SUBSET dataMap,
         \A tb \in P, u \in dataMap : u < tb => u \in P, QueuePlan(x, P)
  PROVE  /\ \A t \in tasks : t.data.dsr # x
         /\ UNCHANGED <<exchange, executed, receipts, erased, unreported, dataMap>>
         /\ \A tb \in P : PlannedId(tb, dataMap) \in T!Ids
         /\ \E N : /\ N = PlannedTasks(x, P)
                   /\ tasks' = tasks \cup N
                   /\ \E k : TP!Enqueues(N, k)
                   /\ \A t, u \in N : t.id = u.id => t = u
                   /\ \A t \in N : lastId < t.id
<1>1. PICK N : N = PlannedTasks(x, P)
  OBVIOUS
<1>2. PICK n : n = Cardinality(P)
  OBVIOUS
<1>3. PICK k : k = lastId + n
  OBVIOUS
<1> DEFINE Rank(tb) == Cardinality({u \in dataMap : u <= tb})
<1>4. /\ n \in Nat
      /\ \A tb \in P : Rank(tb) \in 1..n
      /\ \A tb, v \in P : Rank(tb) = Rank(v) => tb = v
  <2>1. /\ Cardinality(P) \in Nat
        /\ \A tb \in P : Rank(tb) \in 1..Cardinality(P)
        /\ \A tb, v \in P : Rank(tb) = Rank(v) => tb = v
    BY Ranks
  <2> QED
    BY <1>2, <2>1
<1>5. \A tb : PlannedId(tb, dataMap) = lastId + Rank(tb)
  BY DEF PlannedId
<1> HIDE DEF Rank
<1>6. /\ k <= MaxTasks /\ lastId' = k /\ tasks' = tasks \cup N
      /\ \A t \in tasks : t.data.dsr # x
      /\ UNCHANGED <<registry, phase, exchange, executed, dataMap, receipts, erased, unreported>>
  BY <1>1, <1>2, <1>3 DEF QueuePlan, Fresh
<1>7. lastId \in Nat /\ MaxTasks \in Nat
  BY QueueFacts, SagaAssumption
<1>8. \A tb \in P : /\ PlannedId(tb, dataMap) \in T!Ids
                    /\ lastId < PlannedId(tb, dataMap) /\ PlannedId(tb, dataMap) <= k
  BY <1>3, <1>4, <1>5, <1>6, <1>7 DEF T!Ids
<1>9. \A tb, v \in P : PlannedId(tb, dataMap) = PlannedId(v, dataMap) => tb = v
  BY <1>4, <1>5, <1>7
<1>10. \A t \in N : \E tb \in P :
         t = [id |-> PlannedId(tb, dataMap), agent |-> Owner[tb],
              data |-> Erasure(x, tb), status |-> "PENDING"]
  BY <1>1 DEF PlannedTasks
<1>11. N \subseteq TP!TaskRow
  <2>1. \A tb \in P : Owner[tb] \in Agents
    BY SagaAssumption
  <2> QED
    BY <1>8, <1>10, <2>1 DEF TP!TaskRow, T!Ids, TP!Ids
<1>12. \A t \in N : t.status = "PENDING" /\ lastId < t.id /\ t.id <= k
  BY <1>8, <1>10
<1>13. \A t, u \in N : t.id = u.id => t = u
  BY <1>9, <1>10
<1>14. k \in lastId..MaxTasks
  BY <1>3, <1>4, <1>6, <1>7
<1>15. TP!Enqueues(N, k)
  BY <1>6, <1>11, <1>12, <1>13, <1>14 DEF TP!Enqueues
<1> QED
  BY <1>1, <1>6, <1>8, <1>12, <1>13, <1>15

(* An interrupted creation plans the first tables of the data map. *)
LEMMA InterruptedPlans ==
  ASSUME NEW x \in Requests, CreateInterrupted(x)
  PROVE  /\ UNCHANGED requests
         /\ \E P \in SUBSET dataMap :
              QueuePlan(x, P) /\ \A tb \in P, u \in dataMap : u < tb => u \in P
BY DEF CreateInterrupted

(* Every step is one of the queue's steps or queues a plan. *)
LEMMA QueueSteps ==
  ASSUME TP!IInv, dataMap \in SUBSET Tables, Next
  PROVE  [TP!TaskNext]_(TP!taskVars) \/ \E N, k : TP!Enqueues(N, k)
<1> USE DEF T!Ids, TP!Ids
<1>1. ASSUME \/ \E a \in Agents, S \in SUBSET Tables : IngestDiscoveryReport(a, S)
             \/ \E r \in receipts : ProcessDsrReceipt(r) \/ LoseReceipt(r)
      PROVE  UNCHANGED TP!taskVars
  BY <1>1 DEF IngestDiscoveryReport, ProcessDsrReceipt, LoseReceipt, TP!taskVars
<1>2. ASSUME NEW x \in Requests, CreateDsrRequest(x)
      PROVE  \E N, k : TP!Enqueues(N, k)
  BY <1>2, PlanEnqueues DEF CreateDsrRequest
<1>3. ASSUME NEW x \in Requests, CreateInterrupted(x)
      PROVE  \E N, k : TP!Enqueues(N, k)
  BY <1>3, InterruptedPlans, PlanEnqueues
<1>4. ASSUME NEW a \in Agents, NEW s \in Slots, NEW i \in T!Ids, T!RunTask(a, s, i)
      PROVE  TP!TaskNext
  <2>1. TP!RunTask(a, s, i)
    BY <1>4 DEF T!RunTask, TP!RunTask, T!IsHead, TP!IsHead,
                T!BatchAfter, TP!BatchAfter, T!Idle, TP!Idle
  <2> QED
    BY <2>1 DEF TP!TaskNext
<1>5. ASSUME NEW a \in Agents, NEW s \in Slots, NEW i \in T!Ids, T!ThrowInTask(a, s, i)
      PROVE  TP!TaskNext
  <2>1. TP!ThrowInTask(a, s, i)
    BY <1>5 DEF T!ThrowInTask, TP!ThrowInTask, T!IsHead, TP!IsHead,
                T!DataOf, TP!DataOf, T!Idle, TP!Idle
  <2> QED
    BY <2>1 DEF TP!TaskNext
<1>6. ASSUME NEW a \in Agents, T!AgentCrash(a)
      PROVE  TP!TaskNext
  <2>1. TP!AgentCrash(a)
    BY <1>6 DEF T!AgentCrash, TP!AgentCrash, T!Idle, TP!Idle
  <2> QED
    BY <2>1 DEF TP!TaskNext
<1>7. ASSUME NEW a \in Agents, NEW s \in Slots, T!SendHeartbeat(a, s, "DORMANT")
      PROVE  TP!TaskNext
  <2>1. TP!SendHeartbeat(a, s, "DORMANT") /\ "DORMANT" \in TP!ReportedStatus
    BY <1>7 DEF T!SendHeartbeat, TP!SendHeartbeat, TP!ReportedStatus
  <2> QED
    BY <2>1 DEF TP!TaskNext
<1>8. ASSUME NEW a \in Agents, NEW d \in Rescans, T!QueueTask(a, d)
      PROVE  TP!TaskNext
  <2>1. TP!QueueTask(a, d)
    BY <1>8 DEF T!QueueTask, T!QueueTasks, T!EnqueuedFor,
                TP!QueueTask, TP!QueueTasks, TP!EnqueuedFor
  <2> QED
    BY <2>1 DEF TP!TaskNext
<1>9. ASSUME NEW a \in Agents, T!AgentStart(a)
      PROVE  TP!TaskNext
  <2>1. TP!AgentStart(a)
    BY <1>9 DEF T!AgentStart, TP!AgentStart
  <2> QED
    BY <2>1 DEF TP!TaskNext
<1>10. ASSUME NEW a \in Agents, NEW reached \in BOOLEAN, T!AgentRegister(a, reached)
       PROVE  TP!TaskNext
  <2>1. TP!AgentRegister(a, reached)
    BY <1>10 DEF T!AgentRegister, TP!AgentRegister,
                 T!RegistryRegistered, TP!RegistryRegistered
  <2> QED
    BY <2>1 DEF TP!TaskNext
<1>11. ASSUME NEW a \in Agents, NEW s \in Slots, T!ProcessHeartbeat(a, s)
       PROVE  TP!TaskNext
  <2>1. TP!ProcessHeartbeat(a, s)
    BY <1>11 DEF T!ProcessHeartbeat, TP!ProcessHeartbeat,
                 T!RegistryHeard, TP!RegistryHeard, T!Registered, TP!Registered,
                 T!TasksPulled, TP!TasksPulled, T!PulledIds, TP!PulledIds,
                 T!PendingOf, TP!PendingOf, T!Idle, TP!Idle
  <2> QED
    BY <2>1 DEF TP!TaskNext
<1>12. ASSUME NEW a \in Agents, NEW s \in Slots, T!CrashInHeartbeat(a, s)
       PROVE  TP!TaskNext
  <2>1. TP!CrashInHeartbeat(a, s)
    BY <1>12 DEF T!CrashInHeartbeat, TP!CrashInHeartbeat,
                 T!RegistryHeard, TP!RegistryHeard, T!Registered, TP!Registered,
                 T!Idle, TP!Idle
  <2> QED
    BY <2>1 DEF TP!TaskNext
<1>13. ASSUME NEW a \in Agents, NEW s \in Slots, T!ReceiveResponse(a, s)
       PROVE  TP!TaskNext
  <2>1. TP!ReceiveResponse(a, s)
    BY <1>13 DEF T!ReceiveResponse, TP!ReceiveResponse, T!Idle, TP!Idle
  <2> QED
    BY <2>1 DEF TP!TaskNext
<1>14. ASSUME NEW a \in Agents, NEW s \in Slots, T!LoseMessage(a, s)
       PROVE  TP!TaskNext
  <2>1. TP!LoseMessage(a, s)
    BY <1>14 DEF T!LoseMessage, TP!LoseMessage, T!Idle, TP!Idle
  <2> QED
    BY <2>1 DEF TP!TaskNext
<1>15. ASSUME T!TaskTick
       PROVE  TP!TaskNext
  <2>1. TP!TaskTick
    BY <1>15 DEF T!TaskTick, TP!TaskTick, T!RegistryAged, TP!RegistryAged,
                 T!Registered, TP!Registered
  <2> QED
    BY <2>1 DEF TP!TaskNext
<1> QED
  BY <1>1, <1>2, <1>3, <1>4, <1>5, <1>6, <1>7, <1>8, <1>9, <1>10, <1>11, <1>12,
     <1>13, <1>14, <1>15
     DEF Next, ExecuteTask, RunRescan, AgentCrash, SendHeartbeat

(* What AgentTasksProofs shows of the queue holds here too. *)
LEMMA QueueInvariant ==
  ASSUME TP!IInv, dataMap \in SUBSET Tables, [Next]_vars
  PROVE  TP!IInv'
<1>1. CASE [TP!TaskNext]_(TP!taskVars)
  BY <1>1, QueueAssumption, TP!NextInv
<1>2. ASSUME NEW N, NEW k, TP!Enqueues(N, k)
      PROVE  TP!IInv'
  BY <1>2, QueueAssumption, TP!EnqueuesInv
<1>3. CASE UNCHANGED vars
  BY <1>1, <1>3 DEF vars, TP!taskVars
<1> QED
  BY <1>1, <1>2, <1>3, QueueSteps

-----------------------------------------------------------------------------
(* The inductive invariant.                                                *)

Proof == [id : T!Ids, status : {"SUCCESS", "FAILED"}]
Row == [status : {"NONE", "IN_PROGRESS", "COMPLETED"}, plan : SUBSET T!Ids,
        proofs : Seq(Proof)]

(* What is not the task queue's. *)
LocalType ==
  /\ dataMap \subseteq Tables
  /\ requests \in [Requests -> Row]
  /\ receipts \subseteq Receipt
  /\ erased \subseteq Requests \X Tables
  /\ unreported \subseteq T!Ids

(* The rows of different agents have different ids, too. *)
IdsAreGlobal == \A t, u \in tasks : t.id = u.id => t = u

(* Task i erases table tb for request x at agent a. *)
IsTask(i, a, x, tb) ==
  \E t \in tasks : t.id = i /\ t.agent = a /\ t.data = Erasure(x, tb)

(* The plan of a request on record is the tasks that name it. *)
PlansAreTasks ==
  \A x \in Requests :
    /\ requests[x].status = "NONE" => requests[x] = NoRequest
    /\ \A i \in requests[x].plan : \E a \in Agents, tb \in Tables : IsTask(i, a, x, tb)
    /\ requests[x].status # "NONE" =>
         \A i, a, tb : IsTask(i, a, x, tb) => i \in requests[x].plan

(* A proof p for request x is of a task of x that was executed, and a        *)
(* SUCCESS of a deletion that took place.                                    *)
Earned(x, p) ==
  \E a \in Agents, tb \in Tables :
    /\ IsTask(p.id, a, x, tb)
    /\ executed[a][p.id] > 0
    /\ p.status = "SUCCESS" => <<x, tb>> \in erased

AllEarned ==
  /\ \A r \in receipts : Earned(r.dsr, r)
  /\ \A x \in Requests : \A p \in Proofs(x) : Earned(x, p)

(* A task has one receipt, on its way or on record. *)
OneEach ==
  /\ \A r, q \in receipts : r.id = q.id => r = q
  /\ \A x \in Requests : \A k, l \in 1..Len(requests[x].proofs) :
       requests[x].proofs[k].id = requests[x].proofs[l].id => k = l
  /\ \A r \in receipts, x \in Requests : \A p \in Proofs(x) : p.id # r.id

CompletedIsCounted == \A x \in Requests : Completed(x) => Completes(requests[x])

SagaInv == PlansAreTasks /\ AllEarned /\ OneEach /\ CompletedIsCounted

IInv == TP!IInv /\ LocalType /\ IdsAreGlobal /\ SagaInv

(* No requests, no tasks, no receipts. *)
LEMMA InitInv == Init => IInv
<1> SUFFICES ASSUME Init PROVE IInv
  OBVIOUS
<1>1. TP!IInv
  BY QueueInit, QueueAssumption, TP!InitInv DEF Init
<1>2. NoRequest \in Row /\ Len(NoRequest.proofs) = 0 /\ NoRequest.plan = {}
  BY DEF NoRequest, Row, Proof
<1>3. LocalType
  BY <1>2 DEF Init, LocalType
<1>4. IdsAreGlobal
  BY DEF Init, T!TaskInit, IdsAreGlobal
<1>5. \A x \in Requests : requests[x] = NoRequest /\ requests[x].status = "NONE" /\ Proofs(x) = {}
  BY <1>2 DEF Init, NoRequest, Proofs
<1>6. SagaInv
  BY <1>2, <1>5 DEF Init, SagaInv, PlansAreTasks, AllEarned, OneEach, CompletedIsCounted, Completed
<1> QED
  BY <1>1, <1>3, <1>4, <1>6 DEF IInv

-----------------------------------------------------------------------------
(* Rows.                                                                   *)

(* A table that is left alone. *)
LEMMA SameTasks ==
  ASSUME UNCHANGED tasks
  PROVE  /\ IdsAreGlobal => IdsAreGlobal'
         /\ \A i, a, x, tb : IsTask(i, a, x, tb) <=> IsTask(i, a, x, tb)'
BY DEF IdsAreGlobal, IsTask

(* Pulling changes the status of rows only. *)
LEMMA PulledTasks ==
  ASSUME TP!IInv, IdsAreGlobal, NEW a \in Agents, tasks' = T!TasksPulled(a)
  PROVE  /\ IdsAreGlobal'
         /\ \A i, b, x, tb : IsTask(i, b, x, tb) <=> IsTask(i, b, x, tb)'
<1> DEFINE Marked(t) == [t EXCEPT !.status = "DISPATCHED"]
<1>1. tasks' = (tasks \ T!PendingOf(a)) \cup {Marked(t) : t \in T!PendingOf(a)}
  BY DEF T!TasksPulled
<1>2. T!PendingOf(a) \subseteq tasks
  BY DEF T!PendingOf
<1>3. \A t \in tasks : Marked(t).id = t.id /\ Marked(t).agent = t.agent
                       /\ Marked(t).data = t.data
  BY QueueFacts
<1> HIDE DEF Marked
<1>4. \A t \in tasks' : \E u \in tasks :
        /\ t.id = u.id /\ t.agent = u.agent /\ t.data = u.data
        /\ t = IF u \in T!PendingOf(a) THEN Marked(u) ELSE u
  BY <1>1, <1>2, <1>3
<1>5. \A u \in tasks : \E t \in tasks' :
        t.id = u.id /\ t.agent = u.agent /\ t.data = u.data
  BY <1>1, <1>2, <1>3
<1>6. IdsAreGlobal'
  BY <1>4 DEF IdsAreGlobal
<1> QED
  BY <1>4, <1>5, <1>6 DEF IsTask

(* A rescan is no task of a plan. *)
LEMMA RescanTasks ==
  ASSUME TP!IInv, IdsAreGlobal, NEW a \in Agents, NEW d \in Rescans, T!QueueTask(a, d)
  PROVE  /\ IdsAreGlobal'
         /\ \A i, b, x, tb : IsTask(i, b, x, tb) <=> IsTask(i, b, x, tb)'
<1>1. PICK t : /\ tasks' = tasks \cup {t}
               /\ t.id = lastId + 1 /\ t.data = d
  <2> DEFINE t == [id |-> lastId + 1, agent |-> a, data |-> d, status |-> "PENDING"]
  <2>1. T!EnqueuedFor({a}, d) = {t}
    BY DEF T!EnqueuedFor
  <2>2. tasks' = tasks \cup {t}
    BY <2>1 DEF T!QueueTask, T!QueueTasks
  <2>3. t.id = lastId + 1 /\ t.data = d
    OBVIOUS
  <2> QED
    BY <2>2, <2>3
<1>2. \A u \in tasks : u.id # t.id
  <2>1. lastId \in Nat /\ \A u \in tasks : u.id \in T!Ids /\ u.id <= lastId
    BY QueueFacts
  <2> QED
    BY <1>1, <2>1 DEF T!Ids
<1>3. IdsAreGlobal'
  BY <1>1, <1>2 DEF IdsAreGlobal
<1>4. \A x, tb : t.data # Erasure(x, tb)
  <2>1. d = Rescan
    BY SagaAssumption
  <2> QED
    BY <1>1, <2>1 DEF Rescan, Erasure
<1> QED
  BY <1>1, <1>3, <1>4 DEF IsTask

(* The tasks of a new plan are new and its own. *)
LEMMA PlanTasks ==
  ASSUME TP!IInv, dataMap \in SUBSET Tables, IdsAreGlobal,
         NEW x \in Requests, NEW P \in SUBSET dataMap,
         \A tb \in P, u \in dataMap : u < tb => u \in P, QueuePlan(x, P)
  PROVE  /\ IdsAreGlobal'
         /\ \A i, a, y, tb : IsTask(i, a, y, tb) => IsTask(i, a, y, tb)'
         /\ \A i, a, y, tb : y # x /\ IsTask(i, a, y, tb)' => IsTask(i, a, y, tb)
         /\ \A i, a, tb : IsTask(i, a, x, tb)' => \E u \in P : i = PlannedId(u, dataMap)
         /\ \A tb \in P : \A i :
              i = PlannedId(tb, dataMap) => IsTask(i, Owner[tb], x, tb)'
<1>1. PICK N : /\ N = PlannedTasks(x, P)
               /\ tasks' = tasks \cup N
               /\ \A t, u \in N : t.id = u.id => t = u
               /\ \A t \in N : lastId < t.id
  BY PlanEnqueues
<1>2. \A t \in tasks : t.data.dsr # x
  BY PlanEnqueues
<1>3. \A t \in N : \E tb \in P : t.id = PlannedId(tb, dataMap) /\ t.data = Erasure(x, tb)
  BY <1>1 DEF PlannedTasks
<1>4. IdsAreGlobal'
  <2>1. \A t \in tasks, u \in N : t.id # u.id
    <3>1. lastId \in Nat /\ \A u \in tasks : u.id \in T!Ids /\ u.id <= lastId
      BY QueueFacts
    <3>2. \A u \in N : lastId < u.id
      BY <1>1
    <3> QED
      BY <3>1, <3>2 DEF T!Ids
  <2> QED
    BY <1>1, <2>1 DEF IdsAreGlobal
<1>5. \A i, a, y, tb : IsTask(i, a, y, tb) => IsTask(i, a, y, tb)'
  BY <1>1 DEF IsTask
<1>6. \A y, tb : Erasure(y, tb).dsr = y
  BY DEF Erasure
<1>7. \A i, a, y, tb : y # x /\ IsTask(i, a, y, tb)' => IsTask(i, a, y, tb)
  BY <1>1, <1>3, <1>6 DEF IsTask
<1>8. \A i, a, tb : IsTask(i, a, x, tb)' => \E u \in P : i = PlannedId(u, dataMap)
  BY <1>1, <1>2, <1>3, <1>6 DEF IsTask
<1>9. ASSUME NEW tb \in P, NEW i, i = PlannedId(tb, dataMap)
      PROVE  IsTask(i, Owner[tb], x, tb)'
  <2>1. PICK t : t = [id |-> PlannedId(tb, dataMap), agent |-> Owner[tb],
                      data |-> Erasure(x, tb), status |-> "PENDING"]
    OBVIOUS
  <2>2. t \in tasks'
    BY <1>1, <2>1 DEF PlannedTasks
  <2>3. t.id = i /\ t.agent = Owner[tb] /\ t.data = Erasure(x, tb)
    BY <1>9, <2>1
  <2> QED
    BY <2>2, <2>3 DEF IsTask
<1> QED
  BY <1>4, <1>5, <1>7, <1>8, <1>9

-----------------------------------------------------------------------------
(* Receipts.                                                               *)

(* What is earned stays earned while tasks, runs and deletions stay. *)
LEMMA EarnedKept ==
  ASSUME \A i, a, x, tb : IsTask(i, a, x, tb) => IsTask(i, a, x, tb)',
         \A a \in Agents : \A i : executed[a][i] > 0 => executed'[a][i] > 0,
         erased \subseteq erased'
  PROVE  \A x, p : Earned(x, p) => Earned(x, p)'
<1> SUFFICES ASSUME NEW x, NEW p, Earned(x, p) PROVE Earned(x, p)'
  OBVIOUS
<1>1. PICK a \in Agents, tb \in Tables :
        /\ IsTask(p.id, a, x, tb)
        /\ executed[a][p.id] > 0
        /\ p.status = "SUCCESS" => <<x, tb>> \in erased
  BY DEF Earned
<1>2. /\ IsTask(p.id, a, x, tb)'
      /\ executed'[a][p.id] > 0
      /\ p.status = "SUCCESS" => <<x, tb>> \in erased'
  BY <1>1
<1> QED
  BY <1>2 DEF Earned

(* A step that changes no request and invents no receipt. *)
LEMMA SagaKept ==
  ASSUME SagaInv, UNCHANGED requests, erased \subseteq erased',
         \A i, a, x, tb : IsTask(i, a, x, tb) => IsTask(i, a, x, tb)',
         \A i, a, x, tb :
           x \in Requests /\ requests[x].status # "NONE" /\ IsTask(i, a, x, tb)'
             => IsTask(i, a, x, tb),
         \A a \in Agents : \A i : executed[a][i] > 0 => executed'[a][i] > 0,
         \A r \in receipts' : \E q \in receipts :
           q.id = r.id /\ q.dsr = r.dsr /\ q.status = r.status,
         \A r, q \in receipts' : r.id = q.id => r = q
  PROVE  SagaInv'
<1> USE DEF SagaInv
<1>1. \A x, p : Earned(x, p) => Earned(x, p)'
  BY EarnedKept
<1>2. PlansAreTasks'
  BY DEF PlansAreTasks
<1>3. \A x \in Requests : Proofs(x)' = Proofs(x)
  BY DEF Proofs
<1>4. AllEarned'
  <2>1. \A r, q : q.id = r.id /\ q.status = r.status /\ Earned(q.dsr, q) /\ q.dsr = r.dsr
          => Earned(r.dsr, r)
    BY DEF Earned
  <2>2. \A r \in receipts' : Earned(r.dsr, r)
    BY <2>1 DEF AllEarned
  <2> QED
    BY <1>1, <1>3, <2>2 DEF AllEarned
<1>5. OneEach'
  BY <1>3 DEF OneEach
<1>6. CompletedIsCounted'
  BY DEF CompletedIsCounted, Completed, Completes
<1> QED
  BY <1>2, <1>4, <1>5, <1>6

(* A new request has all its tasks in its plan, and no receipt. *)
LEMMA CreateKept ==
  ASSUME IInv, NEW x \in Requests, CreateDsrRequest(x)
  PROVE  LocalType' /\ SagaInv'
<1> USE DEF IInv, LocalType, SagaInv
<1>0. PICK P \in SUBSET dataMap : P = dataMap
  OBVIOUS
<1>a. PICK row : row = [status |-> "IN_PROGRESS",
                        plan   |-> {PlannedId(tb, dataMap) : tb \in P},
                        proofs |-> <<>>]
  OBVIOUS
<1>1. /\ dataMap \in SUBSET Tables
      /\ \A tb \in P, u \in dataMap : u < tb => u \in P
      /\ QueuePlan(x, P)
      /\ requests' = [requests EXCEPT ![x] = row]
  BY <1>0, <1>a DEF CreateDsrRequest
<1>2. /\ \A i, a, y, tb : IsTask(i, a, y, tb) => IsTask(i, a, y, tb)'
      /\ \A i, a, y, tb : y # x /\ IsTask(i, a, y, tb)' => IsTask(i, a, y, tb)
      /\ \A i, a, tb : IsTask(i, a, x, tb)' => \E u \in P : i = PlannedId(u, dataMap)
      /\ \A tb \in P : \A i : i = PlannedId(tb, dataMap) => IsTask(i, Owner[tb], x, tb)'
  BY <1>1, PlanTasks
<1>3. /\ UNCHANGED <<exchange, executed, receipts, erased, unreported, dataMap>>
      /\ \A tb \in P : PlannedId(tb, dataMap) \in T!Ids
  BY <1>1, PlanEnqueues
<1>4. /\ row.status = "IN_PROGRESS" /\ row.proofs = <<>> /\ Len(row.proofs) = 0
      /\ \A i : i \in row.plan <=> \E tb \in P : i = PlannedId(tb, dataMap)
  BY <1>a
<1>5. row \in Row
  BY <1>3, <1>a DEF Row
<1> HIDE DEF SagaInv
<1>6. /\ requests' \in [Requests -> Row]
      /\ requests'[x] = row
      /\ \A y \in Requests : y # x => requests'[y] = requests[y]
  BY <1>1, <1>5
<1>7. LocalType'
  BY <1>3, <1>6
<1>8. \A y, p : Earned(y, p) => Earned(y, p)'
  BY <1>2, <1>3, EarnedKept
<1>9. PlansAreTasks'
  <2>1. ASSUME NEW i \in row.plan
        PROVE  \E a \in Agents, tb \in Tables : IsTask(i, a, x, tb)'
    <3>1. PICK tb \in P : i = PlannedId(tb, dataMap)
      BY <1>4
    <3>2. Owner[tb] \in Agents /\ tb \in Tables
      BY SagaAssumption
    <3> QED
      BY <1>2, <3>1, <3>2
  <2>2. \A i, a, tb : IsTask(i, a, x, tb)' => i \in row.plan
    BY <1>2, <1>4
  <2>3. ASSUME NEW y \in Requests, y # x
        PROVE  /\ requests'[y].status = "NONE" => requests'[y] = NoRequest
               /\ \A i \in requests'[y].plan :
                    \E a \in Agents, tb \in Tables : IsTask(i, a, y, tb)'
               /\ requests'[y].status # "NONE" =>
                    \A i, a, tb : IsTask(i, a, y, tb)' => i \in requests'[y].plan
    BY <1>2, <1>6, <2>3 DEF SagaInv, PlansAreTasks
  <2> QED
    BY <1>4, <1>6, <2>1, <2>2, <2>3 DEF PlansAreTasks
<1>10. /\ Proofs(x)' = {}
       /\ \A y \in Requests : y # x => Proofs(y)' = Proofs(y)
  BY <1>4, <1>6 DEF Proofs
<1>11. AllEarned'
  BY <1>3, <1>8, <1>10 DEF SagaInv, AllEarned
<1>12. OneEach'
  <2>1. \A y \in Requests : \A k, l \in 1..Len(requests'[y].proofs) :
          requests'[y].proofs[k].id = requests'[y].proofs[l].id => k = l
    BY <1>4, <1>6 DEF SagaInv, OneEach
  <2> QED
    BY <1>3, <1>10, <2>1 DEF SagaInv, OneEach
<1>13. CompletedIsCounted'
  BY <1>4, <1>6 DEF SagaInv, CompletedIsCounted, Completed
<1> QED
  BY <1>7, <1>9, <1>11, <1>12, <1>13 DEF SagaInv

-----------------------------------------------------------------------------
(* Counting.                                                               *)

(* Receipts for different tasks of a plan: as many as the plan has tasks    *)
(* are one for each of them.                                                *)
LEMMA PlanCounted ==
  ASSUME NEW row \in Row,
         \A k \in 1..Len(row.proofs) : row.proofs[k].id \in row.plan,
         \A k, l \in 1..Len(row.proofs) : row.proofs[k].id = row.proofs[l].id => k = l
  PROVE  /\ Len(row.proofs) <= MaxTasks
         /\ Completes(row) =>
              \A i \in row.plan : \E k \in 1..Len(row.proofs) : row.proofs[k].id = i
<1>1. PICK n : n = Len(row.proofs)
  OBVIOUS
<1>2. PICK plan : plan = row.plan
  OBVIOUS
<1>3. n \in Nat /\ plan \subseteq 1..MaxTasks /\ 0 \in Int /\ MaxTasks \in Nat
  BY <1>1, <1>2, SagaAssumption DEF Row, T!Ids
<1>4. PICK f : f = [k \in 1..n |-> row.proofs[k].id]
  OBVIOUS
<1>5. f \in Injection(1..n, plan)
  BY <1>1, <1>2, <1>4 DEF Injection, IsInjective
<1>6. /\ IsFiniteSet(1..n) /\ Cardinality(1..n) = n
      /\ IsFiniteSet(1..MaxTasks) /\ Cardinality(1..MaxTasks) = MaxTasks
  <2>1. \A k \in Nat : IsFiniteSet(1..k) /\ Cardinality(1..k) = k
    <3> TAKE k \in Nat
    <3>1. 1 \in Int /\ k \in Int
      OBVIOUS
    <3>2. IsFiniteSet(1..k) /\ Cardinality(1..k) = IF 1 > k THEN 0 ELSE k - 1 + 1
      BY <3>1, FS_Interval, Zenon
    <3> QED
      BY <3>2
  <2> QED
    BY <1>3, <2>1
<1>7. IsFiniteSet(plan) /\ Cardinality(plan) <= MaxTasks /\ Cardinality(plan) \in Nat
  <2>1. plan \in SUBSET (1..MaxTasks)
    BY <1>3
  <2>2. IsFiniteSet(plan) /\ Cardinality(plan) <= Cardinality(1..MaxTasks)
    BY <1>6, <2>1, FS_Subset
  <2> QED
    BY <1>6, <2>2, FS_CardinalityType
<1>8. n <= Cardinality(plan) /\ (n = Cardinality(plan) => f \in Surjection(1..n, plan))
  BY <1>5, <1>6, <1>7, FS_Injection
<1>9. ASSUME Completes(row)
      PROVE  \A i \in plan : \E k \in 1..n : row.proofs[k].id = i
  <2>1. n = Cardinality(plan)
    BY <1>1, <1>2, <1>3, <1>7, <1>8, <1>9 DEF Completes
  <2> QED
    BY <1>4, <1>8, <2>1 DEF Surjection
<1> QED
  BY <1>1, <1>2, <1>3, <1>7, <1>8, <1>9

(* The receipts on record are of the plan. *)
LEMMA ProofsArePlanned ==
  ASSUME IInv, NEW x \in Requests
  PROVE  \A p \in Proofs(x) : p.id \in requests[x].plan
<1>1. CASE requests[x].status = "NONE"
  BY <1>1 DEF IInv, SagaInv, PlansAreTasks, NoRequest, Proofs
<1>2. CASE requests[x].status # "NONE"
  BY <1>2 DEF IInv, SagaInv, PlansAreTasks, AllEarned, Earned
<1> QED
  BY <1>1, <1>2

(* A request has no more receipts than tasks, and a completed one has all. *)
LEMMA Counted ==
  ASSUME IInv, NEW x \in Requests
  PROVE  /\ Len(requests[x].proofs) <= MaxTasks
         /\ Completed(x) => \A i \in requests[x].plan : \E p \in Proofs(x) : p.id = i
<1>1. PICK row \in Row : row = requests[x]
  BY DEF IInv, LocalType
<1>2. \A k \in 1..Len(row.proofs) : row.proofs[k].id \in row.plan
  BY <1>1, ProofsArePlanned DEF Proofs
<1>3. \A k, l \in 1..Len(row.proofs) : row.proofs[k].id = row.proofs[l].id => k = l
  BY <1>1 DEF IInv, SagaInv, OneEach
<1>4. Completed(x) => Completes(row)
  BY <1>1 DEF IInv, SagaInv, CompletedIsCounted
<1>5. /\ Len(row.proofs) <= MaxTasks
      /\ Completes(row) =>
           \A i \in row.plan : \E k \in 1..Len(row.proofs) : row.proofs[k].id = i
  BY <1>2, <1>3, PlanCounted
<1>6. \A k \in 1..Len(row.proofs) : row.proofs[k] \in Proofs(x)
  BY <1>1 DEF Proofs
<1> QED
  BY <1>1, <1>4, <1>5, <1>6

-----------------------------------------------------------------------------
(* The steps of a receipt.                                                 *)

(* A row with one more receipt. *)
LEMMA RowWithProof ==
  ASSUME NEW row \in Row, NEW proof \in Proof, NEW next, next = WithProof(row, proof)
  PROVE  /\ next \in Row /\ next.plan = row.plan
         /\ next.status # "NONE"
         /\ next.status = "COMPLETED" => Completes(next)
         /\ Len(row.proofs) \in Nat
         /\ Len(next.proofs) = Len(row.proofs) + 1
         /\ next.proofs[Len(row.proofs) + 1] = proof
         /\ \A k \in 1..Len(row.proofs) : next.proofs[k] = row.proofs[k]
<1>1. PICK mid : mid = [row EXCEPT !.proofs = Append(@, proof)]
  OBVIOUS
<1>2. next = [mid EXCEPT !.status = IF Completes(mid) THEN "COMPLETED" ELSE "IN_PROGRESS"]
  BY <1>1 DEF WithProof
<1>3. /\ mid \in Row /\ mid.plan = row.plan /\ mid.proofs = Append(row.proofs, proof)
  <2>1. row.proofs \in Seq(Proof) /\ Append(row.proofs, proof) \in Seq(Proof)
    BY DEF Row
  <2>2. row = [status |-> row.status, plan |-> row.plan, proofs |-> row.proofs]
    BY DEF Row
  <2>3. mid = [status |-> row.status, plan |-> row.plan,
               proofs |-> Append(row.proofs, proof)]
    BY <1>1, <2>2
  <2> QED
    BY <2>1, <2>3 DEF Row
<1>4. /\ next.plan = mid.plan /\ next.proofs = mid.proofs
      /\ next.status = IF Completes(mid) THEN "COMPLETED" ELSE "IN_PROGRESS"
      /\ next \in Row
  BY <1>2, <1>3 DEF Row
<1>5. Completes(mid) <=> Completes(next)
  BY <1>4 DEF Completes
<1>6. row.proofs \in Seq(Proof)
  BY DEF Row
<1> QED
  BY <1>3, <1>4, <1>5, <1>6

(* A receipt on record is no longer on its way. *)
LEMMA ReceiptKept ==
  ASSUME IInv, NEW r \in receipts, ProcessDsrReceipt(r)
  PROVE  LocalType' /\ IdsAreGlobal' /\ SagaInv'
<1>1. /\ IdsAreGlobal'
      /\ \A i, a, x, tb : IsTask(i, a, x, tb) <=> IsTask(i, a, x, tb)'
  BY SameTasks DEF IInv, ProcessDsrReceipt
<1>2. /\ UNCHANGED <<tasks, executed, erased, dataMap, unreported>>
      /\ receipts' = receipts \ {r}
  BY DEF ProcessDsrReceipt
<1>3. LocalType /\ SagaInv
  BY DEF IInv
<1>4. /\ r.dsr \in Requests /\ r.id \in T!Ids /\ r.status \in {"SUCCESS", "FAILED"}
      /\ receipts' \subseteq Receipt
  BY <1>2, <1>3 DEF LocalType, Receipt
<1>5. CASE requests[r.dsr].status = "NONE"
  <2>1. UNCHANGED requests
    BY <1>5 DEF ProcessDsrReceipt
  <2>2. LocalType'
    BY <1>2, <1>3, <1>4, <2>1 DEF LocalType
  <2>3. SagaInv'
    <3>1. \A q \in receipts' : q \in receipts
      BY <1>2
    <3>2. \A q, u \in receipts' : q.id = u.id => q = u
      BY <1>3, <3>1 DEF SagaInv, OneEach
    <3>3. \A a \in Agents : \A i : executed[a][i] > 0 => executed'[a][i] > 0
      BY <1>2
    <3> QED
      BY <1>1, <1>2, <1>3, <2>1, <3>1, <3>2, <3>3, SagaKept
  <2> QED
    BY <1>1, <2>2, <2>3
<1>6. CASE requests[r.dsr].status # "NONE"
  <2>1. PICK x \in Requests : x = r.dsr
    BY <1>4
  <2>2. PICK row \in Row : row = requests[x]
    BY <1>3 DEF LocalType
  <2>3. PICK proof \in Proof : proof = [id |-> r.id, status |-> r.status]
    BY <1>4 DEF Proof
  <2>4. PICK next : next = WithProof(row, proof)
    OBVIOUS
  <2>5. requests' = [requests EXCEPT ![x] = next]
    BY <1>6, <2>1, <2>2, <2>3, <2>4 DEF ProcessDsrReceipt
  <2>6. /\ next \in Row /\ next.plan = row.plan
        /\ next.status # "NONE"
        /\ next.status = "COMPLETED" => Completes(next)
        /\ Len(row.proofs) \in Nat
        /\ Len(next.proofs) = Len(row.proofs) + 1
        /\ next.proofs[Len(row.proofs) + 1] = proof
        /\ \A k \in 1..Len(row.proofs) : next.proofs[k] = row.proofs[k]
    BY <2>4, RowWithProof
  <2>7. /\ requests' \in [Requests -> Row]
        /\ requests'[x] = next
        /\ \A y \in Requests : y # x => requests'[y] = requests[y]
    BY <1>3, <2>5, <2>6 DEF LocalType
  <2>8. LocalType'
    BY <1>2, <1>3, <1>4, <2>7 DEF LocalType
  <2>9. PlansAreTasks'
    <3>1. \A y \in Requests : requests'[y].plan = requests[y].plan
      BY <2>2, <2>6, <2>7
    <3>2. \A y \in Requests : /\ requests'[y].status # "NONE" => requests[y].status # "NONE"
                              /\ requests'[y].status = "NONE" => requests'[y] = NoRequest
      BY <1>3, <1>6, <2>1, <2>6, <2>7 DEF SagaInv, PlansAreTasks
    <3> QED
      BY <1>1, <1>3, <3>1, <3>2 DEF SagaInv, PlansAreTasks
  <2>10. /\ \A y \in Requests : y # x => Proofs(y)' = Proofs(y)
         /\ \A p \in Proofs(x)' : p \in Proofs(x) \/ p = proof
    <3>1. \A k \in 1..Len(next.proofs) : k \in 1..Len(row.proofs) \/ k = Len(row.proofs) + 1
      BY <2>6
    <3> QED
      BY <2>2, <2>6, <2>7, <3>1 DEF Proofs
  <2>11. \A y, p : Earned(y, p) => Earned(y, p)'
    <3>1. \A a \in Agents : \A i : executed[a][i] > 0 => executed'[a][i] > 0
      BY <1>2
    <3> QED
      BY <1>1, <1>2, <3>1, EarnedKept
  <2>12. proof.id = r.id /\ proof.status = r.status
    BY <2>3
  <2>13. AllEarned'
    <3>1. Earned(x, proof)
      BY <1>3, <2>1, <2>12 DEF SagaInv, AllEarned, Earned
    <3>2. \A q \in receipts' : Earned(q.dsr, q)'
      BY <1>2, <1>3, <2>11 DEF SagaInv, AllEarned
    <3>3. \A y \in Requests : \A p \in Proofs(y)' : Earned(y, p)'
      BY <1>3, <2>10, <2>11, <3>1 DEF SagaInv, AllEarned
    <3> QED
      BY <3>2, <3>3 DEF AllEarned
  <2>14. OneEach'
    <3>1. \A q, u \in receipts' : q.id = u.id => q = u
      BY <1>2, <1>3 DEF SagaInv, OneEach
    <3>2. \A p \in Proofs(x) : p.id # r.id
      BY <1>3 DEF SagaInv, OneEach
    <3>3. \A k, l \in 1..Len(next.proofs) : next.proofs[k].id = next.proofs[l].id => k = l
      <4>1. \A k \in 1..Len(row.proofs) : next.proofs[k] = row.proofs[k] /\ row.proofs[k].id # r.id
        BY <2>2, <2>6, <3>2 DEF Proofs
      <4>2. \A k, l \in 1..Len(row.proofs) : row.proofs[k].id = row.proofs[l].id => k = l
        BY <1>3, <2>2 DEF SagaInv, OneEach
      <4>3. next.proofs[Len(row.proofs) + 1].id = r.id
        BY <2>6, <2>12
      <4>4. \A k \in 1..Len(next.proofs) : k \in 1..Len(row.proofs) \/ k = Len(row.proofs) + 1
        BY <2>6
      <4> QED
        BY <4>1, <4>2, <4>3, <4>4
    <3>4. \A y \in Requests : \A k, l \in 1..Len(requests'[y].proofs) :
            requests'[y].proofs[k].id = requests'[y].proofs[l].id => k = l
      BY <1>3, <2>7, <3>3 DEF SagaInv, OneEach
    <3>5. \A q \in receipts', y \in Requests : \A p \in Proofs(y)' : p.id # q.id
      <4>1. \A q \in receipts' : q \in receipts /\ q.id # r.id
        BY <1>2, <1>3 DEF SagaInv, OneEach
      <4> QED
        BY <1>3, <2>10, <2>12, <4>1 DEF SagaInv, OneEach
    <3> QED
      BY <3>1, <3>4, <3>5 DEF OneEach
  <2>15. CompletedIsCounted'
    <3>1. \A y \in Requests : requests'[y].status = "COMPLETED" => Completes(requests'[y])
      BY <1>3, <2>6, <2>7 DEF SagaInv, CompletedIsCounted, Completed
    <3> QED
      BY <3>1 DEF CompletedIsCounted, Completed, Completes
  <2> QED
    BY <1>1, <2>8, <2>9, <2>13, <2>14, <2>15 DEF SagaInv
<1> QED
  BY <1>5, <1>6

(* A task that runs has not run before, so its receipt is the first one. *)
LEMMA ExecuteKept ==
  ASSUME IInv, NEW a \in Agents, NEW s \in Slots, NEW i \in T!Ids, ExecuteTask(a, s, i)
  PROVE  LocalType' /\ IdsAreGlobal' /\ SagaInv'
<1>1. PICK d \in T!DataOf(a, i), outcome \in Outcomes :
        /\ d.type = "TASK_DSR_EXECUTE"
        /\ receipts' = receipts \cup {ReceiptFor(a, s, i, d, outcome)}
        /\ erased' = IF outcome.deleted THEN erased \cup {<<d.dsr, d.table>>} ELSE erased
  BY DEF ExecuteTask
<1>2. /\ UNCHANGED <<tasks, dataMap, requests, unreported>>
      /\ i \in exchange[a][s].batch
      /\ executed' = [executed EXCEPT ![a][i] = @ + 1]
  BY DEF ExecuteTask, T!RunTask, T!IsHead
<1>3. LocalType /\ SagaInv /\ IdsAreGlobal
  BY DEF IInv
<1>4. /\ IdsAreGlobal'
      /\ \A j, b, x, tb : IsTask(j, b, x, tb) <=> IsTask(j, b, x, tb)'
  BY <1>2, <1>3, SameTasks
<1>5. /\ executed[a][i] = 0
      /\ executed'[a][i] > 0
      /\ \A b \in Agents : \A j : executed[b][j] > 0 => executed'[b][j] > 0
  <2>1. executed \in [Agents -> [T!Ids -> Nat]] /\ executed[a][i] = 0
    BY <1>2, QueueFacts DEF IInv
  <2>2. executed'[a][i] = 1
    BY <1>2, <2>1
  <2>3. ASSUME NEW b \in Agents, NEW j, executed[b][j] > 0
        PROVE  executed'[b][j] > 0
    <3>1. CASE b = a /\ j = i
      BY <2>2, <3>1
    <3>2. CASE ~(b = a /\ j = i)
      <4>1. executed'[b][j] = executed[b][j]
        BY <1>2, <2>1, <3>2
      <4> QED
        BY <2>3, <4>1
    <3> QED
      BY <3>1, <3>2
  <2> QED
    BY <2>1, <2>2, <2>3
<1>6. PICK x \in Requests, tb \in Tables : d = Erasure(x, tb) /\ IsTask(i, a, x, tb)
  <2>1. PICK t \in tasks : t.agent = a /\ t.id = i /\ t.data = d
    BY <1>1 DEF T!DataOf
  <2>2. d \in TaskData
    BY <2>1, QueueFacts DEF IInv
  <2>3. d \notin Rescans
    BY <1>1, SagaAssumption DEF Rescan
  <2>4. PICK x \in Requests, tb \in Tables : d = Erasure(x, tb)
    BY <2>2, <2>3 DEF TaskData
  <2> QED
    BY <2>1, <2>4 DEF IsTask
<1>7. PICK q : q = ReceiptFor(a, s, i, d, outcome)
  OBVIOUS
<1>8. /\ q.dsr = x /\ q.id = i /\ q.status = outcome.status
      /\ q \in Receipt
      /\ d.dsr = x /\ d.table = tb
      /\ outcome.status = "SUCCESS" => outcome.deleted
  <2>1. /\ outcome.status \in {"SUCCESS", "FAILED"}
        /\ outcome.status = "SUCCESS" => outcome.deleted
    BY DEF Outcomes
  <2>2. d.dsr = x /\ d.table = tb
    BY <1>6 DEF Erasure
  <2> QED
    BY <1>7, <2>1, <2>2 DEF ReceiptFor, Receipt
<1>9. /\ receipts' = receipts \cup {q}
      /\ erased \subseteq erased'
      /\ erased' \subseteq erased \cup {<<x, tb>>}
      /\ q.status = "SUCCESS" => <<x, tb>> \in erased'
  BY <1>1, <1>7, <1>8
<1>10. LocalType'
  BY <1>2, <1>3, <1>8, <1>9 DEF LocalType
<1>11. \A y, p : Earned(y, p) => Earned(y, p)'
  BY <1>4, <1>5, <1>9, EarnedKept
<1>12. \A y, p : Earned(y, p) => p.id # i
  <2> SUFFICES ASSUME NEW y, NEW p, Earned(y, p), p.id = i PROVE FALSE
    OBVIOUS
  <2>1. PICK b \in Agents, v \in Tables : IsTask(i, b, y, v) /\ executed[b][i] > 0
    BY DEF Earned
  <2>2. b = a
    BY <1>3, <1>6, <2>1 DEF IdsAreGlobal, IsTask
  <2> QED
    BY <1>5, <2>1, <2>2
<1>13. Earned(x, q)'
  <2>1. IsTask(i, a, x, tb)' /\ executed'[a][i] > 0
    BY <1>4, <1>5, <1>6
  <2> QED
    BY <1>8, <1>9, <2>1 DEF Earned
<1>14. \A y \in Requests : Proofs(y)' = Proofs(y)
  BY <1>2 DEF Proofs
<1>15. PlansAreTasks'
  BY <1>2, <1>3, <1>4 DEF SagaInv, PlansAreTasks
<1>16. AllEarned'
  BY <1>3, <1>8, <1>9, <1>11, <1>13, <1>14 DEF SagaInv, AllEarned
<1>17. OneEach'
  <2>1. /\ \A r \in receipts : r.id # q.id
        /\ \A y \in Requests : \A p \in Proofs(y) : p.id # q.id
    BY <1>3, <1>8, <1>12 DEF SagaInv, AllEarned
  <2> QED
    BY <1>2, <1>3, <1>9, <1>14, <2>1 DEF SagaInv, OneEach
<1>18. CompletedIsCounted'
  BY <1>2, <1>3 DEF SagaInv, CompletedIsCounted, Completed, Completes
<1> QED
  BY <1>4, <1>10, <1>15, <1>16, <1>17, <1>18 DEF SagaInv

-----------------------------------------------------------------------------
(* The other steps.                                                        *)

(* Processing a task counts its run and forgets no other. *)
LEMMA RunsAreCounted ==
  ASSUME TP!IInv, NEW a \in Agents, NEW i \in T!Ids,
         executed' = [executed EXCEPT ![a][i] = @ + 1]
  PROVE  \A b \in Agents : \A j : executed[b][j] > 0 => executed'[b][j] > 0
<1>1. executed \in [Agents -> [T!Ids -> Nat]]
  BY QueueFacts
<1>2. ASSUME NEW b \in Agents, NEW j, executed[b][j] > 0
      PROVE  executed'[b][j] > 0
  <2>1. CASE b = a /\ j = i
    <3>1. executed[a][i] \in Nat /\ executed'[a][i] = executed[a][i] + 1
      BY <1>1
    <3> QED
      BY <2>1, <3>1
  <2>2. CASE ~(b = a /\ j = i)
    <3>1. executed'[b][j] = executed[b][j]
      BY <1>1, <2>2
    <3> QED
      BY <1>2, <3>1
  <2> QED
    BY <2>1, <2>2
<1> QED
  BY <1>2

(* A step of the queue alone, that plans nothing. *)
LEMMA QueueKept ==
  ASSUME IInv, UNCHANGED sagaVars, IdsAreGlobal',
         \A i, a, x, tb : IsTask(i, a, x, tb) <=> IsTask(i, a, x, tb)',
         \A a \in Agents : \A i : executed[a][i] > 0 => executed'[a][i] > 0
  PROVE  LocalType' /\ IdsAreGlobal' /\ SagaInv'
<1>1. LocalType /\ SagaInv
  BY DEF IInv
<1>2. UNCHANGED <<dataMap, requests, receipts, erased, unreported>>
  BY DEF sagaVars
<1>3. LocalType'
  BY <1>1, <1>2 DEF LocalType
<1>4. /\ \A r \in receipts' : r \in receipts
      /\ \A r, q \in receipts' : r.id = q.id => r = q
  BY <1>1, <1>2 DEF SagaInv, OneEach
<1>5. SagaInv'
  BY <1>1, <1>2, <1>4, SagaKept
<1> QED
  BY <1>3, <1>5

(* A step that touches neither the requests nor the rows of the queue. *)
LEMMA ReceiptsKept ==
  ASSUME IInv, UNCHANGED <<tasks, executed, requests, erased>>,
         dataMap' \subseteq Tables, unreported' \subseteq T!Ids, receipts' \subseteq Receipt,
         \A r \in receipts' : \E q \in receipts :
           q.id = r.id /\ q.dsr = r.dsr /\ q.status = r.status,
         \A r, q \in receipts' : r.id = q.id => r = q
  PROVE  LocalType' /\ IdsAreGlobal' /\ SagaInv'
<1>1. LocalType /\ SagaInv /\ IdsAreGlobal
  BY DEF IInv
<1>2. LocalType'
  BY <1>1 DEF LocalType
<1>3. /\ IdsAreGlobal'
      /\ \A i, a, x, tb : IsTask(i, a, x, tb) <=> IsTask(i, a, x, tb)'
  BY <1>1, SameTasks
<1>4. \A a \in Agents : \A i : executed[a][i] > 0 => executed'[a][i] > 0
  OBVIOUS
<1>5. SagaInv'
  BY <1>1, <1>3, <1>4, SagaKept
<1> QED
  BY <1>2, <1>3, <1>5

(* A receipt that a crash leaves behind is the one the dead process sent. *)
LEMMA CrashKept ==
  ASSUME IInv, NEW a \in Agents, AgentCrash(a)
  PROVE  LocalType' /\ IdsAreGlobal' /\ SagaInv'
<1>1. PICK S \in SUBSET Posting(a) :
        /\ receipts' = (receipts \ Posting(a)) \cup {[r EXCEPT !.slot = "DEAD"] : r \in S}
        /\ unreported' = unreported \cup {r.id : r \in Posting(a) \ S}
  BY DEF AgentCrash
<1>2. UNCHANGED <<tasks, executed, dataMap, requests, erased>>
  BY DEF AgentCrash, T!AgentCrash
<1>3. LocalType /\ SagaInv
  BY DEF IInv
<1>4. Posting(a) \subseteq receipts /\ receipts \subseteq Receipt
  BY <1>3 DEF Posting, LocalType
<1> DEFINE Dead(r) == [r EXCEPT !.slot = "DEAD"]
<1>5. \A r \in Receipt : /\ Dead(r) \in Receipt /\ Dead(r).id = r.id
                         /\ Dead(r).dsr = r.dsr /\ Dead(r).status = r.status
                         /\ r.id \in T!Ids
  BY DEF Receipt
<1>6. \A r \in receipts' : r \in receipts \ Posting(a) \/ \E q \in S : r = Dead(q)
  BY <1>1
<1> HIDE DEF Dead
<1>7. receipts' \subseteq Receipt
  BY <1>4, <1>5, <1>6
<1>8. unreported' \subseteq T!Ids
  BY <1>1, <1>3, <1>4, <1>5 DEF LocalType
<1>9. \A r \in receipts' : \E q \in receipts :
        q.id = r.id /\ q.dsr = r.dsr /\ q.status = r.status
  BY <1>4, <1>5, <1>6
<1>10. \A r, q \in receipts' : r.id = q.id => r = q
  <2> SUFFICES ASSUME NEW r \in receipts', NEW q \in receipts', r.id = q.id
               PROVE  r = q
    OBVIOUS
  <2>1. \A u, v \in receipts : u.id = v.id => u = v
    BY <1>3 DEF SagaInv, OneEach
  <2>2. PICK u \in receipts :
          u.id = r.id /\ (u \in Posting(a) => r = Dead(u)) /\ (u \notin Posting(a) => r = u)
    BY <1>4, <1>5, <1>6
  <2>3. PICK v \in receipts :
          v.id = q.id /\ (v \in Posting(a) => q = Dead(v)) /\ (v \notin Posting(a) => q = v)
    BY <1>4, <1>5, <1>6
  <2>4. u = v
    BY <2>1, <2>2, <2>3
  <2> QED
    BY <2>2, <2>3, <2>4
<1>11. dataMap' \subseteq Tables
  BY <1>2, <1>3 DEF LocalType
<1> QED
  BY <1>2, <1>7, <1>8, <1>9, <1>10, <1>11, ReceiptsKept

(* An interrupted plan leaves tasks of a request that is not on record. *)
LEMMA InterruptedKept ==
  ASSUME IInv, NEW x \in Requests, CreateInterrupted(x)
  PROVE  LocalType' /\ IdsAreGlobal' /\ SagaInv'
<1>1. PICK P \in SUBSET dataMap :
        QueuePlan(x, P) /\ \A tb \in P, u \in dataMap : u < tb => u \in P
  BY InterruptedPlans
<1>2. LocalType /\ SagaInv /\ IdsAreGlobal /\ TP!IInv /\ dataMap \in SUBSET Tables
  BY DEF IInv, LocalType
<1>3. /\ IdsAreGlobal'
      /\ \A i, a, y, tb : IsTask(i, a, y, tb) => IsTask(i, a, y, tb)'
      /\ \A i, a, y, tb : y # x /\ IsTask(i, a, y, tb)' => IsTask(i, a, y, tb)
  BY <1>1, <1>2, PlanTasks
<1>4. /\ UNCHANGED <<executed, receipts, erased, unreported, dataMap>>
      /\ requests[x].status = "NONE"
  BY <1>1 DEF QueuePlan, Fresh
<1>5. UNCHANGED requests
  BY InterruptedPlans
<1>6. LocalType'
  BY <1>2, <1>4, <1>5 DEF LocalType
<1>7. \A a \in Agents : \A i : executed[a][i] > 0 => executed'[a][i] > 0
  BY <1>4
<1>8. /\ \A r \in receipts' : r \in receipts
      /\ \A r, q \in receipts' : r.id = q.id => r = q
  BY <1>2, <1>4 DEF SagaInv, OneEach
<1>9. SagaInv'
  BY <1>2, <1>3, <1>4, <1>5, <1>7, <1>8, SagaKept
<1> QED
  BY <1>3, <1>6, <1>9

(* The invariant is inductive. *)
LEMMA NextInv == IInv /\ [Next]_vars => IInv'
<1> SUFFICES ASSUME IInv, [Next]_vars PROVE IInv'
  OBVIOUS
<1>1. TP!IInv /\ LocalType /\ IdsAreGlobal /\ SagaInv /\ dataMap \in SUBSET Tables
  BY DEF IInv, LocalType
<1>2. TP!IInv'
  BY <1>1, QueueInvariant
<1> DEFINE Goal == LocalType' /\ IdsAreGlobal' /\ SagaInv'
<1> HIDE DEF Goal
<1>3. ASSUME NEW a \in Agents, NEW S \in SUBSET Tables, IngestDiscoveryReport(a, S)
      PROVE  Goal
  <2>1. /\ UNCHANGED <<tasks, executed, requests, erased, unreported, receipts>>
        /\ dataMap' \subseteq Tables
    BY <1>1, <1>3 DEF IngestDiscoveryReport
  <2>2. unreported' \subseteq T!Ids /\ receipts' \subseteq Receipt
    BY <1>1, <2>1 DEF LocalType
  <2>3. /\ \A r \in receipts' : r \in receipts
        /\ \A r, q \in receipts' : r.id = q.id => r = q
    BY <1>1, <2>1 DEF SagaInv, OneEach
  <2> QED
    BY <2>1, <2>2, <2>3, ReceiptsKept DEF Goal
<1>4. ASSUME NEW x \in Requests, CreateDsrRequest(x)
      PROVE  Goal
  <2>1. IdsAreGlobal'
    <3>1. PICK P \in SUBSET dataMap : P = dataMap
      OBVIOUS
    <3>2. QueuePlan(x, P) /\ \A tb \in P, u \in dataMap : u < tb => u \in P
      BY <1>4, <3>1 DEF CreateDsrRequest
    <3> QED
      BY <1>1, <3>2, PlanTasks
  <2> QED
    BY <1>4, <2>1, CreateKept DEF Goal
<1>5. ASSUME NEW x \in Requests, CreateInterrupted(x)
      PROVE  Goal
  BY <1>5, InterruptedKept DEF Goal
<1>6. ASSUME NEW r \in receipts, ProcessDsrReceipt(r)
      PROVE  Goal
  BY <1>6, ReceiptKept DEF Goal
<1>7. ASSUME NEW a \in Agents, NEW s \in Slots, NEW i \in T!Ids, ExecuteTask(a, s, i)
      PROVE  Goal
  BY <1>7, ExecuteKept DEF Goal
<1>8. ASSUME NEW r \in receipts, LoseReceipt(r)
      PROVE  Goal
  <2>1. /\ UNCHANGED <<tasks, executed, requests, erased, dataMap>>
        /\ receipts' = receipts \ {r} /\ unreported' = unreported \cup {r.id}
    BY <1>8 DEF LoseReceipt
  <2>2. dataMap' \subseteq Tables /\ receipts' \subseteq Receipt /\ unreported' \subseteq T!Ids
    BY <1>1, <2>1 DEF LocalType, Receipt
  <2>3. /\ \A q \in receipts' : q \in receipts
        /\ \A q, u \in receipts' : q.id = u.id => q = u
    BY <1>1, <2>1 DEF SagaInv, OneEach
  <2> QED
    BY <2>1, <2>2, <2>3, ReceiptsKept DEF Goal
<1>9. ASSUME NEW a \in Agents, AgentCrash(a)
      PROVE  Goal
  BY <1>9, CrashKept DEF Goal
<1>10. ASSUME UNCHANGED sagaVars, UNCHANGED tasks,
              \/ UNCHANGED executed
              \/ \E a \in Agents, i \in T!Ids :
                   executed' = [executed EXCEPT ![a][i] = @ + 1]
       PROVE  Goal
  <2>1. /\ IdsAreGlobal'
        /\ \A i, a, x, tb : IsTask(i, a, x, tb) <=> IsTask(i, a, x, tb)'
    BY <1>1, <1>10, SameTasks
  <2>2. \A a \in Agents : \A i : executed[a][i] > 0 => executed'[a][i] > 0
    BY <1>1, <1>10, RunsAreCounted
  <2> QED
    BY <1>10, <2>1, <2>2, QueueKept DEF Goal
<1>11. ASSUME NEW a \in Agents, NEW s \in Slots, NEW i \in T!Ids, RunRescan(a, s, i)
       PROVE  Goal
  <2>1. /\ UNCHANGED sagaVars /\ UNCHANGED tasks
        /\ executed' = [executed EXCEPT ![a][i] = @ + 1]
    BY <1>11 DEF RunRescan, T!RunTask, T!ThrowInTask
  <2> QED
    BY <1>10, <2>1
<1>12. ASSUME NEW a \in Agents, NEW d \in Rescans, T!QueueTask(a, d), UNCHANGED sagaVars
       PROVE  Goal
  <2>1. /\ IdsAreGlobal'
        /\ \A i, b, x, tb : IsTask(i, b, x, tb) <=> IsTask(i, b, x, tb)'
    BY <1>1, <1>12, RescanTasks
  <2>2. \A b \in Agents : \A i : executed[b][i] > 0 => executed'[b][i] > 0
    BY <1>12 DEF T!QueueTask, T!QueueTasks
  <2> QED
    BY <1>12, <2>1, <2>2, QueueKept DEF Goal
<1>13. ASSUME NEW a \in Agents, NEW s \in Slots, T!ProcessHeartbeat(a, s), UNCHANGED sagaVars
       PROVE  Goal
  <2>1. UNCHANGED executed /\ tasks' = T!TasksPulled(a)
    BY <1>13 DEF T!ProcessHeartbeat
  <2>2. /\ IdsAreGlobal'
        /\ \A i, b, x, tb : IsTask(i, b, x, tb) <=> IsTask(i, b, x, tb)'
    BY <1>1, <2>1, PulledTasks
  <2> QED
    BY <1>13, <2>1, <2>2, QueueKept DEF Goal
<1>14. ASSUME \/ \E a \in Agents, s \in Slots : SendHeartbeat(a, s)
              \/ \E a \in Agents : T!AgentStart(a) /\ UNCHANGED sagaVars
              \/ \E a \in Agents, reached \in BOOLEAN :
                   T!AgentRegister(a, reached) /\ UNCHANGED sagaVars
              \/ \E a \in Agents, s \in Slots : T!CrashInHeartbeat(a, s) /\ UNCHANGED sagaVars
              \/ \E a \in Agents, s \in Slots : T!ReceiveResponse(a, s) /\ UNCHANGED sagaVars
              \/ \E a \in Agents, s \in Slots : T!LoseMessage(a, s) /\ UNCHANGED sagaVars
              \/ T!TaskTick /\ UNCHANGED sagaVars
              \/ UNCHANGED vars
       PROVE  Goal
  <2>1. UNCHANGED sagaVars /\ UNCHANGED tasks /\ UNCHANGED executed
    BY <1>14 DEF SendHeartbeat, T!SendHeartbeat, T!AgentStart, T!AgentRegister,
                 T!CrashInHeartbeat, T!ReceiveResponse, T!LoseMessage, T!TaskTick,
                 sagaVars, vars
  <2> QED
    BY <1>10, <2>1
<1>15. Goal
  BY <1>3, <1>4, <1>5, <1>6, <1>7, <1>8, <1>9, <1>11, <1>12, <1>13, <1>14 DEF Next
<1> QED
  BY <1>2, <1>15 DEF IInv, Goal

-----------------------------------------------------------------------------
(* The theorems.                                                           *)

(* The invariant holds of every reachable state. *)
LEMMA Invariant == Spec => []IInv
BY InitInv, NextInv, PTL DEF Spec

(* A request keeps at most one receipt for each of its tasks. *)
LEMMA InvType == IInv => TypeOK
<1> SUFFICES ASSUME IInv PROVE TypeOK
  OBVIOUS
<1>1. T!TypeOK
  BY QueueType DEF IInv, TP!IInv
<1>2. LocalType
  BY DEF IInv
<1>3. \A x \in Requests : /\ requests[x].status \in {"NONE", "IN_PROGRESS", "COMPLETED"}
                          /\ requests[x].plan \subseteq T!Ids
                          /\ Len(requests[x].proofs) <= MaxTasks
  BY <1>2, Counted DEF LocalType, Row
<1> QED
  BY <1>1, <1>2, <1>3 DEF TypeOK, LocalType

(* A receipt stands for the table of its task. *)
LEMMA InvAccounted == IInv => CompletedIsAccounted
<1> SUFFICES ASSUME IInv, NEW x \in Requests, Completed(x), NEW i \in requests[x].plan
             PROVE  \E p \in Proofs(x) :
                      /\ p.id = i
                      /\ p.status = "SUCCESS" => <<x, TableOf(x, i)>> \in erased
  BY DEF CompletedIsAccounted
<1>1. PICK p \in Proofs(x) : p.id = i
  BY Counted
<1>2. PICK a \in Agents, tb \in Tables :
        /\ IsTask(i, a, x, tb)
        /\ p.status = "SUCCESS" => <<x, tb>> \in erased
  BY <1>1 DEF IInv, SagaInv, AllEarned, Earned
<1>3. TableOf(x, i) = tb
  <2>1. PICK t \in tasks : t.id = i /\ t.data = Erasure(x, tb)
    BY <1>2 DEF IsTask
  <2>2. \A v : (\E u \in tasks : u.id = i /\ u.data = Erasure(x, v)) => v = tb
    <3>1. \A v : Erasure(x, v).table = v
      BY DEF Erasure
    <3> QED
      BY <2>1, <3>1 DEF IInv, IdsAreGlobal
  <2> QED
    BY <2>1, <2>2 DEF TableOf
<1> QED
  BY <1>1, <1>2, <1>3

(* The control plane's requests, receipts and stores hold no other values; in *)
(* particular a request never gets more receipts than tasks exist.            *)
THEOREM TypeCorrect == Spec => []TypeOK
BY Invariant, InvType, PTL

(* The count of receipts that completes a request is a count of its tasks:   *)
(* each has its receipt, and a SUCCESS is a deletion that took place.        *)
THEOREM CompletedAccounted == Spec => []CompletedIsAccounted
BY Invariant, InvAccounted, PTL

(* No receipt is left that processDsrReceipt could add to a completed        *)
(* request.                                                                  *)
LEMMA NextFinal ==
  IInv /\ [Next]_vars => \A x \in Requests : Completed(x) => requests'[x] = requests[x]
<1> SUFFICES ASSUME IInv, [Next]_vars, NEW x \in Requests, Completed(x)
             PROVE  requests'[x] = requests[x]
  OBVIOUS
<1>1. requests[x].status = "COMPLETED" /\ requests \in [Requests -> Row]
  BY DEF Completed, IInv, LocalType
<1>2. ASSUME NEW y \in Requests, CreateDsrRequest(y)
      PROVE  requests'[x] = requests[x]
  BY <1>1, <1>2 DEF CreateDsrRequest, QueuePlan, Fresh
<1>3. ASSUME NEW r \in receipts, ProcessDsrReceipt(r)
      PROVE  requests'[x] = requests[x]
  <2>1. r.dsr # x
    <3> SUFFICES ASSUME r.dsr = x PROVE FALSE
      OBVIOUS
    <3>1. r.id \in requests[x].plan
      BY <1>1 DEF IInv, SagaInv, PlansAreTasks, AllEarned, Earned
    <3> QED
      BY <3>1, Counted DEF IInv, SagaInv, OneEach
  <2> QED
    BY <1>1, <1>3, <2>1 DEF ProcessDsrReceipt
<1>4. ASSUME ~(\E y \in Requests : CreateDsrRequest(y)),
             ~(\E r \in receipts : ProcessDsrReceipt(r))
      PROVE  UNCHANGED requests
  BY <1>4 DEF Next, vars, sagaVars, IngestDiscoveryReport, CreateInterrupted, ExecuteTask,
              RunRescan, LoseReceipt, AgentCrash, SendHeartbeat
<1> QED
  BY <1>2, <1>3, <1>4

(* A completed request is final: no late, repeated or stray receipt changes  *)
(* it, whatever processDsrReceipt leaves unchecked.                          *)
THEOREM CompletedFinal == Spec => CompletedIsFinal
<1>1. IInv /\ [Next]_vars
        => [\A x \in Requests : Completed(x) => requests'[x] = requests[x]]_vars
  BY NextFinal
<1> QED
  BY <1>1, Invariant, PTL DEF Spec, CompletedIsFinal
=============================================================================
