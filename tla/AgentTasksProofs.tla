-------------------------- MODULE AgentTasksProofs --------------------------
(***************************************************************************)
(* The task queue hands every task over at most once, oldest first and to  *)
(* one place only, for any number of agents, overlapping heartbeats and    *)
(* tasks and under every fault.                                            *)
(***************************************************************************)
EXTENDS AgentTasks, TLAPS

(* One row for each task of an agent, none newer than the last handler. *)
RowsAreTasks ==
  /\ \A t, u \in tasks : t.agent = u.agent /\ t.id = u.id => t = u
  /\ \A t \in tasks : t.id <= lastId

(* What is in a batch or processed is DISPATCHED; in flight it is not yet    *)
(* processed; processed it is processed once; and it is in one batch only.   *)
Placed ==
  /\ \A a \in Agents, s \in Slots : \A i \in exchange[a][s].batch :
       HasRow(a, i, "DISPATCHED") /\ executed[a][i] = 0
  /\ \A a \in Agents, i \in Ids :
       executed[a][i] > 0 => HasRow(a, i, "DISPATCHED") /\ executed[a][i] = 1
  /\ \A a \in Agents, s, r \in Slots : \A i \in exchange[a][s].batch :
       i \in exchange[a][r].batch => s = r

(* Only an answer and what became of it carry tasks. *)
RequestsAreEmpty ==
  \A a \in Agents, s \in Slots :
    exchange[a][s].stage \in {"IDLE", "REQUEST", "ORPHAN"} => exchange[a][s].batch = {}

IInv == TypeOK /\ RowsAreTasks /\ DispatchedInOrder /\ Placed /\ RequestsAreEmpty

-----------------------------------------------------------------------------
(* Types.                                                                  *)

(* The initial tables and daemons are well typed. *)
LEMMA InitType == TaskInit => TypeOK
BY TasksAssumption
   DEF TaskInit, TypeOK, NoRow, Idle, Exchange, Ids

(* The steps of one exchange keep its type, and pulling keeps the rows'. *)
LEMMA PulledType ==
  ASSUME TypeOK, NEW a \in Agents
  PROVE  TasksPulled(a) \in SUBSET TaskRow /\ PulledIds(a) \in SUBSET Ids
<1>1. \A t \in PendingOf(a) : t \in TaskRow
  BY DEF TypeOK, PendingOf
<1>2. \A t \in TaskRow : t.id \in Ids
  BY DEF TaskRow
<1>3. \A t \in TaskRow : [t EXCEPT !.status = "DISPATCHED"] \in TaskRow
  BY DEF TaskRow
<1> QED
  BY <1>1, <1>2, <1>3 DEF TypeOK, TasksPulled, PulledIds

(* An exchange remains one when its stage or its batch changes. *)
LEMMA ExchangeTypes ==
  /\ Idle \in Exchange
  /\ \A e \in Exchange, x \in {"ORPHAN", "BATCH"} : [e EXCEPT !.stage = x] \in Exchange
  /\ \A e \in Exchange : \A B \in SUBSET e.batch : [e EXCEPT !.batch = B] \in Exchange
BY DEF Idle, Exchange

(* An agent's row remains one when its silence grows. *)
LEMMA RowTypes ==
  \A r \in [status : AgentStatus \cup {"NONE"}, silence : 0..(OfflineAge + 1)] :
    r.silence <= OfflineAge =>
      [r EXCEPT !.silence = r.silence + 1]
        \in [status : AgentStatus \cup {"NONE"}, silence : 0..(OfflineAge + 1)]
BY TasksAssumption

(* A handler that queues a task for each of some agents. *)
FanOut(S, d) ==
  QueueTasks(S, d) /\ UNCHANGED <<registry, phase, exchange, executed>>

(* A handler that queues the rows of N and draws ids up to k. *)
Enqueues(N, k) ==
  /\ k \in lastId..MaxTasks
  /\ lastId' = k
  /\ tasks' = tasks \cup N
  /\ N \subseteq TaskRow
  /\ \A t \in N : t.status = "PENDING" /\ lastId < t.id /\ t.id <= k
  /\ \A t, u \in N : t.agent = u.agent /\ t.id = u.id => t = u
  /\ UNCHANGED <<registry, phase, exchange, executed>>

(* A fan-out draws one id and queues a row with it for each agent. *)
LEMMA FanOutEnqueues ==
  ASSUME TypeOK, NEW S \in SUBSET Agents, NEW d \in Data, FanOut(S, d)
  PROVE  \E N, k : Enqueues(N, k)
<1>1. PICK N : N = EnqueuedFor(S, d)
  OBVIOUS
<1>2. PICK k : k = lastId + 1
  OBVIOUS
<1>3. lastId \in Nat /\ k \in Ids /\ k \in lastId..MaxTasks
  BY <1>2, TasksAssumption DEF TypeOK, FanOut, QueueTasks, Ids
<1>4. N \subseteq TaskRow
  BY <1>1, <1>2, <1>3 DEF EnqueuedFor, TaskRow
<1>5. /\ \A t \in N : t.status = "PENDING" /\ t.id = k
      /\ \A t, u \in N : t.agent = u.agent => t = u
  BY <1>1, <1>2 DEF EnqueuedFor
<1>6. /\ lastId' = k /\ tasks' = tasks \cup N
      /\ UNCHANGED <<registry, phase, exchange, executed>>
  BY <1>1, <1>2 DEF FanOut, QueueTasks
<1>7. \A t \in N : lastId < t.id /\ t.id <= k
  BY <1>2, <1>3, <1>5
<1> QED
  BY <1>3, <1>4, <1>5, <1>6, <1>7 DEF Enqueues

(* Queueing keeps the types. *)
LEMMA EnqueuesType ==
  ASSUME TypeOK, NEW N, NEW k, Enqueues(N, k)
  PROVE  TypeOK'
<1>1. k \in 0..MaxTasks
  BY TasksAssumption DEF TypeOK, Enqueues
<1> QED
  BY <1>1 DEF TypeOK, Enqueues

(* Every step keeps the types. *)
LEMMA NextType ==
  ASSUME TypeOK, [TaskNext]_taskVars
  PROVE  TypeOK'
<1> USE DEF TypeOK
<1> DEFINE RowType == [status : AgentStatus \cup {"NONE"}, silence : 0..(OfflineAge + 1)]
<1>1. ASSUME NEW a \in Agents, NEW d \in Data, QueueTask(a, d)
      PROVE  TypeOK'
  BY <1>1, FanOutEnqueues, EnqueuesType DEF QueueTask, FanOut
<1>2. ASSUME NEW a \in Agents, AgentStart(a)
      PROVE  TypeOK'
  BY <1>2 DEF AgentStart
<1>3. ASSUME NEW a \in Agents, NEW reached \in BOOLEAN, AgentRegister(a, reached)
      PROVE  TypeOK'
  <2>1. RegistryRegistered(a) \in [Agents -> RowType]
    BY TasksAssumption DEF RegistryRegistered, AgentStatus
  <2> QED
    BY <1>3, <2>1 DEF AgentRegister
<1>4. ASSUME NEW a \in Agents, NEW s \in Slots, NEW status \in ReportedStatus,
             SendHeartbeat(a, s, status)
      PROVE  TypeOK'
  <2>1. [stage |-> "REQUEST", status |-> status, batch |-> {}] \in Exchange
    BY DEF Exchange
  <2> QED
    BY <1>4, <2>1 DEF SendHeartbeat
<1>5. \A a \in Agents, s \in Slots :
        exchange[a][s].stage \in {"REQUEST", "ORPHAN"} =>
          RegistryHeard(a, exchange[a][s].status) \in [Agents -> RowType]
  <2> SUFFICES ASSUME NEW a \in Agents, NEW s \in Slots
               PROVE  RegistryHeard(a, exchange[a][s].status) \in [Agents -> RowType]
    OBVIOUS
  <2>1. exchange[a][s].status \in ReportedStatus \cup {"NONE"}
    BY DEF Exchange
  <2> QED
    BY <2>1, TasksAssumption DEF RegistryHeard, AgentStatus
<1>6. \A a \in Agents, s \in Slots : exchange[a][s] \in Exchange
  OBVIOUS
<1>7. ASSUME NEW a \in Agents, NEW s \in Slots, ProcessHeartbeat(a, s)
      PROVE  TypeOK'
  <2>1. [stage |-> "RESPONSE", status |-> "NONE", batch |-> PulledIds(a)] \in Exchange
    BY PulledType DEF Exchange
  <2> QED
    BY <1>5, <1>7, <2>1, PulledType, ExchangeTypes DEF ProcessHeartbeat
<1>8. ASSUME NEW a \in Agents, NEW s \in Slots, CrashInHeartbeat(a, s)
      PROVE  TypeOK'
  BY <1>5, <1>8, ExchangeTypes DEF CrashInHeartbeat
<1>9. ASSUME NEW a \in Agents, NEW s \in Slots, ReceiveResponse(a, s)
      PROVE  TypeOK'
  <2>1. [exchange[a][s] EXCEPT !.stage = "BATCH"] \in Exchange
    BY <1>6, ExchangeTypes
  <2> QED
    BY <1>9, <2>1, ExchangeTypes DEF ReceiveResponse
<1>10. ASSUME NEW a \in Agents, NEW s \in Slots, LoseMessage(a, s)
       PROVE  TypeOK'
  BY <1>10, ExchangeTypes DEF LoseMessage
<1>11. ASSUME NEW a \in Agents, NEW s \in Slots, NEW i \in Ids,
              RunTask(a, s, i) \/ ThrowInTask(a, s, i)
       PROVE  TypeOK'
  <2>1. BatchAfter(a, s, i) \in Exchange
    <3>1. exchange[a][s].batch \ {i} \in SUBSET exchange[a][s].batch
      OBVIOUS
    <3>2. [exchange[a][s] EXCEPT !.batch = exchange[a][s].batch \ {i}] \in Exchange
      BY <1>6, <3>1, ExchangeTypes
    <3> QED
      BY <3>2, ExchangeTypes DEF BatchAfter
  <2>2. [executed EXCEPT ![a][i] = @ + 1] \in [Agents -> [Ids -> Nat]]
    OBVIOUS
  <2>3. exchange' \in [Agents -> [Slots -> Exchange]]
    <3>1. \A e \in Exchange :
            [exchange EXCEPT ![a][s] = e] \in [Agents -> [Slots -> Exchange]]
      OBVIOUS
    <3>2. \/ exchange' = [exchange EXCEPT ![a][s] = BatchAfter(a, s, i)]
          \/ exchange' = [exchange EXCEPT ![a][s] = Idle]
      BY <1>11 DEF RunTask, ThrowInTask
    <3> QED
      BY <2>1, <3>1, <3>2, ExchangeTypes
  <2>4. executed' \in [Agents -> [Ids -> Nat]]
    BY <1>11, <2>2 DEF RunTask, ThrowInTask
  <2> QED
    BY <1>11, <2>3, <2>4 DEF RunTask, ThrowInTask
<1>12. ASSUME NEW a \in Agents, AgentCrash(a)
       PROVE  TypeOK'
  <2>1. \A s \in Slots : [exchange[a][s] EXCEPT !.stage = "ORPHAN"] \in Exchange
    BY <1>6, ExchangeTypes
  <2>2. exchange' \in [Agents -> [Slots -> Exchange]]
    BY <1>12, <2>1, ExchangeTypes DEF AgentCrash
  <2> QED
    BY <1>12, <2>2 DEF AgentCrash
<1>13. ASSUME TaskTick
       PROVE  TypeOK'
  <2>1. \A a \in Agents : registry[a].silence <= OfflineAge =>
          [registry[a] EXCEPT !.silence = registry[a].silence + 1] \in RowType
    BY RowTypes
  <2>2. RegistryAged \in [Agents -> RowType]
    BY <2>1 DEF RegistryAged
  <2> QED
    BY <1>13, <2>2 DEF TaskTick
<1>14. ASSUME UNCHANGED taskVars
       PROVE  TypeOK'
  BY <1>14 DEF taskVars
<1> QED
  BY <1>1, <1>2, <1>3, <1>4, <1>7, <1>8, <1>9, <1>10, <1>11, <1>12, <1>13, <1>14
     DEF TaskNext

(* The control plane and its agents only ever hold values of their types. *)
THEOREM TypeCorrect == TaskSpec => []TypeOK
<1>1. TypeOK /\ [TaskNext]_taskVars => TypeOK'
  BY NextType
<1> QED
  BY InitType, <1>1, PTL DEF TaskSpec

-----------------------------------------------------------------------------
(* Rows.                                                                   *)

(* Queueing adds rows that are newer than all others. *)
LEMMA QueueRows ==
  ASSUME TypeOK, RowsAreTasks, DispatchedInOrder, NEW N, NEW k, Enqueues(N, k)
  PROVE  RowsAreTasks' /\ DispatchedInOrder'
<1>1. /\ tasks' = tasks \cup N /\ lastId' = k
      /\ \A t \in N : t.id \in Nat /\ t.status = "PENDING" /\ lastId < t.id /\ t.id <= k
      /\ \A t, u \in N : t.agent = u.agent /\ t.id = u.id => t = u
  BY DEF Enqueues, TaskRow, Ids
<1>2. /\ lastId \in Nat /\ k \in Nat /\ lastId <= k
      /\ \A t \in tasks : t.id \in Nat /\ t.id <= lastId
  BY TasksAssumption DEF TypeOK, TaskRow, Ids, RowsAreTasks, Enqueues
<1>3. RowsAreTasks'
  <2>1. \A t \in tasks' : t.id <= k
    BY <1>1, <1>2
  <2>2. \A t, u \in tasks' : t.agent = u.agent /\ t.id = u.id => t = u
    BY <1>1, <1>2 DEF RowsAreTasks
  <2> QED
    BY <1>1, <2>1, <2>2 DEF RowsAreTasks
<1>4. DispatchedInOrder'
  <2> SUFFICES ASSUME NEW t \in tasks', NEW u \in tasks', t.agent = u.agent,
                      t.status = "PENDING", u.status = "DISPATCHED"
               PROVE  u.id < t.id
    BY DEF DispatchedInOrder
  <2>1. u \in tasks
    BY <1>1
  <2>2. CASE t \in tasks
    BY <2>1, <2>2 DEF DispatchedInOrder
  <2>3. CASE t \in N
    BY <1>1, <1>2, <2>1, <2>3
  <2> QED
    BY <1>1, <2>2, <2>3
<1> QED
  BY <1>3, <1>4

(* Pulling the tasks of an agent leaves it none that is PENDING. *)
LEMMA PullRows ==
  ASSUME TypeOK, RowsAreTasks, DispatchedInOrder, NEW a \in Agents,
         tasks' = TasksPulled(a), UNCHANGED lastId
  PROVE  /\ RowsAreTasks'
         /\ DispatchedInOrder'
         /\ \A b \in Agents, i \in Ids :
              HasRow(b, i, "DISPATCHED") => HasRow(b, i, "DISPATCHED")'
         /\ \A i \in PulledIds(a) : HasRow(a, i, "DISPATCHED")'
<1> DEFINE Marked(t) == [t EXCEPT !.status = "DISPATCHED"]
<1>1. \A t \in TaskRow : /\ Marked(t).id = t.id
                         /\ Marked(t).agent = t.agent
                         /\ Marked(t).status = "DISPATCHED"
  BY DEF TaskRow
<1>2. tasks \subseteq TaskRow
  BY DEF TypeOK
<1>3. tasks' = (tasks \ PendingOf(a)) \cup {Marked(t) : t \in PendingOf(a)}
  BY DEF TasksPulled
<1>4. PendingOf(a) = {t \in tasks : t.agent = a /\ t.status = "PENDING"}
  BY DEF PendingOf
<1> HIDE DEF Marked
<1>5. \A t \in tasks' : \E u \in tasks :
        /\ t.id = u.id /\ t.agent = u.agent
        /\ \/ t = u /\ u \notin PendingOf(a)
           \/ t = Marked(u) /\ u \in PendingOf(a)
  <2> TAKE t \in tasks'
  <2>1. CASE t \in tasks \ PendingOf(a)
    BY <2>1
  <2>2. CASE t \in {Marked(u) : u \in PendingOf(a)}
    <3>1. PICK u \in PendingOf(a) : t = Marked(u)
      BY <2>2
    <3>2. u \in tasks /\ u \in TaskRow
      BY <1>2, <1>4, <3>1
    <3> QED
      BY <1>1, <3>1, <3>2
  <2> QED
    BY <1>3, <2>1, <2>2
<1>6. RowsAreTasks'
  <2>1. ASSUME NEW t \in tasks', NEW u \in tasks', t.agent = u.agent, t.id = u.id
        PROVE  t = u
    BY <1>5, <2>1 DEF RowsAreTasks
  <2>2. \A t \in tasks' : t.id <= lastId
    BY <1>5 DEF RowsAreTasks
  <2> QED
    BY <2>1, <2>2 DEF RowsAreTasks
<1>7. \A t \in tasks' : t.status = "PENDING" => t \in tasks /\ t.agent # a
  <2>1. \A u \in PendingOf(a) : Marked(u).status = "DISPATCHED"
    BY <1>1, <1>2, <1>4
  <2> QED
    BY <1>3, <1>4, <2>1
<1>8. DispatchedInOrder'
  <2> SUFFICES ASSUME NEW t \in tasks', NEW u \in tasks', t.agent = u.agent,
                      t.status = "PENDING", u.status = "DISPATCHED"
               PROVE  u.id < t.id
    BY DEF DispatchedInOrder
  <2>1. t \in tasks /\ t.agent # a
    BY <1>7
  <2>2. u \in tasks
    BY <1>1, <1>2, <1>3, <1>4, <2>1
  <2> QED
    BY <2>1, <2>2 DEF DispatchedInOrder
<1>9. ASSUME NEW b \in Agents, NEW i \in Ids, HasRow(b, i, "DISPATCHED")
      PROVE  HasRow(b, i, "DISPATCHED")'
  <2>1. PICK t \in tasks : t.agent = b /\ t.id = i /\ t.status = "DISPATCHED"
    BY <1>9 DEF HasRow
  <2>2. t \in tasks'
    BY <1>3, <1>4, <2>1
  <2> QED
    BY <2>1, <2>2 DEF HasRow
<1>10. ASSUME NEW i \in PulledIds(a)
       PROVE  HasRow(a, i, "DISPATCHED")'
  <2>1. PICK t \in PendingOf(a) : t.id = i
    BY DEF PulledIds
  <2>2. Marked(t) \in tasks'
    BY <1>3
  <2>3. Marked(t).id = i /\ Marked(t).agent = a /\ Marked(t).status = "DISPATCHED"
    BY <1>1, <1>2, <1>4, <2>1
  <2> QED
    BY <2>2, <2>3 DEF HasRow
<1> QED
  BY <1>6, <1>8, <1>9, <1>10

-----------------------------------------------------------------------------
(* Places.                                                                 *)

(* Taking tasks out of batches disturbs nothing. *)
LEMMA ShrinkPlaces ==
  ASSUME Placed, UNCHANGED <<tasks, executed>>,
         \A a \in Agents, s \in Slots :
           exchange'[a][s].batch \subseteq exchange[a][s].batch
  PROVE  Placed'
<1>1. \A a, i : HasRow(a, i, "DISPATCHED")' <=> HasRow(a, i, "DISPATCHED")
  BY DEF HasRow
<1> QED
  BY <1>1 DEF Placed

(* Queueing leaves batches and processed tasks alone. *)
LEMMA QueuePlaces ==
  ASSUME Placed, NEW N, NEW k, Enqueues(N, k)
  PROVE  Placed'
<1>1. \A b, i : HasRow(b, i, "DISPATCHED") => HasRow(b, i, "DISPATCHED")'
  BY DEF HasRow, Enqueues
<1>2. UNCHANGED <<exchange, executed>>
  BY DEF Enqueues
<1> QED
  BY <1>1, <1>2 DEF Placed

(* What a heartbeat pulls was in no batch and had not been processed. *)
LEMMA PullPlaces ==
  ASSUME TypeOK, RowsAreTasks, DispatchedInOrder, Placed,
         NEW a \in Agents, NEW s \in Slots, ProcessHeartbeat(a, s)
  PROVE  Placed'
<1>1. /\ \A b \in Agents, i \in Ids :
           HasRow(b, i, "DISPATCHED") => HasRow(b, i, "DISPATCHED")'
      /\ \A i \in PulledIds(a) : HasRow(a, i, "DISPATCHED")'
  BY PullRows DEF ProcessHeartbeat
<1>2. \A i \in PulledIds(a) : ~HasRow(a, i, "DISPATCHED")
  BY DEF PulledIds, PendingOf, HasRow, RowsAreTasks
<1>3. PulledIds(a) \subseteq Ids
  BY PulledType
<1>4. \A b \in Agents, r \in Slots : exchange[b][r].batch \subseteq Ids
  BY DEF TypeOK, Exchange
<1>5. /\ exchange'[a][s].batch = PulledIds(a) \/ exchange'[a][s].batch = {}
      /\ \A b \in Agents, r \in Slots :
           b # a \/ r # s => exchange'[b][r] = exchange[b][r]
  BY DEF ProcessHeartbeat, Idle, TypeOK
<1>6. UNCHANGED executed
  BY DEF ProcessHeartbeat
<1>7. \A i \in PulledIds(a) :
        /\ executed[a][i] = 0
        /\ \A r \in Slots : i \notin exchange[a][r].batch
  BY <1>2, <1>3 DEF Placed, TypeOK
<1>8. ASSUME NEW b \in Agents, NEW r \in Slots, NEW i \in exchange'[b][r].batch
      PROVE  HasRow(b, i, "DISPATCHED")' /\ executed'[b][i] = 0
  <2>1. CASE b = a /\ r = s
    BY <1>1, <1>5, <1>6, <1>7, <2>1
  <2>2. CASE b # a \/ r # s
    BY <1>1, <1>4, <1>5, <1>6, <2>2 DEF Placed
  <2> QED
    BY <2>1, <2>2
<1>9. ASSUME NEW b \in Agents, NEW i \in Ids, executed'[b][i] > 0
      PROVE  HasRow(b, i, "DISPATCHED")' /\ executed'[b][i] = 1
  BY <1>1, <1>6, <1>9 DEF Placed
<1>10. ASSUME NEW b \in Agents, NEW q \in Slots, NEW r \in Slots,
              NEW i \in exchange'[b][q].batch, i \in exchange'[b][r].batch
       PROVE  q = r
  BY <1>5, <1>7, <1>10 DEF Placed
<1> QED
  BY <1>8, <1>9, <1>10 DEF Placed

(* Processing the head of a batch takes it out of the only batch it is in. *)
LEMMA RunPlaces ==
  ASSUME TypeOK, Placed, NEW a \in Agents, NEW s \in Slots, NEW i \in Ids,
         RunTask(a, s, i) \/ ThrowInTask(a, s, i)
  PROVE  Placed'
<1>1. /\ i \in exchange[a][s].batch
      /\ executed' = [executed EXCEPT ![a][i] = @ + 1]
      /\ UNCHANGED tasks
  BY DEF RunTask, ThrowInTask, IsHead
<1>2. executed[a][i] = 0 /\ HasRow(a, i, "DISPATCHED")
  BY <1>1 DEF Placed
<1>3. /\ executed'[a][i] = 1
      /\ \A b \in Agents, j \in Ids : b # a \/ j # i => executed'[b][j] = executed[b][j]
  BY <1>1, <1>2 DEF TypeOK
<1>4. BatchAfter(a, s, i).batch \subseteq exchange[a][s].batch \ {i}
  <2>1. exchange[a][s] \in Exchange
    BY DEF TypeOK
  <2>2. \A e \in Exchange : \A B : [e EXCEPT !.batch = B].batch = B
    BY DEF Exchange
  <2> QED
    BY <2>1, <2>2 DEF BatchAfter, Idle
<1>5. /\ exchange'[a][s].batch \subseteq exchange[a][s].batch \ {i}
      /\ \A b \in Agents, r \in Slots :
           b # a \/ r # s => exchange'[b][r] = exchange[b][r]
  <2>1. PICK e : /\ exchange' = [exchange EXCEPT ![a][s] = e]
                 /\ e.batch \subseteq exchange[a][s].batch \ {i}
    BY <1>4 DEF RunTask, ThrowInTask, Idle
  <2> QED
    BY <2>1 DEF TypeOK
<1>6. \A b, j : HasRow(b, j, "DISPATCHED")' <=> HasRow(b, j, "DISPATCHED")
  BY <1>1 DEF HasRow
<1>7. \A b \in Agents, r \in Slots : exchange[b][r].batch \subseteq Ids
  BY DEF TypeOK, Exchange
<1>8. \A b \in Agents, r \in Slots :
        /\ exchange'[b][r].batch \subseteq exchange[b][r].batch
        /\ b = a => i \notin exchange'[b][r].batch
  BY <1>1, <1>5 DEF Placed
<1> QED
  BY <1>2, <1>3, <1>6, <1>7, <1>8 DEF Placed

-----------------------------------------------------------------------------
(* The inductive invariant.                                                *)

(* No task, nothing in flight. *)
LEMMA InitInv == TaskInit => IInv
BY InitType
   DEF TaskInit, IInv, RowsAreTasks, DispatchedInOrder, Placed, RequestsAreEmpty,
       Idle, HasRow

(* Steps that leave the tables alone keep all that is said of the rows. *)
LEMMA SameRows ==
  ASSUME RowsAreTasks, DispatchedInOrder, UNCHANGED <<tasks, lastId>>
  PROVE  RowsAreTasks' /\ DispatchedInOrder'
BY DEF RowsAreTasks, DispatchedInOrder

(* A step leaves requests empty if what it writes to an exchange is empty or *)
(* an answer.                                                                *)
LEMMA SameRequests ==
  ASSUME RequestsAreEmpty,
         \A a \in Agents, s \in Slots :
           \/ exchange'[a][s] = exchange[a][s]
           \/ exchange'[a][s].batch = {}
           \/ exchange'[a][s].stage \in {"RESPONSE", "BATCH"}
  PROVE  RequestsAreEmpty'
BY DEF RequestsAreEmpty

(* Every step leaves requests empty. *)
LEMMA NextRequests ==
  ASSUME TypeOK, RequestsAreEmpty, TaskNext
  PROVE  RequestsAreEmpty'
<1>1. CASE UNCHANGED exchange
  BY <1>1, SameRequests
<1>2. ASSUME NEW a \in Agents, NEW s \in Slots, NEW e \in Exchange,
             exchange' = [exchange EXCEPT ![a][s] = e],
             e.batch = {} \/ e.stage \in {"RESPONSE", "BATCH"}
      PROVE  RequestsAreEmpty'
  <2>1. exchange'[a][s] = e
    BY <1>2 DEF TypeOK
  <2>2. \A b \in Agents, r \in Slots :
          b # a \/ r # s => exchange'[b][r] = exchange[b][r]
    BY <1>2 DEF TypeOK
  <2> QED
    BY <1>2, <2>1, <2>2, SameRequests
<1>3. Idle \in Exchange /\ Idle.batch = {}
  BY ExchangeTypes DEF Idle
<1>4. \A a \in Agents, s \in Slots : exchange[a][s] \in Exchange
  BY DEF TypeOK
<1>5. ASSUME NEW a \in Agents, NEW s \in Slots, NEW status \in ReportedStatus,
             SendHeartbeat(a, s, status)
      PROVE  RequestsAreEmpty'
  <2>1. [stage |-> "REQUEST", status |-> status, batch |-> {}] \in Exchange
    BY DEF Exchange
  <2> QED
    BY <1>2, <1>5, <2>1 DEF SendHeartbeat
<1>6. ASSUME NEW a \in Agents, NEW s \in Slots, ProcessHeartbeat(a, s)
      PROVE  RequestsAreEmpty'
  <2>1. [stage |-> "RESPONSE", status |-> "NONE", batch |-> PulledIds(a)] \in Exchange
    BY PulledType DEF Exchange
  <2> QED
    BY <1>2, <1>3, <1>6, <2>1 DEF ProcessHeartbeat
<1>7. ASSUME NEW a \in Agents, NEW s \in Slots,
             CrashInHeartbeat(a, s) \/ LoseMessage(a, s)
      PROVE  RequestsAreEmpty'
  BY <1>2, <1>3, <1>7 DEF CrashInHeartbeat, LoseMessage
<1>8. ASSUME NEW a \in Agents, NEW s \in Slots, ReceiveResponse(a, s)
      PROVE  RequestsAreEmpty'
  <2>1. /\ [exchange[a][s] EXCEPT !.stage = "BATCH"] \in Exchange
        /\ [exchange[a][s] EXCEPT !.stage = "BATCH"].stage = "BATCH"
    BY <1>4, ExchangeTypes DEF Exchange
  <2> QED
    BY <1>2, <1>3, <1>8, <2>1 DEF ReceiveResponse
<1>9. ASSUME NEW a \in Agents, NEW s \in Slots, NEW i \in Ids,
             RunTask(a, s, i) \/ ThrowInTask(a, s, i)
      PROVE  RequestsAreEmpty'
  <2> DEFINE rest == exchange[a][s].batch \ {i}
             e == [exchange[a][s] EXCEPT !.batch = rest]
  <2>1. e \in Exchange /\ e.stage = exchange[a][s].stage
    BY <1>4, ExchangeTypes DEF Exchange
  <2>2. exchange[a][s].stage = "BATCH"
    BY <1>9 DEF RunTask, ThrowInTask
  <2>3. BatchAfter(a, s, i) = Idle \/ BatchAfter(a, s, i) = e
    BY DEF BatchAfter
  <2> HIDE DEF e
  <2> QED
    BY <1>2, <1>3, <1>9, <2>1, <2>2, <2>3 DEF RunTask, ThrowInTask
<1>10. ASSUME NEW a \in Agents, AgentCrash(a)
       PROVE  RequestsAreEmpty'
  <2>1. \A s \in Slots : exchange[a][s].stage \in {"REQUEST", "ORPHAN"} =>
          [exchange[a][s] EXCEPT !.stage = "ORPHAN"].batch = {}
    BY <1>4 DEF RequestsAreEmpty, Exchange
  <2>2. \A s \in Slots : exchange'[a][s].batch = {}
    BY <1>3, <1>10, <2>1 DEF AgentCrash, TypeOK
  <2>3. \A b \in Agents : b # a => exchange'[b] = exchange[b]
    BY <1>10 DEF AgentCrash, TypeOK
  <2> QED
    BY <2>2, <2>3, SameRequests
<1>11. ASSUME \/ \E a \in Agents, d \in Data : QueueTask(a, d)
              \/ \E a \in Agents : AgentStart(a)
              \/ \E a \in Agents, reached \in BOOLEAN : AgentRegister(a, reached)
              \/ TaskTick
       PROVE  RequestsAreEmpty'
  BY <1>1, <1>11 DEF QueueTask, AgentStart, AgentRegister, TaskTick
<1> QED
  BY <1>5, <1>6, <1>7, <1>8, <1>9, <1>10, <1>11 DEF TaskNext

(* Queueing keeps the invariant. *)
LEMMA EnqueuesInv ==
  ASSUME IInv, NEW N, NEW k, Enqueues(N, k)
  PROVE  IInv'
<1>1. RequestsAreEmpty'
  BY SameRequests DEF IInv, Enqueues
<1> QED
  BY <1>1, EnqueuesType, QueueRows, QueuePlaces DEF IInv

(* Queueing for any set of agents does. *)
LEMMA FanOutInv ==
  ASSUME IInv, NEW S \in SUBSET Agents, NEW d \in Data, FanOut(S, d)
  PROVE  IInv'
BY FanOutEnqueues, EnqueuesInv DEF IInv

(* Every step keeps the invariant. *)
LEMMA NextInv ==
  ASSUME IInv, [TaskNext]_taskVars
  PROVE  IInv'
<1> USE DEF IInv
<1>1. TypeOK' /\ RequestsAreEmpty'
  <2>1. UNCHANGED taskVars => RequestsAreEmpty'
    BY DEF taskVars, RequestsAreEmpty
  <2> QED
    BY <2>1, NextType, NextRequests
<1>2. ASSUME NEW a \in Agents, NEW d \in Data, QueueTask(a, d)
      PROVE  IInv'
  BY <1>2, FanOutInv DEF QueueTask, FanOut
<1>3. ASSUME NEW a \in Agents, AgentStart(a)
      PROVE  IInv'
  BY <1>1, <1>3, SameRows, ShrinkPlaces DEF AgentStart
<1>4. ASSUME NEW a \in Agents, NEW reached \in BOOLEAN, AgentRegister(a, reached)
      PROVE  IInv'
  BY <1>1, <1>4, SameRows, ShrinkPlaces DEF AgentRegister
<1>5. ASSUME NEW a \in Agents, NEW s \in Slots, NEW status \in ReportedStatus,
             SendHeartbeat(a, s, status)
      PROVE  IInv'
  <2>1. \A b \in Agents, r \in Slots :
          exchange'[b][r].batch \subseteq exchange[b][r].batch
    BY <1>5 DEF SendHeartbeat, TypeOK
  <2> QED
    BY <1>1, <1>5, <2>1, SameRows, ShrinkPlaces DEF SendHeartbeat
<1>6. ASSUME NEW a \in Agents, NEW s \in Slots, ProcessHeartbeat(a, s)
      PROVE  IInv'
  BY <1>1, <1>6, PullRows, PullPlaces DEF ProcessHeartbeat
<1>7. ASSUME NEW a \in Agents, NEW s \in Slots, CrashInHeartbeat(a, s)
      PROVE  IInv'
  <2>1. \A b \in Agents, r \in Slots :
          exchange'[b][r].batch \subseteq exchange[b][r].batch
    BY <1>7 DEF CrashInHeartbeat, Idle, TypeOK
  <2> QED
    BY <1>1, <1>7, <2>1, SameRows, ShrinkPlaces DEF CrashInHeartbeat
<1>8. ASSUME NEW a \in Agents, NEW s \in Slots, ReceiveResponse(a, s)
      PROVE  IInv'
  <2>1. [exchange[a][s] EXCEPT !.stage = "BATCH"].batch = exchange[a][s].batch
    BY DEF TypeOK, Exchange
  <2>2. \A b \in Agents, r \in Slots :
          exchange'[b][r].batch \subseteq exchange[b][r].batch
    BY <1>8, <2>1 DEF ReceiveResponse, Idle, TypeOK
  <2> QED
    BY <1>1, <1>8, <2>2, SameRows, ShrinkPlaces DEF ReceiveResponse
<1>9. ASSUME NEW a \in Agents, NEW s \in Slots, LoseMessage(a, s)
      PROVE  IInv'
  <2>1. \A b \in Agents, r \in Slots :
          exchange'[b][r].batch \subseteq exchange[b][r].batch
    BY <1>9 DEF LoseMessage, Idle, TypeOK
  <2> QED
    BY <1>1, <1>9, <2>1, SameRows, ShrinkPlaces DEF LoseMessage
<1>10. ASSUME NEW a \in Agents, NEW s \in Slots, NEW i \in Ids,
              RunTask(a, s, i) \/ ThrowInTask(a, s, i)
       PROVE  IInv'
  BY <1>1, <1>10, SameRows, RunPlaces DEF RunTask, ThrowInTask
<1>11. ASSUME NEW a \in Agents, AgentCrash(a)
       PROVE  IInv'
  <2>1. \A e \in Exchange : [e EXCEPT !.stage = "ORPHAN"].batch = e.batch
    BY DEF Exchange
  <2>2. \A b \in Agents, r \in Slots :
          exchange'[b][r].batch \subseteq exchange[b][r].batch
    BY <1>11, <2>1 DEF AgentCrash, Idle, TypeOK
  <2> QED
    BY <1>1, <1>11, <2>2, SameRows, ShrinkPlaces DEF AgentCrash
<1>12. ASSUME TaskTick
       PROVE  IInv'
  BY <1>1, <1>12, SameRows, ShrinkPlaces DEF TaskTick
<1>13. ASSUME UNCHANGED taskVars
       PROVE  IInv'
  BY <1>1, <1>13, SameRows, ShrinkPlaces DEF taskVars
<1> QED
  BY <1>2, <1>3, <1>4, <1>5, <1>6, <1>7, <1>8, <1>9, <1>10, <1>11, <1>12, <1>13
     DEF TaskNext

(* The strengthened invariant holds in every reachable state. *)
LEMMA Invariance == TaskSpec => []IInv
<1>1. IInv /\ [TaskNext]_taskVars => IInv'
  BY NextInv
<1> QED
  BY InitInv, <1>1, PTL DEF TaskSpec

(* No agent processes a task twice. *)
THEOREM ProcessedAtMostOnce == TaskSpec => []AtMostOnce
<1>1. IInv => AtMostOnce
  BY DEF IInv, TypeOK, Placed, AtMostOnce
<1> QED
  BY Invariance, <1>1, PTL

(* A task is pending, in one exchange, or processed, and its agent's own. *)
THEOREM TasksInOnePlace == TaskSpec => []OnePlace
<1>1. IInv => OnePlace
  BY DEF IInv, Placed, OnePlace, InFlight
<1> QED
  BY Invariance, <1>1, PTL

(* Tasks of one agent are handed over oldest first. *)
THEOREM OldestFirst == TaskSpec => []DispatchedInOrder
<1>1. IInv => DispatchedInOrder
  BY DEF IInv
<1> QED
  BY Invariance, <1>1, PTL

-----------------------------------------------------------------------------
(* The refinement of TaskDelivery.                                         *)

Fates == [x \in Agents \X Ids |-> Fate(x[1], x[2])]
Runs == [x \in Agents \X Ids |-> executed[x[1]][x[2]]]

(* What each fate says of the tables and the exchanges: where a task has no  *)
(* row it is new, and otherwise it is in exactly one of the other places.    *)
FateTable ==
  \A a \in Agents, i \in Ids :
    /\ Fate(a, i) \in {"NEW", "QUEUED", "TAKEN", "DONE", "LOST"}
    /\ Fate(a, i) = "DONE" <=> executed[a][i] > 0
    /\ Fate(a, i) = "QUEUED" <=> HasRow(a, i, "PENDING")
    /\ Fate(a, i) = "TAKEN" <=> InFlight(a, i)
    /\ Fate(a, i) = "NEW" <=> ~HasRow(a, i, "PENDING") /\ ~HasRow(a, i, "DISPATCHED")
    /\ executed[a][i] \in Nat
    /\ executed[a][i] <= 1
    /\ HasRow(a, i, "DISPATCHED") => ~HasRow(a, i, "PENDING") /\ i <= lastId
    /\ HasRow(a, i, "PENDING") => i <= lastId
    /\ InFlight(a, i) => executed[a][i] = 0 /\ HasRow(a, i, "DISPATCHED")

(* The invariant settles the fate of every task. *)
LEMMA FateOf == IInv => FateTable
<1> SUFFICES ASSUME IInv, NEW a \in Agents, NEW i \in Ids
             PROVE  /\ Fate(a, i) \in {"NEW", "QUEUED", "TAKEN", "DONE", "LOST"}
                    /\ Fate(a, i) = "DONE" <=> executed[a][i] > 0
                    /\ Fate(a, i) = "QUEUED" <=> HasRow(a, i, "PENDING")
                    /\ Fate(a, i) = "TAKEN" <=> InFlight(a, i)
                    /\ Fate(a, i) = "NEW" <=>
                         ~HasRow(a, i, "PENDING") /\ ~HasRow(a, i, "DISPATCHED")
                    /\ executed[a][i] \in Nat
                    /\ executed[a][i] <= 1
                    /\ HasRow(a, i, "DISPATCHED") =>
                         ~HasRow(a, i, "PENDING") /\ i <= lastId
                    /\ HasRow(a, i, "PENDING") => i <= lastId
                    /\ InFlight(a, i) => executed[a][i] = 0 /\ HasRow(a, i, "DISPATCHED")
  BY DEF FateTable
<1>1. executed[a][i] \in Nat /\ executed[a][i] <= 1
  BY DEF IInv, TypeOK, Placed
<1>2. HasRow(a, i, "DISPATCHED") => ~HasRow(a, i, "PENDING") /\ i <= lastId
  BY DEF HasRow, IInv, RowsAreTasks
<1>3. HasRow(a, i, "PENDING") => i <= lastId
  BY DEF HasRow, IInv, RowsAreTasks
<1>4. InFlight(a, i) => HasRow(a, i, "DISPATCHED") /\ executed[a][i] = 0
  BY DEF InFlight, IInv, Placed
<1>5. executed[a][i] > 0 => HasRow(a, i, "DISPATCHED")
  BY DEF IInv, Placed
<1>6. ~(i > lastId) <=> i <= lastId
  BY TasksAssumption DEF IInv, TypeOK, Ids
<1>7. CASE executed[a][i] > 0
  <2>1. /\ HasRow(a, i, "DISPATCHED") /\ ~HasRow(a, i, "PENDING") /\ ~InFlight(a, i)
        /\ executed[a][i] # 0 /\ ~(i > lastId)
    BY <1>1, <1>2, <1>4, <1>5, <1>6, <1>7
  <2>2. Fate(a, i) = "DONE"
    BY <1>7, <2>1 DEF Fate
  <2> QED
    BY <1>1, <1>2, <1>7, <2>1, <2>2
<1>8. CASE ~(executed[a][i] > 0)
  <2>1. executed[a][i] = 0
    BY <1>1, <1>8
  <2>2. CASE HasRow(a, i, "PENDING")
    <3>1. ~HasRow(a, i, "DISPATCHED") /\ ~InFlight(a, i) /\ ~(i > lastId)
      BY <1>2, <1>3, <1>4, <1>6, <2>2
    <3>2. Fate(a, i) = "QUEUED"
      BY <1>8, <2>2, <3>1 DEF Fate
    <3> QED
      BY <1>1, <1>3, <1>8, <2>2, <3>1, <3>2
  <2>3. CASE ~HasRow(a, i, "PENDING") /\ InFlight(a, i)
    <3>1. ~(i > lastId)
      BY <1>2, <1>4, <1>6, <2>3
    <3>2. Fate(a, i) = "TAKEN"
      BY <1>8, <2>3, <3>1 DEF Fate
    <3> QED
      BY <1>1, <1>2, <1>4, <1>8, <2>3, <3>2
  <2>4. CASE ~HasRow(a, i, "PENDING") /\ ~InFlight(a, i) /\ HasRow(a, i, "DISPATCHED")
    <3>1. Fate(a, i) = "LOST"
      BY <1>2, <1>6, <1>8, <2>1, <2>4 DEF Fate
    <3> QED
      BY <1>1, <1>2, <1>8, <2>4, <3>1
  <2>5. CASE ~HasRow(a, i, "PENDING") /\ ~InFlight(a, i) /\ ~HasRow(a, i, "DISPATCHED")
    <3>1. Fate(a, i) = "NEW"
      BY <1>8, <2>5 DEF Fate
    <3> QED
      BY <1>1, <1>8, <2>5, <3>1
  <2> QED
    BY <2>2, <2>3, <2>4, <2>5
<1> QED
  BY <1>7, <1>8

(* A task keeps its fate when its row, its place and its count are the same. *)
LEMMA SameFate ==
  ASSUME FateTable, FateTable', NEW a \in Agents, NEW i \in Ids,
         HasRow(a, i, "PENDING")' <=> HasRow(a, i, "PENDING"),
         HasRow(a, i, "DISPATCHED")' <=> HasRow(a, i, "DISPATCHED"),
         InFlight(a, i)' <=> InFlight(a, i),
         executed'[a][i] = executed[a][i]
  PROVE  Fate(a, i)' = Fate(a, i)
BY DEF FateTable

(* Fates that change together are a Move of the abstract queue. *)
LEMMA MoveRefines ==
  ASSUME NEW S \in SUBSET (Agents \X Ids), NEW from, NEW to,
         \A x \in S : Fate(x[1], x[2]) = from,
         \A a \in Agents, i \in Ids :
           Fate(a, i)' = IF <<a, i>> \in S THEN to ELSE Fate(a, i)
  PROVE  Delivery!Move(S, from, to)
<1>1. \A x \in Agents \X Ids :
        Fate(x[1], x[2])' = IF x \in S THEN to ELSE Fate(x[1], x[2])
  OBVIOUS
<1>2. \A x \in S : Fates[x] = from
  BY DEF Fates
<1>3. Fates' = [x \in Agents \X Ids |-> IF x \in S THEN to ELSE Fates[x]]
  BY <1>1 DEF Fates
<1> QED
  BY <1>2, <1>3 DEF Delivery!Move, Fates

(* With no fate and no count changed the abstract queue stutters. *)
LEMMA StutterRefines ==
  ASSUME UNCHANGED executed,
         \A a \in Agents, i \in Ids : Fate(a, i)' = Fate(a, i)
  PROVE  UNCHANGED <<Fates, Runs>>
BY DEF Fates, Runs

(* Queueing a task for each of some agents queues those tasks. *)
LEMMA FanOutRefines ==
  ASSUME IInv, FateTable, FateTable', NEW S \in SUBSET Agents, NEW d, FanOut(S, d)
  PROVE  Delivery!Next
<1>1. PICK k \in Ids : k = lastId + 1
  BY TasksAssumption DEF FanOut, QueueTasks, IInv, TypeOK, Ids
<1> DEFINE New == {<<a, k>> : a \in S}
<1>2. New \in SUBSET (Agents \X Ids)
  OBVIOUS
<1>3. \A a \in Agents, i \in Ids :
        /\ HasRow(a, i, "PENDING")' <=> HasRow(a, i, "PENDING") \/ (a \in S /\ i = k)
        /\ HasRow(a, i, "DISPATCHED")' <=> HasRow(a, i, "DISPATCHED")
  <2>1. tasks' = tasks \cup EnqueuedFor(S, d)
    BY DEF FanOut, QueueTasks
  <2>2. \A t \in EnqueuedFor(S, d) : t.agent \in S /\ t.id = k /\ t.status = "PENDING"
    BY <1>1 DEF EnqueuedFor
  <2>3. ASSUME NEW a \in S
        PROVE  \E t \in EnqueuedFor(S, d) :
                 t.agent = a /\ t.id = k /\ t.status = "PENDING"
    <3> DEFINE t == [id |-> lastId + 1, agent |-> a, data |-> d, status |-> "PENDING"]
    <3>1. t \in EnqueuedFor(S, d) /\ t.agent = a /\ t.id = k /\ t.status = "PENDING"
      BY <1>1 DEF EnqueuedFor
    <3> QED
      BY <3>1
  <2> QED
    BY <2>1, <2>2, <2>3 DEF HasRow
<1>4. \A a \in Agents, i \in Ids :
        (InFlight(a, i)' <=> InFlight(a, i)) /\ executed'[a][i] = executed[a][i]
  BY DEF FanOut, InFlight
<1>5. \A a \in Agents : Fate(a, k) = "NEW"
  <2>1. ~(k <= lastId)
    BY <1>1, TasksAssumption DEF IInv, TypeOK
  <2> QED
    BY <2>1 DEF FateTable
<1>6. \A a \in S : Fate(a, k)' = "QUEUED"
  BY <1>3 DEF FateTable
<1>7. \A a \in Agents, i \in Ids :
        Fate(a, i)' = IF <<a, i>> \in New THEN "QUEUED" ELSE Fate(a, i)
  <2> TAKE a \in Agents, i \in Ids
  <2>1. CASE a \in S /\ i = k
    BY <1>6, <2>1
  <2>2. CASE ~(a \in S /\ i = k)
    <3>1. Fate(a, i)' = Fate(a, i)
      BY <1>3, <1>4, <2>2, SameFate
    <3> QED
      BY <2>2, <3>1
  <2> QED
    BY <2>1, <2>2
<1>8. Delivery!Move(New, "NEW", "QUEUED")
  BY <1>2, <1>5, <1>7, MoveRefines
<1>9. UNCHANGED Runs
  BY DEF FanOut, Runs
<1> QED
  BY <1>2, <1>8, <1>9 DEF Delivery!Next, Delivery!Queue, Runs

(* A heartbeat takes all that is queued for its agent, or loses it when it is *)
(* an orphan.                                                                 *)
LEMMA HeartbeatRefines ==
  ASSUME IInv, FateTable, FateTable', NEW a \in Agents, NEW s \in Slots,
         ProcessHeartbeat(a, s)
  PROVE  [Delivery!Next]_<<Fates, Runs>>
<1> DEFINE S == {x \in Agents \X Ids : x[1] = a /\ Fate(x[1], x[2]) = "QUEUED"}
<1>1. \A b \in Agents, i \in Ids :
        /\ HasRow(b, i, "PENDING")' <=> HasRow(b, i, "PENDING") /\ b # a
        /\ HasRow(b, i, "DISPATCHED")' <=>
              HasRow(b, i, "DISPATCHED") \/ (HasRow(b, i, "PENDING") /\ b = a)
  <2> DEFINE Marked(t) == [t EXCEPT !.status = "DISPATCHED"]
  <2>1. tasks' = (tasks \ PendingOf(a)) \cup {Marked(t) : t \in PendingOf(a)}
    BY DEF ProcessHeartbeat, TasksPulled
  <2>2. PendingOf(a) = {t \in tasks : t.agent = a /\ t.status = "PENDING"}
    BY DEF PendingOf
  <2>3. \A t \in tasks : /\ Marked(t).id = t.id
                         /\ Marked(t).agent = t.agent
                         /\ Marked(t).status = "DISPATCHED"
    BY DEF IInv, TypeOK, TaskRow
  <2> HIDE DEF Marked
  <2>4. \A b, i, st :
          HasRow(b, i, st)' <=>
            \/ \E t \in tasks \ PendingOf(a) : t.agent = b /\ t.id = i /\ t.status = st
            \/ \E t \in PendingOf(a) :
                  Marked(t).agent = b /\ Marked(t).id = i /\ Marked(t).status = st
    BY <2>1 DEF HasRow
  <2> QED
    BY <2>2, <2>3, <2>4 DEF HasRow
<1>2. PulledIds(a) = {i \in Ids : HasRow(a, i, "PENDING")}
  <2>1. PulledIds(a) \subseteq Ids
    BY PulledType DEF IInv
  <2> QED
    BY <2>1 DEF PulledIds, PendingOf, HasRow
<1>3. exchange[a][s].batch = {}
  BY DEF ProcessHeartbeat, IInv, RequestsAreEmpty
<1>4. \A b \in Agents, r \in Slots : b # a \/ r # s => exchange'[b][r] = exchange[b][r]
  BY DEF ProcessHeartbeat, IInv, TypeOK
<1>5. \A b \in Agents, i \in Ids : executed'[b][i] = executed[b][i]
  BY DEF ProcessHeartbeat
<1>6. /\ S \in SUBSET (Agents \X Ids)
      /\ S = {x \in Agents \X Ids : x[1] = a /\ Fates[x] = "QUEUED"}
      /\ \A b \in Agents, i \in Ids : <<b, i>> \in S <=> b = a /\ HasRow(b, i, "PENDING")
      /\ \A x \in S : Fate(x[1], x[2]) = "QUEUED"
  BY DEF FateTable, Fates
<1>7. ASSUME NEW to \in {"TAKEN", "LOST"},
             \A b \in Agents, i \in Ids :
               Fate(b, i)' = IF <<b, i>> \in S THEN to ELSE Fate(b, i)
      PROVE  [Delivery!Next]_<<Fates, Runs>>
  <2>1. UNCHANGED Runs
    BY DEF ProcessHeartbeat, Runs
  <2>2. Delivery!Move(S, "QUEUED", to)
    BY <1>6, <1>7, MoveRefines
  <2>3. CASE S = {}
    BY <1>5, <1>7, <2>3, StutterRefines DEF ProcessHeartbeat
  <2>4. CASE S # {}
    <3>1. a \in Delivery!Owners
      <4>1. PICK x \in Agents \X Ids : x[1] = a
        BY <2>4
      <4> QED
        BY <4>1 DEF Delivery!Owners
    <3>2. S = {x \in Agents \X Ids :
                 [y \in Agents \X Ids |-> y[1]][x] = a /\ Fates[x] = "QUEUED"}
      BY <1>6
    <3>3. Delivery!Take(a, to)
      BY <2>1, <2>2, <3>2 DEF Delivery!Take, Fates, Runs
    <3> QED
      BY <1>7, <3>1, <3>3 DEF Delivery!Next
  <2> QED
    BY <2>3, <2>4
<1> HIDE DEF S
<1>8. CASE exchange[a][s].stage = "REQUEST"
  <2>1. exchange'[a][s].batch = PulledIds(a)
    BY <1>8 DEF ProcessHeartbeat, IInv, TypeOK
  <2>2. \A b \in Agents, i \in Ids :
          InFlight(b, i)' <=> InFlight(b, i) \/ (b = a /\ HasRow(a, i, "PENDING"))
    BY <1>2, <1>3, <1>4, <2>1 DEF InFlight
  <2>3. \A b \in Agents, i \in Ids :
          Fate(b, i)' = IF <<b, i>> \in S THEN "TAKEN" ELSE Fate(b, i)
    <3> TAKE b \in Agents, i \in Ids
    <3>1. CASE b = a /\ HasRow(b, i, "PENDING")
      BY <1>6, <2>2, <3>1 DEF FateTable
    <3>2. CASE ~(b = a /\ HasRow(b, i, "PENDING"))
      BY <1>1, <1>5, <1>6, <2>2, <3>2, SameFate
    <3> QED
      BY <3>1, <3>2
  <2> QED
    BY <1>7, <2>3
<1>9. CASE exchange[a][s].stage = "ORPHAN"
  <2>1. exchange'[a][s].batch = {}
    BY <1>9 DEF ProcessHeartbeat, IInv, TypeOK, Idle
  <2>2. \A b \in Agents, i \in Ids : InFlight(b, i)' <=> InFlight(b, i)
    BY <1>3, <1>4, <2>1 DEF InFlight
  <2>3. \A b \in Agents, i \in Ids :
          Fate(b, i)' = IF <<b, i>> \in S THEN "LOST" ELSE Fate(b, i)
    <3> TAKE b \in Agents, i \in Ids
    <3>1. CASE b = a /\ HasRow(b, i, "PENDING")
      <4>1. /\ HasRow(b, i, "DISPATCHED")' /\ ~HasRow(b, i, "PENDING")'
            /\ ~InFlight(b, i)' /\ executed'[b][i] = 0
        BY <1>1, <1>5, <2>2, <3>1 DEF FateTable, IInv, Placed
      <4> QED
        BY <1>6, <3>1, <4>1 DEF FateTable
    <3>2. CASE ~(b = a /\ HasRow(b, i, "PENDING"))
      BY <1>1, <1>5, <1>6, <2>2, <3>2, SameFate
    <3> QED
      BY <3>1, <3>2
  <2> QED
    BY <1>7, <2>3
<1> QED
  BY <1>8, <1>9 DEF ProcessHeartbeat

(* Tasks of one agent that leave its batches unprocessed are lost. *)
LEMMA LossRefines ==
  ASSUME FateTable, FateTable', NEW a \in Agents, UNCHANGED <<tasks, executed>>,
         \A i \in Ids : InFlight(a, i)' => InFlight(a, i),
         \A b \in Agents, i \in Ids : b # a => (InFlight(b, i)' <=> InFlight(b, i))
  PROVE  [Delivery!Next]_<<Fates, Runs>>
<1> DEFINE S == {x \in Agents \X Ids :
                   x[1] = a /\ InFlight(a, x[2]) /\ ~InFlight(a, x[2])'}
<1>1. \A b \in Agents, i \in Ids :
        <<b, i>> \in S <=> b = a /\ InFlight(a, i) /\ ~InFlight(a, i)'
  OBVIOUS
<1>2. \A b, i, st : HasRow(b, i, st)' <=> HasRow(b, i, st)
  BY DEF HasRow
<1>3. \A x \in S : x[1] = a /\ Fate(x[1], x[2]) = "TAKEN"
  BY DEF FateTable
<1>4. S \in SUBSET (Agents \X Ids)
  OBVIOUS
<1> HIDE DEF S
<1>5. \A b \in Agents, i \in Ids :
        Fate(b, i)' = IF <<b, i>> \in S THEN "LOST" ELSE Fate(b, i)
  <2> TAKE b \in Agents, i \in Ids
  <2>1. CASE <<b, i>> \in S
    <3>1. /\ HasRow(b, i, "DISPATCHED")' /\ ~HasRow(b, i, "PENDING")'
          /\ ~InFlight(b, i)' /\ executed'[b][i] = 0
      BY <1>1, <1>2, <2>1 DEF FateTable
    <3> QED
      BY <2>1, <3>1 DEF FateTable
  <2>2. CASE <<b, i>> \notin S
    BY <1>1, <1>2, <2>2, SameFate
  <2> QED
    BY <2>1, <2>2
<1>6. Delivery!Lose(S)
  <2>1. Delivery!Move(S, "TAKEN", "LOST")
    BY <1>3, <1>4, <1>5, MoveRefines
  <2> QED
    BY <2>1 DEF Delivery!Lose
<1>7. CASE S = {}
  BY <1>5, <1>7, StutterRefines
<1>8. CASE S # {}
  <2>1. a \in Delivery!Owners
    <3>1. PICK x \in Agents \X Ids : x[1] = a
      BY <1>3, <1>4, <1>8
    <3> QED
      BY <3>1 DEF Delivery!Owners
  <2>2. \A x \in S : [y \in Agents \X Ids |-> y[1]][x] = a
    BY <1>3, <1>4
  <2> QED
    BY <1>4, <1>6, <2>1, <2>2 DEF Delivery!Next
<1> QED
  BY <1>7, <1>8

(* Processing a task ends it, and those of its agent that leave the batches  *)
(* with it are lost.                                                         *)
LEMMA ProcessRefines ==
  ASSUME FateTable, FateTable', NEW a \in Agents, NEW i \in Ids,
         executed \in [Agents -> [Ids -> Nat]],
         executed' = [executed EXCEPT ![a][i] = @ + 1],
         UNCHANGED tasks, InFlight(a, i), ~InFlight(a, i)',
         \A j \in Ids : InFlight(a, j)' => InFlight(a, j),
         \A b \in Agents, j \in Ids : b # a => (InFlight(b, j)' <=> InFlight(b, j))
  PROVE  Delivery!Next
<1> DEFINE S == {x \in Agents \X Ids :
                   /\ x[1] = a /\ x[2] # i
                   /\ InFlight(a, x[2]) /\ ~InFlight(a, x[2])'}
<1>1. \A b \in Agents, j \in Ids :
        <<b, j>> \in S <=> b = a /\ j # i /\ InFlight(a, j) /\ ~InFlight(a, j)'
  OBVIOUS
<1>2. \A b, j, st : HasRow(b, j, st)' <=> HasRow(b, j, st)
  BY DEF HasRow
<1>3. S \in SUBSET (Agents \X Ids) /\ <<a, i>> \notin S
  OBVIOUS
<1>4. \A x \in S : x[1] = a /\ Fate(x[1], x[2]) = "TAKEN"
  BY DEF FateTable
<1> HIDE DEF S
<1>5. Fate(a, i) = "TAKEN" /\ executed[a][i] = 0 /\ executed'[a][i] = 1
  BY DEF FateTable
<1>6. \A b \in Agents, j \in Ids :
        b # a \/ j # i => executed'[b][j] = executed[b][j]
  OBVIOUS
<1>7. ASSUME NEW b \in Agents, NEW j \in Ids
      PROVE  Fate(b, j)' = IF <<b, j>> = <<a, i>> THEN "DONE"
                           ELSE IF <<b, j>> \in S THEN "LOST" ELSE Fate(b, j)
  <2>1. CASE b = a /\ j = i
    BY <1>5, <2>1 DEF FateTable
  <2>2. CASE <<b, j>> \in S /\ (b # a \/ j # i)
    <3>1. /\ HasRow(b, j, "DISPATCHED")' /\ ~HasRow(b, j, "PENDING")'
          /\ ~InFlight(b, j)' /\ executed'[b][j] = 0
      BY <1>1, <1>2, <1>6, <2>2 DEF FateTable
    <3>2. Fate(b, j)' = "LOST"
      BY <3>1 DEF FateTable
    <3> QED
      BY <2>2, <3>2
  <2>3. CASE <<b, j>> \notin S /\ (b # a \/ j # i)
    <3>1. Fate(b, j)' = Fate(b, j)
      BY <1>1, <1>2, <1>6, <2>3, SameFate
    <3> QED
      BY <2>3, <3>1
  <2> QED
    BY <2>1, <2>2, <2>3
<1>8. Fates' = [x \in Agents \X Ids |->
                  IF x = <<a, i>> THEN "DONE" ELSE IF x \in S THEN "LOST" ELSE Fates[x]]
  <2>1. \A x \in Agents \X Ids :
          Fate(x[1], x[2])' = IF x = <<a, i>> THEN "DONE"
                              ELSE IF x \in S THEN "LOST" ELSE Fate(x[1], x[2])
    BY <1>7
  <2> QED
    BY <2>1 DEF Fates
<1>9. Runs' = [Runs EXCEPT ![<<a, i>>] = 1]
  <2>1. \A x \in Agents \X Ids :
          executed'[x[1]][x[2]] = IF x = <<a, i>> THEN 1 ELSE executed[x[1]][x[2]]
    BY <1>5, <1>6
  <2> QED
    BY <2>1 DEF Runs
<1>10. Fates[<<a, i>>] = "TAKEN" /\ \A x \in S : Fates[x] = "TAKEN"
  BY <1>3, <1>4, <1>5 DEF Fates
<1>11. \A x \in S : [y \in Agents \X Ids |-> y[1]][x]
                     = [y \in Agents \X Ids |-> y[1]][<<a, i>>]
  BY <1>3, <1>4
<1>12. PICK t \in Agents \X Ids, U \in SUBSET (Agents \X Ids) : t = <<a, i>> /\ U = S
  BY <1>3
<1>13. Delivery!Process(t, U)
  BY <1>3, <1>8, <1>9, <1>10, <1>11, <1>12 DEF Delivery!Process, Fates, Runs
<1> QED
  BY <1>13 DEF Delivery!Next

(* Steps that leave rows, batches and counts alone are stutters. *)
LEMMA QuietRefines ==
  ASSUME FateTable, FateTable', UNCHANGED <<tasks, executed>>,
         \A a \in Agents, s \in Slots : exchange'[a][s].batch = exchange[a][s].batch
  PROVE  [Delivery!Next]_<<Fates, Runs>>
<1>1. \A a \in Agents, i \in Ids : InFlight(a, i)' <=> InFlight(a, i)
  BY DEF InFlight
<1>2. \A a, i, st : HasRow(a, i, st)' <=> HasRow(a, i, st)
  BY DEF HasRow
<1>3. \A a \in Agents, i \in Ids : Fate(a, i)' = Fate(a, i)
  BY <1>1, <1>2, SameFate
<1> QED
  BY <1>3, StutterRefines

(* Every step is a step of the abstract queue or changes none of it. *)
LEMMA StepRefines ==
  ASSUME IInv, IInv', TaskNext
  PROVE  [Delivery!Next]_<<Fates, Runs>>
<1>1. FateTable /\ FateTable'
  <2>1. IInv' => FateTable'
    BY FateOf, PTL
  <2> QED
    BY <2>1, FateOf
<1>2. /\ tasks \in SUBSET TaskRow
      /\ exchange \in [Agents -> [Slots -> Exchange]]
      /\ executed \in [Agents -> [Ids -> Nat]]
  BY DEF IInv, TypeOK
<1>3. ASSUME NEW a \in Agents, NEW s \in Slots, UNCHANGED <<tasks, executed>>,
             exchange'[a][s].batch \subseteq exchange[a][s].batch,
             \A b \in Agents, r \in Slots :
               b # a \/ r # s => exchange'[b][r] = exchange[b][r]
      PROVE  [Delivery!Next]_<<Fates, Runs>>
  <2>1. \A i \in Ids : InFlight(a, i)' => InFlight(a, i)
    BY <1>3 DEF InFlight
  <2>2. \A b \in Agents, i \in Ids : b # a => (InFlight(b, i)' <=> InFlight(b, i))
    BY <1>3 DEF InFlight
  <2> QED
    BY <1>1, <1>3, <2>1, <2>2, LossRefines
<1>4. ASSUME NEW a \in Agents, NEW d \in Data, QueueTask(a, d)
      PROVE  [Delivery!Next]_<<Fates, Runs>>
  <2>1. FanOut({a}, d)
    BY <1>4 DEF QueueTask, FanOut
  <2> QED
    BY <1>1, <2>1, FanOutRefines
<1>5. ASSUME NEW a \in Agents, AgentStart(a)
      PROVE  [Delivery!Next]_<<Fates, Runs>>
  BY <1>1, <1>5, QuietRefines DEF AgentStart
<1>6. ASSUME NEW a \in Agents, NEW reached \in BOOLEAN, AgentRegister(a, reached)
      PROVE  [Delivery!Next]_<<Fates, Runs>>
  BY <1>1, <1>6, QuietRefines DEF AgentRegister
<1>7. ASSUME NEW a \in Agents, NEW s \in Slots, NEW status \in ReportedStatus,
             SendHeartbeat(a, s, status)
      PROVE  [Delivery!Next]_<<Fates, Runs>>
  <2>1. /\ UNCHANGED <<tasks, executed>>
        /\ exchange'[a][s].batch \subseteq exchange[a][s].batch
        /\ \A b \in Agents, r \in Slots :
             b # a \/ r # s => exchange'[b][r] = exchange[b][r]
    BY <1>2, <1>7 DEF SendHeartbeat
  <2> QED
    BY <1>3, <2>1
<1>8. ASSUME NEW a \in Agents, NEW s \in Slots, ProcessHeartbeat(a, s)
      PROVE  [Delivery!Next]_<<Fates, Runs>>
  BY <1>1, <1>8, HeartbeatRefines
<1>9. ASSUME NEW a \in Agents, NEW s \in Slots,
             CrashInHeartbeat(a, s) \/ LoseMessage(a, s)
      PROVE  [Delivery!Next]_<<Fates, Runs>>
  <2>1. /\ UNCHANGED <<tasks, executed>>
        /\ exchange'[a][s].batch \subseteq exchange[a][s].batch
        /\ \A b \in Agents, r \in Slots :
             b # a \/ r # s => exchange'[b][r] = exchange[b][r]
    BY <1>2, <1>9 DEF CrashInHeartbeat, LoseMessage, Idle
  <2> QED
    BY <1>3, <2>1
<1>10. ASSUME NEW a \in Agents, NEW s \in Slots, ReceiveResponse(a, s)
       PROVE  [Delivery!Next]_<<Fates, Runs>>
  <2>1. [exchange[a][s] EXCEPT !.stage = "BATCH"].batch = exchange[a][s].batch
    BY <1>2 DEF Exchange
  <2>2. /\ UNCHANGED <<tasks, executed>>
        /\ exchange'[a][s].batch \subseteq exchange[a][s].batch
        /\ \A b \in Agents, r \in Slots :
             b # a \/ r # s => exchange'[b][r] = exchange[b][r]
    BY <1>2, <1>10, <2>1 DEF ReceiveResponse, Idle
  <2> QED
    BY <1>3, <2>2
<1>11. ASSUME NEW a \in Agents, NEW s \in Slots, NEW i \in Ids,
              RunTask(a, s, i) \/ ThrowInTask(a, s, i)
       PROVE  [Delivery!Next]_<<Fates, Runs>>
  <2>1. /\ i \in exchange[a][s].batch
        /\ executed' = [executed EXCEPT ![a][i] = @ + 1]
        /\ UNCHANGED tasks
    BY <1>11 DEF RunTask, ThrowInTask, IsHead
  <2>2. exchange'[a][s].batch \subseteq exchange[a][s].batch \ {i}
    <3>1. BatchAfter(a, s, i).batch \subseteq exchange[a][s].batch \ {i}
      BY <1>2 DEF BatchAfter, Idle, Exchange
    <3> QED
      BY <1>2, <1>11, <3>1 DEF RunTask, ThrowInTask, Idle
  <2>3. \A b \in Agents, r \in Slots :
          b # a \/ r # s => exchange'[b][r] = exchange[b][r]
    BY <1>2, <1>11 DEF RunTask, ThrowInTask
  <2>4. InFlight(a, i) /\ ~InFlight(a, i)'
    BY <2>1, <2>2, <2>3 DEF InFlight, IInv, Placed
  <2>5. /\ \A j \in Ids : InFlight(a, j)' => InFlight(a, j)
        /\ \A b \in Agents, j \in Ids : b # a => (InFlight(b, j)' <=> InFlight(b, j))
    BY <2>2, <2>3 DEF InFlight
  <2> QED
    BY <1>1, <1>2, <2>1, <2>4, <2>5, ProcessRefines
<1>12. ASSUME NEW a \in Agents, AgentCrash(a)
       PROVE  [Delivery!Next]_<<Fates, Runs>>
  <2>1. \A e \in Exchange : [e EXCEPT !.stage = "ORPHAN"].batch = e.batch
    BY DEF Exchange
  <2>2. \A r \in Slots : exchange'[a][r].batch \subseteq exchange[a][r].batch
    BY <1>2, <1>12, <2>1 DEF AgentCrash, Idle
  <2>3. \A b \in Agents : b # a => exchange'[b] = exchange[b]
    BY <1>2, <1>12 DEF AgentCrash
  <2>4. /\ \A i \in Ids : InFlight(a, i)' => InFlight(a, i)
        /\ \A b \in Agents, i \in Ids : b # a => (InFlight(b, i)' <=> InFlight(b, i))
    BY <2>2, <2>3 DEF InFlight
  <2> QED
    BY <1>1, <1>12, <2>4, LossRefines DEF AgentCrash
<1>13. ASSUME TaskTick
       PROVE  [Delivery!Next]_<<Fates, Runs>>
  BY <1>1, <1>13, QuietRefines DEF TaskTick
<1> QED
  BY <1>4, <1>5, <1>6, <1>7, <1>8, <1>9, <1>10, <1>11, <1>12, <1>13 DEF TaskNext

(* No task there is yet: all are new and none has been processed. *)
LEMMA InitRefines == TaskInit => Delivery!Init
<1> SUFFICES ASSUME TaskInit PROVE Delivery!Init
  OBVIOUS
<1>1. FateTable
  BY InitInv, FateOf
<1>2. \A a \in Agents, i \in Ids : Fate(a, i) = "NEW" /\ executed[a][i] = 0
  <2>1. \A a, i, st : ~HasRow(a, i, st)
    BY DEF TaskInit, HasRow
  <2> QED
    BY <1>1, <2>1 DEF FateTable, TaskInit
<1> QED
  BY <1>2 DEF Delivery!Init

(* The service and the daemons deliver as TaskDelivery promises: nothing is   *)
(* offered twice or to another agent, what is pending is handed over together *)
(* and what got lost stays lost.                                              *)
THEOREM QueueDelivers == TaskSpec => DeliverySpec
<1>1. IInv /\ IInv' /\ [TaskNext]_taskVars => [Delivery!Next]_<<Fates, Runs>>
  <2>1. ASSUME UNCHANGED taskVars
        PROVE  UNCHANGED <<Fates, Runs>>
    BY <2>1 DEF taskVars, Fates, Runs, Fate, HasRow, InFlight
  <2> QED
    BY <2>1, StepRefines
<1> QED
  BY <1>1, Invariance, InitRefines, PTL
     DEF TaskSpec, DeliverySpec, Delivery!Spec, Fates, Runs
=============================================================================
