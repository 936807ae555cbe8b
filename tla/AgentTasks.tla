----------------------------- MODULE AgentTasks -----------------------------
(***************************************************************************)
(* How the control plane hands tasks to zone agents:                       *)
(* control-plane/src/services/agent.service.ts (the agents and             *)
(* pending_tasks tables) and the heartbeat loop of agent/src/daemon.ts.    *)
(*                                                                         *)
(* Control-plane handlers are synchronous over SQLite, so each is one      *)
(* step.  An agent sends a heartbeat every period without waiting for the  *)
(* one before (setInterval of an async function), so several exchanges of  *)
(* one agent may be under way; each occupies a slot.  Time is kept as ages *)
(* that stop growing once they no longer matter.                           *)
(***************************************************************************)
EXTENDS Naturals, FiniteSets

CONSTANTS
  Agents,       \* agent ids
  Slots,        \* heartbeats of one agent that may be under way at once
  Data,         \* the types and arguments of tasks
  Throwing,     \* the tasks whose processing may throw: a failing rescan
  OfflineAge,   \* ticks without a heartbeat after which an agent is OFFLINE
  MaxTasks,     \* bound on the tasks ever queued
  Faults        \* the environment's faults: "loss", "agentCrash", "cpCrash"

ASSUME TasksAssumption ==
  /\ OfflineAge \in Nat
  /\ MaxTasks \in Nat
  /\ Throwing \subseteq Data

VARIABLES
  registry,   \* the row of the agents table, by agent
  tasks,      \* the rows of pending_tasks
  lastId,     \* how many times a handler queued tasks: their creation order
  phase,      \* the daemon: DOWN, LISTENING (before registration), RUNNING
  exchange,   \* the heartbeat exchange in each slot of each agent
  executed    \* how often an agent processed a task

taskVars == <<registry, tasks, lastId, phase, exchange, executed>>

-----------------------------------------------------------------------------
Ids == 1..MaxTasks

(* What a daemon reports after its initial scan; registration writes ACTIVE. *)
ReportedStatus == {"DORMANT", "SCANNING", "ERROR"}
AgentStatus == ReportedStatus \cup {"ACTIVE"}

NoRow == [status |-> "NONE", silence |-> 0]
Registered(a) == registry[a].status # "NONE"

TaskRow == [id : Ids, agent : Agents, data : Data,
            status : {"PENDING", "DISPATCHED"}]

(* An exchange is a request on its way to the control plane, a response on  *)
(* its way back, or the batch of tasks it brought while they are processed. *)
(* An ORPHAN is the request of a process that has died since.               *)
Idle == [stage |-> "IDLE", status |-> "NONE", batch |-> {}]
Exchange == [stage  : {"IDLE", "REQUEST", "ORPHAN", "RESPONSE", "BATCH"},
             status : ReportedStatus \cup {"NONE"},
             batch  : SUBSET Ids]

TaskInit ==
  /\ registry = [a \in Agents |-> NoRow]
  /\ tasks = {}
  /\ lastId = 0
  /\ phase = [a \in Agents |-> "DOWN"]
  /\ exchange = [a \in Agents |-> [s \in Slots |-> Idle]]
  /\ executed = [a \in Agents |-> [i \in Ids |-> 0]]

-----------------------------------------------------------------------------
(* The control plane's agent service.                                      *)

(* The status getAgents shows: OFFLINE once the heartbeats stop, except for *)
(* an agent that reported ERROR.                                            *)
EffectiveStatus(a) ==
  IF registry[a].silence > OfflineAge /\ registry[a].status # "ERROR"
  THEN "OFFLINE"
  ELSE registry[a].status

(* Registration writes a status outside AgentStatus. *)
RowRegisteredAsNew(a) == [registry EXCEPT ![a] = [status |-> "NEW", silence |-> 0]]

(* Both branches of registerAgent leave the same row behind. *)
RegistryRegistered(a) ==
  [registry EXCEPT ![a] = [status |-> "ACTIVE", silence |-> 0]]

(* The UPDATE of processHeartbeat changes nothing of an unknown agent. *)
RegistryHeard(a, status) ==
  IF Registered(a)
  THEN [registry EXCEPT ![a] = [status |-> status, silence |-> 0]]
  ELSE registry

PendingOf(a) == {t \in tasks : t.agent = a /\ t.status = "PENDING"}

(* queueTask for each agent of S in one handler. *)
EnqueuedFor(S, d) ==
  {[id |-> lastId + 1, agent |-> a, data |-> d, status |-> "PENDING"] : a \in S}

QueueTasks(S, d) ==
  /\ lastId < MaxTasks
  /\ lastId' = lastId + 1
  /\ tasks' = tasks \cup EnqueuedFor(S, d)

(* The UPDATE to DISPATCHED is forgotten. *)
TasksNotMarked(a) == tasks

(* Only the newest pending row is marked. *)
NewestPulled(a) ==
  {IF t \in PendingOf(a) /\ \A u \in PendingOf(a) : u.id <= t.id
   THEN [t EXCEPT !.status = "DISPATCHED"] ELSE t : t \in tasks}

(* pullPendingTasks marks every pending row of the agent. *)
TasksPulled(a) ==
  (tasks \ PendingOf(a)) \cup {[t EXCEPT !.status = "DISPATCHED"] : t \in PendingOf(a)}

(* The ids of the rows pullPendingTasks returns. *)
PulledIds(a) == {t.id : t \in PendingOf(a)}

-----------------------------------------------------------------------------
(* The daemon and the network.                                             *)

(* start: the HTTP server listens, then the initial scan runs. *)
AgentStart(a) ==
  /\ phase[a] = "DOWN"
  /\ phase' = [phase EXCEPT ![a] = "LISTENING"]
  /\ UNCHANGED <<registry, tasks, lastId, exchange, executed>>

(* A failed registration ends the process. *)
AgentRegisterOrExit(a, reached) ==
  /\ phase[a] = "LISTENING"
  /\ reached \/ "loss" \in Faults
  /\ phase' = [phase EXCEPT ![a] = IF reached THEN "RUNNING" ELSE "DOWN"]
  /\ registry' = IF reached THEN RegistryRegistered(a) ELSE registry
  /\ UNCHANGED <<tasks, lastId, exchange, executed>>

(* registerWithControlPlane, then the loops start whether or not it         *)
(* succeeded.                                                               *)
AgentRegister(a, reached) ==
  /\ phase[a] = "LISTENING"
  /\ reached \/ "loss" \in Faults
  /\ phase' = [phase EXCEPT ![a] = "RUNNING"]
  /\ registry' = IF reached THEN RegistryRegistered(a) ELSE registry
  /\ UNCHANGED <<tasks, lastId, exchange, executed>>

(* The timer fires: the daemon's status goes into the request as it is now. *)
SendHeartbeat(a, s, status) ==
  /\ phase[a] = "RUNNING"
  /\ exchange[a][s].stage = "IDLE"
  /\ exchange' = [exchange EXCEPT ![a][s] =
                    [stage |-> "REQUEST", status |-> status, batch |-> {}]]
  /\ UNCHANGED <<registry, tasks, lastId, phase, executed>>

(* processHeartbeat; nobody waits for the answer to an orphaned request. *)
ProcessHeartbeat(a, s) ==
  /\ exchange[a][s].stage \in {"REQUEST", "ORPHAN"}
  /\ registry' = RegistryHeard(a, exchange[a][s].status)
  /\ tasks' = TasksPulled(a)
  /\ exchange' = [exchange EXCEPT ![a][s] =
                    IF exchange[a][s].stage = "REQUEST"
                    THEN [stage |-> "RESPONSE", status |-> "NONE",
                          batch |-> PulledIds(a)]
                    ELSE Idle]
  /\ UNCHANGED <<lastId, phase, executed>>

(* The control plane stops after the UPDATE of the agents row. *)
CrashInHeartbeat(a, s) ==
  /\ "cpCrash" \in Faults
  /\ exchange[a][s].stage \in {"REQUEST", "ORPHAN"}
  /\ registry' = RegistryHeard(a, exchange[a][s].status)
  /\ exchange' = [exchange EXCEPT ![a][s] = Idle]
  /\ UNCHANGED <<tasks, lastId, phase, executed>>

ReceiveResponse(a, s) ==
  /\ exchange[a][s].stage = "RESPONSE"
  /\ exchange' = [exchange EXCEPT ![a][s] =
                    IF exchange[a][s].batch = {} THEN Idle
                    ELSE [exchange[a][s] EXCEPT !.stage = "BATCH"]]
  /\ UNCHANGED <<registry, tasks, lastId, phase, executed>>

(* sendHeartbeat catches the failed fetch and says nothing. *)
LoseMessage(a, s) ==
  /\ "loss" \in Faults
  /\ exchange[a][s].stage \in {"REQUEST", "ORPHAN", "RESPONSE"}
  /\ exchange' = [exchange EXCEPT ![a][s] = Idle]
  /\ UNCHANGED <<registry, tasks, lastId, phase, executed>>

(* The tasks of a response are processed one after the other, oldest first. *)
IsHead(batch, i) == i \in batch /\ \A j \in batch : i <= j

DataOf(a, i) == {t.data : t \in {u \in tasks : u.agent = a /\ u.id = i}}

(* The rest of the batch is dropped after the first task. *)
BatchCut(a, s, i) == Idle

(* The batch after its task i; the exchange ends with the last one. *)
BatchAfter(a, s, i) ==
  LET rest == exchange[a][s].batch \ {i}
  IN  IF rest = {} THEN Idle ELSE [exchange[a][s] EXCEPT !.batch = rest]

RunTask(a, s, i) ==
  /\ exchange[a][s].stage = "BATCH"
  /\ IsHead(exchange[a][s].batch, i)
  /\ executed' = [executed EXCEPT ![a][i] = @ + 1]
  /\ exchange' = [exchange EXCEPT ![a][s] = BatchAfter(a, s, i)]
  /\ UNCHANGED <<registry, tasks, lastId, phase>>

(* An exception leaves the loop over the batch: the rest is not processed. *)
ThrowInTask(a, s, i) ==
  /\ exchange[a][s].stage = "BATCH"
  /\ IsHead(exchange[a][s].batch, i)
  /\ DataOf(a, i) \cap Throwing # {}
  /\ executed' = [executed EXCEPT ![a][i] = @ + 1]
  /\ exchange' = [exchange EXCEPT ![a][s] = Idle]
  /\ UNCHANGED <<registry, tasks, lastId, phase>>

(* The daemon dies: what it had received is gone, a request may still arrive. *)
AgentCrash(a) ==
  /\ "agentCrash" \in Faults
  /\ phase[a] # "DOWN"
  /\ phase' = [phase EXCEPT ![a] = "DOWN"]
  /\ exchange' = [exchange EXCEPT ![a] =
       [s \in Slots |-> IF exchange[a][s].stage \in {"REQUEST", "ORPHAN"}
                        THEN [exchange[a][s] EXCEPT !.stage = "ORPHAN"]
                        ELSE Idle]]
  /\ UNCHANGED <<registry, tasks, lastId, executed>>

(* A tick of time: agents that are not heard of grow silent. *)
RegistryAged ==
  [a \in Agents |-> IF Registered(a) /\ registry[a].silence <= OfflineAge
                    THEN [registry[a] EXCEPT !.silence = @ + 1]
                    ELSE registry[a]]

TaskTick ==
  /\ registry' = RegistryAged
  /\ UNCHANGED <<tasks, lastId, phase, exchange, executed>>

(* queueTask as the trigger-scan route calls it, for any agent id. *)
QueueTask(a, d) ==
  /\ QueueTasks({a}, d)
  /\ UNCHANGED <<registry, phase, exchange, executed>>

TaskNext ==
  \/ \E a \in Agents, d \in Data : QueueTask(a, d)
  \/ \E a \in Agents : AgentStart(a)
  \/ \E a \in Agents, reached \in BOOLEAN : AgentRegister(a, reached)
  \/ \E a \in Agents, s \in Slots, status \in ReportedStatus :
        SendHeartbeat(a, s, status)
  \/ \E a \in Agents, s \in Slots : ProcessHeartbeat(a, s)
  \/ \E a \in Agents, s \in Slots : CrashInHeartbeat(a, s)
  \/ \E a \in Agents, s \in Slots : ReceiveResponse(a, s)
  \/ \E a \in Agents, s \in Slots : LoseMessage(a, s)
  \/ \E a \in Agents, s \in Slots, i \in Ids : RunTask(a, s, i)
  \/ \E a \in Agents, s \in Slots, i \in Ids : ThrowInTask(a, s, i)
  \/ \E a \in Agents : AgentCrash(a)
  \/ TaskTick

TaskSpec == TaskInit /\ [][TaskNext]_taskVars

(* The daemon is started again, gets as far as its timer again, the timer    *)
(* keeps firing, the event loops of both processes keep running what is      *)
(* ready, and a message sent for ever arrives.                               *)
TaskFairness ==
  /\ \A a \in Agents : WF_taskVars(AgentStart(a))
  /\ \A a \in Agents : SF_taskVars(\E reached \in BOOLEAN : AgentRegister(a, reached))
  /\ \A a \in Agents, s \in Slots :
       /\ SF_taskVars(\E status \in ReportedStatus : SendHeartbeat(a, s, status))
       /\ SF_taskVars(ProcessHeartbeat(a, s))
       /\ SF_taskVars(ReceiveResponse(a, s))
       /\ WF_taskVars(\E i \in Ids : RunTask(a, s, i))

FairTaskSpec == TaskSpec /\ TaskFairness

-----------------------------------------------------------------------------
(* Properties.                                                             *)

(* The values the tables, the exchanges and the daemons can hold. *)
TypeOK ==
  /\ registry \in [Agents -> [status  : AgentStatus \cup {"NONE"},
                              silence : 0..(OfflineAge + 1)]]
  /\ tasks \in SUBSET TaskRow
  /\ lastId \in 0..MaxTasks
  /\ phase \in [Agents -> {"DOWN", "LISTENING", "RUNNING"}]
  /\ exchange \in [Agents -> [Slots -> Exchange]]
  /\ executed \in [Agents -> [Ids -> Nat]]

InFlight(a, i) == \E s \in Slots : i \in exchange[a][s].batch
HasRow(a, i, status) ==
  \E t \in tasks : t.agent = a /\ t.id = i /\ t.status = status

(* No agent processes a task twice: pulling marks the row before the answer   *)
(* leaves, whatever overlaps, is lost or crashes afterwards.                  *)
AtMostOnce == \A a \in Agents, i \in Ids : executed[a][i] <= 1

(* A task is in one place only: pending in the table, in one exchange, or     *)
(* processed; and one agent never receives the task of another.               *)
OnePlace ==
  \A a \in Agents, i \in Ids :
    /\ InFlight(a, i) => HasRow(a, i, "DISPATCHED") /\ executed[a][i] = 0
    /\ executed[a][i] > 0 => HasRow(a, i, "DISPATCHED")
    /\ \A s, r \in Slots :
         i \in exchange[a][s].batch \cap exchange[a][r].batch => s = r

(* Tasks are handed over oldest first: while a task waits in the table no     *)
(* newer task of the same agent has been dispatched.                          *)
DispatchedInOrder ==
  \A t, u \in tasks :
    (t.agent = u.agent /\ t.status = "PENDING" /\ u.status = "DISPATCHED")
      => u.id < t.id

(* What becomes of a task, for the abstract TaskDelivery. *)
Fate(a, i) ==
  CASE executed[a][i] > 0      -> "DONE"
    [] HasRow(a, i, "PENDING") -> "QUEUED"
    [] InFlight(a, i)          -> "TAKEN"
    [] i > lastId              -> "NEW"
    [] HasRow(a, i, "DISPATCHED") /\ ~InFlight(a, i) /\ executed[a][i] = 0
                               -> "LOST"
    [] OTHER                   -> "NEW"

Delivery == INSTANCE TaskDelivery WITH
  Tasks <- Agents \X Ids,
  Owner <- [x \in Agents \X Ids |-> x[1]],
  fate  <- [x \in Agents \X Ids |-> Fate(x[1], x[2])],
  runs  <- [x \in Agents \X Ids |-> executed[x[1]][x[2]]]

(* The service and the daemon together deliver as TaskDelivery promises. *)
DeliverySpec == Delivery!Spec

(* However many answers get lost and daemons crash, no task waits for ever:    *)
(* each queued task is processed or lost on the way, never left in the table   *)
(* or in a batch, since the loops start again and the timer keeps firing.      *)
QueuedIsSettled ==
  \A a \in Agents, i \in Ids :
    Fate(a, i) = "QUEUED" ~> Fate(a, i) \in {"DONE", "LOST"}
=============================================================================
