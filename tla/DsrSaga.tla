------------------------------ MODULE DsrSaga ------------------------------
(***************************************************************************)
(* The erasure saga: control-plane/src/services/dsr.service.ts plans one   *)
(* task per table of the data map (catalog.service.ts), the agents execute *)
(* them (agent/src/dsr/executor.ts) and report a receipt for each.  The    *)
(* tasks travel over AgentTasks, together with rescans that may fail.      *)
(*                                                                         *)
(* Signatures are left out: the control plane stores them unread.  So is   *)
(* the choice of the filter column, and what rows a DELETE matches: a      *)
(* DELETE takes effect or it does not.                                     *)
(***************************************************************************)
EXTENDS Naturals, Sequences, FiniteSets

CONSTANTS
  Agents, Slots, OfflineAge, MaxTasks, Faults,   \* see AgentTasks
  Requests,   \* the ids of DSR requests
  Tables,     \* the tables of all stores, numbered in the order of their names
  Owner,      \* the agent whose store holds a table
  Rescans     \* {Rescan}, or {} where nobody triggers one

Rescan == [type |-> "TASK_DISCOVERY_TRIGGER", dsr |-> "none", table |-> 0]

ASSUME SagaAssumption ==
  /\ Tables \subseteq Nat \ {0} /\ IsFiniteSet(Tables)
  /\ Owner \in [Tables -> Agents]
  /\ Rescans \subseteq {Rescan}
  /\ OfflineAge \in Nat
  /\ MaxTasks \in Nat

VARIABLES
  registry, tasks, lastId, phase, exchange, executed,   \* see AgentTasks
  dataMap,    \* the tables in discovered_tables
  requests,   \* the rows of dsr_requests
  receipts,   \* the receipts on their way to the control plane
  erased,     \* the deletions that took effect, by request and table
  unreported  \* history: the tasks whose receipts got lost

Erasure(x, tb) == [type |-> "TASK_DSR_EXECUTE", dsr |-> x, table |-> tb]

T == INSTANCE AgentTasks WITH
       Data <- {Erasure(x, tb) : x \in Requests, tb \in Tables} \cup Rescans,
       Throwing <- Rescans

sagaVars == <<dataMap, requests, receipts, erased, unreported>>
vars == <<registry, tasks, lastId, phase, exchange, executed,
          dataMap, requests, receipts, erased, unreported>>

-----------------------------------------------------------------------------
(* A row of dsr_requests keeps the ids of its tasks and its receipts.      *)
NoRequest == [status |-> "NONE", plan |-> {}, proofs |-> <<>>]

(* A receipt, and the slot of the daemon that awaits the answer to its POST; *)
(* DEAD if that process is gone.                                             *)
Receipt == [dsr : Requests, id : T!Ids, agent : Agents,
            status : {"SUCCESS", "FAILED"}, slot : Slots \cup {"DEAD"}]

Init ==
  /\ T!TaskInit
  /\ dataMap = {}
  /\ requests = [x \in Requests |-> NoRequest]
  /\ receipts = {}
  /\ erased = {}
  /\ unreported = {}

-----------------------------------------------------------------------------
(* The control plane.                                                      *)

(* ingestDiscoveryReport upserts the tables of a report and removes none. *)
IngestDiscoveryReport(a, S) ==
  /\ phase[a] # "DOWN"
  /\ S \subseteq {tb \in Tables : Owner[tb] = a}
  /\ dataMap' = dataMap \cup S
  /\ UNCHANGED <<registry, tasks, lastId, phase, exchange, executed,
                 requests, receipts, erased, unreported>>

(* The id of the task for tb when the tables of S are planned in order. *)
PlannedId(tb, S) == lastId + Cardinality({u \in S : u <= tb})

(* The tasks queued for the tables of P, the first ones of the data map. *)
PlannedTasks(x, P) ==
  {[id |-> PlannedId(tb, dataMap), agent |-> Owner[tb],
    data |-> Erasure(x, tb), status |-> "PENDING"] : tb \in P}

(* A randomUUID is new: no request and no task left by a crash has it. *)
Fresh(x) ==
  /\ requests[x].status = "NONE"
  /\ \A t \in tasks : t.data.dsr # x

QueuePlan(x, P) ==
  /\ Fresh(x)
  /\ lastId + Cardinality(P) <= MaxTasks
  /\ lastId' = lastId + Cardinality(P)
  /\ tasks' = tasks \cup PlannedTasks(x, P)
  /\ UNCHANGED <<registry, phase, exchange, executed, dataMap, receipts, erased,
                 unreported>>

(* createDsrRequest queues the whole plan before it INSERTs the request. *)
CreateDsrRequest(x) ==
  /\ QueuePlan(x, dataMap)
  /\ requests' = [requests EXCEPT ![x] =
       [status |-> "IN_PROGRESS",
        plan   |-> {PlannedId(tb, dataMap) : tb \in dataMap},
        proofs |-> <<>>]]

(* The control plane stops before the INSERT, with part of the plan queued. *)
CreateInterrupted(x) ==
  /\ "cpCrash" \in Faults
  /\ \E P \in SUBSET dataMap \ {{}} :
       /\ \A tb \in P, u \in dataMap : u < tb => u \in P
       /\ QueuePlan(x, P)
  /\ UNCHANGED requests

(* A completion that does not wait for the last receipt. *)
CompletesOneEarly(row) == Len(row.proofs) + 1 >= Cardinality(row.plan)

(* A completion that waits for one receipt too many. *)
CompletesOneLate(row) == Len(row.proofs) > Cardinality(row.plan)

(* The test for completion, on the row with the new receipt. *)
Completes(row) == Len(row.proofs) >= Cardinality(row.plan)

(* The receipts are replaced by the new one. *)
WithOnlyProof(row, proof) ==
  LET next == [row EXCEPT !.proofs = <<proof>>]
  IN  [next EXCEPT !.status =
         IF Completes(next) THEN "COMPLETED" ELSE "IN_PROGRESS"]

(* The row after a receipt; a FAILED one counts like any other. *)
WithProof(row, proof) ==
  LET next == [row EXCEPT !.proofs = Append(@, proof)]
  IN  [next EXCEPT !.status =
         IF Completes(next) THEN "COMPLETED" ELSE "IN_PROGRESS"]

(* processDsrReceipt changes nothing without a row; it checks neither that *)
(* the receipt is new nor that its task belongs to the request.            *)
ProcessDsrReceipt(r) ==
  /\ r \in receipts
  /\ requests' =
       IF requests[r.dsr].status = "NONE" THEN requests
       ELSE [requests EXCEPT ![r.dsr] =
               WithProof(@, [id |-> r.id, status |-> r.status])]
  /\ receipts' = receipts \ {r}
  /\ UNCHANGED <<registry, tasks, lastId, phase, exchange, executed,
                 dataMap, erased, unreported>>

-----------------------------------------------------------------------------
(* The agents.                                                             *)

(* The POST of a receipt is awaited before the next task of the batch. *)
Awaiting(a, s) == \E r \in receipts : r.agent = a /\ r.slot = s

(* executeTask catches every error and reports FAILED: a store can refuse,   *)
(* or lose the connection after the deletion took effect.                    *)
Outcomes ==
  {[status |-> "SUCCESS", deleted |-> TRUE]} \cup
  IF "db" \in Faults
  THEN {[status |-> "FAILED", deleted |-> b] : b \in BOOLEAN}
  ELSE {}

ReceiptFor(a, s, i, d, outcome) ==
  [dsr |-> d.dsr, id |-> i, agent |-> a, status |-> outcome.status, slot |-> s]

(* TASK_DSR_EXECUTE: the deletion, then the POST of its receipt leaves. *)
ExecuteTask(a, s, i) ==
  /\ ~Awaiting(a, s)
  /\ T!RunTask(a, s, i)
  /\ \E d \in T!DataOf(a, i), outcome \in Outcomes :
       /\ d.type = "TASK_DSR_EXECUTE"
       /\ receipts' = receipts \cup {ReceiptFor(a, s, i, d, outcome)}
       /\ erased' = IF outcome.deleted THEN erased \cup {<<d.dsr, d.table>>}
                    ELSE erased
  /\ UNCHANGED <<dataMap, requests, unreported>>

(* TASK_DISCOVERY_TRIGGER, done or failed. *)
RunRescan(a, s, i) ==
  /\ ~Awaiting(a, s)
  /\ T!DataOf(a, i) = {Rescan}
  /\ T!RunTask(a, s, i) \/ T!ThrowInTask(a, s, i)
  /\ UNCHANGED sagaVars

(* submitDsrProof logs the failed POST and forgets the receipt. *)
LoseReceipt(r) ==
  /\ "loss" \in Faults
  /\ r \in receipts
  /\ receipts' = receipts \ {r}
  /\ unreported' = unreported \cup {r.id}
  /\ UNCHANGED <<registry, tasks, lastId, phase, exchange, executed,
                 dataMap, requests, erased>>

Posting(a) == {r \in receipts : r.agent = a /\ r.slot # "DEAD"}

(* A receipt that was being posted leaves the dead process or it does not. *)
AgentCrash(a) ==
  /\ T!AgentCrash(a)
  /\ \E S \in SUBSET Posting(a) :
       /\ receipts' = (receipts \ Posting(a)) \cup {[r EXCEPT !.slot = "DEAD"] : r \in S}
       /\ unreported' = unreported \cup {r.id : r \in Posting(a) \ S}
  /\ UNCHANGED <<dataMap, requests, erased>>

(* A slot is free for a heartbeat when its last POST was answered.  The saga *)
(* reads no status, so one stands for all.                                   *)
SendHeartbeat(a, s) ==
  /\ ~Awaiting(a, s)
  /\ T!SendHeartbeat(a, s, "DORMANT")
  /\ UNCHANGED sagaVars

Next ==
  \/ \E a \in Agents, S \in SUBSET Tables : IngestDiscoveryReport(a, S)
  \/ \E x \in Requests : CreateDsrRequest(x)
  \/ \E x \in Requests : CreateInterrupted(x)
  \/ \E r \in receipts : ProcessDsrReceipt(r)
  \/ \E a \in Agents, s \in Slots, i \in T!Ids : ExecuteTask(a, s, i)
  \/ \E a \in Agents, s \in Slots, i \in T!Ids : RunRescan(a, s, i)
  \/ \E r \in receipts : LoseReceipt(r)
  \/ \E a \in Agents : AgentCrash(a)
  \/ \E a \in Agents, s \in Slots : SendHeartbeat(a, s)
  \/ \E a \in Agents, d \in Rescans : T!QueueTask(a, d) /\ UNCHANGED sagaVars
  \/ \E a \in Agents : T!AgentStart(a) /\ UNCHANGED sagaVars
  \/ \E a \in Agents, reached \in BOOLEAN :
        T!AgentRegister(a, reached) /\ UNCHANGED sagaVars
  \/ \E a \in Agents, s \in Slots : T!ProcessHeartbeat(a, s) /\ UNCHANGED sagaVars
  \/ \E a \in Agents, s \in Slots : T!CrashInHeartbeat(a, s) /\ UNCHANGED sagaVars
  \/ \E a \in Agents, s \in Slots : T!ReceiveResponse(a, s) /\ UNCHANGED sagaVars
  \/ \E a \in Agents, s \in Slots : T!LoseMessage(a, s) /\ UNCHANGED sagaVars
  \/ T!TaskTick /\ UNCHANGED sagaVars

Spec == Init /\ [][Next]_vars

(* As in AgentTasks: the daemon is started again and reaches its timer, the  *)
(* event loops keep running and what is sent for ever arrives.  Nobody is    *)
(* obliged to file a request or to report a table.                           *)
Fairness ==
  /\ \A a \in Agents :
       /\ WF_vars(T!AgentStart(a) /\ UNCHANGED sagaVars)
       /\ SF_vars(\E reached \in BOOLEAN :
                    T!AgentRegister(a, reached) /\ UNCHANGED sagaVars)
       /\ \A s \in Slots :
            /\ SF_vars(SendHeartbeat(a, s))
            /\ SF_vars(T!ProcessHeartbeat(a, s) /\ UNCHANGED sagaVars)
            /\ SF_vars(T!ReceiveResponse(a, s) /\ UNCHANGED sagaVars)
            /\ WF_vars(\E i \in T!Ids : ExecuteTask(a, s, i))
            /\ WF_vars(\E i \in T!Ids : RunRescan(a, s, i))
  /\ WF_vars(\E r \in receipts : ProcessDsrReceipt(r))

FairSpec == Spec /\ Fairness

-----------------------------------------------------------------------------
(* Properties.                                                             *)

(* The values the tables, the messages and the stores can hold. *)
TypeOK ==
  /\ T!TypeOK
  /\ dataMap \subseteq Tables
  /\ DOMAIN requests = Requests
  /\ \A x \in Requests :
       /\ requests[x].status \in {"NONE", "IN_PROGRESS", "COMPLETED"}
       /\ requests[x].plan \subseteq T!Ids
       /\ Len(requests[x].proofs) <= MaxTasks
  /\ receipts \subseteq Receipt
  /\ erased \subseteq Requests \X Tables
  /\ unreported \subseteq T!Ids

Completed(x) == requests[x].status = "COMPLETED"
Proofs(x) == {requests[x].proofs[k] : k \in 1..Len(requests[x].proofs)}

(* The table that task i of request x is about. *)
TableOf(x, i) ==
  CHOOSE tb \in Tables : \E t \in tasks : t.id = i /\ t.data = Erasure(x, tb)

(* The completion test counts receipts and never looks at their task ids; it  *)
(* is right all the same, because a task runs at most once and is reported at *)
(* most once: a COMPLETED request has a receipt for every task of its plan,   *)
(* and a SUCCESS among them is a deletion that took place.                    *)
CompletedIsAccounted ==
  \A x \in Requests : Completed(x) =>
    \A i \in requests[x].plan : \E p \in Proofs(x) :
      /\ p.id = i
      /\ p.status = "SUCCESS" => <<x, TableOf(x, i)>> \in erased

(* A completed request is final: no late, repeated or stray receipt is added  *)
(* to it, so completed_at is written once.                                    *)
CompletedIsFinal ==
  [][\A x \in Requests : Completed(x) => requests'[x] = requests[x]]_vars

(* Task i was lost before it ran, or its receipt was lost. *)
Forgotten(i) == i \in unreported \/ \E a \in Agents : T!Fate(a, i) = "LOST"

(* A request with a plan completes, whatever the heartbeats of its agents are *)
(* doing when it is filed and however often they crash, unless one of its     *)
(* tasks or receipts got lost: nothing else keeps it IN_PROGRESS.             *)
RequestCompletes ==
  \A x \in Requests :
    (requests[x].status = "IN_PROGRESS" /\ requests[x].plan # {})
      ~> (Completed(x) \/ \E i \in requests[x].plan : Forgotten(i))

(* README.md:74: the agent executes the DELETE and completion is logged on    *)
(* the control plane: a deletion gets its receipt on record for good, unless  *)
(* that receipt got lost.                                                     *)
ErasureIsLogged ==
  \A x \in Requests, i \in T!Ids :
    (i \in requests[x].plan /\ <<x, TableOf(x, i)>> \in erased)
      ~> [](i \in unreported \/ \E p \in Proofs(x) : p.id = i)

(* docs/COMPREHENSIVE_ARCHITECTURE_CONTEXT.md:52: partial completion is never *)
(* faked; a completed request has been carried out on every table planned.    *)
NeverFaked ==
  \A x \in Requests : Completed(x) =>
    \A i \in requests[x].plan : <<x, TableOf(x, i)>> \in erased
=============================================================================
