----------------------------- MODULE Discovery -----------------------------
(***************************************************************************)
(* How a zone agent keeps the data map up to date: the scans and the drift *)
(* checks of agent/src/daemon.ts, agent/src/discovery/scanner.ts over the  *)
(* PostgreSQL adapter, and what ingestDiscoveryReport of                   *)
(* control-plane/src/services/catalog.service.ts makes of a report.        *)
(*                                                                         *)
(* The store belongs to somebody else, who changes its schema whenever he  *)
(* likes.  Every query is awaited, so scans and drift checks overlap; each *)
(* occupies a slot.  A checksum is taken to tell all schemas apart.  What  *)
(* the scanner finds inside a column is left out: the columns of a table   *)
(* are one of a few shapes.                                                *)
(***************************************************************************)
EXTENDS Naturals, FiniteSets

CONSTANTS
  Tables,     \* the names of tables the store may have
  Shapes,     \* the columns a table may have
  Absent,     \* in place of the shape of a table that does not exist
  NoChecksum, \* the empty string lastDdlChecksum starts with
  Slots,      \* scans and drift checks that may be under way at once
  MaxDdl,     \* bound on the changes of the schema
  MaxFaults,  \* bound on the faults
  Faults      \* the faults: "db", "loss", "agentCrash", "cpCrash"

ASSUME DiscoveryAssumption ==
  /\ Absent \notin Shapes
  /\ NoChecksum \notin [Tables -> Shapes \cup {Absent}]
  /\ MaxDdl \in Nat
  /\ MaxFaults \in Nat

VARIABLES
  schema,           \* the store: the shape of each table
  phase,            \* the daemon: DOWN, LISTENING (first scan), RUNNING
  status,           \* its status, which its heartbeats report
  lastDdlChecksum,  \* the checksum of the last scan that ended well
  slot,             \* the scan or drift check in each slot
  dataMap,          \* the rows of discovered_tables: the shape of each table
  hindered,         \* a cause for the map to differ from the last checksum
  changes, failures \* how many changes and faults there were

vars == <<schema, phase, status, lastDdlChecksum, slot, dataMap, hindered,
          changes, failures>>
daemonVars == <<phase, status, lastDdlChecksum>>

-----------------------------------------------------------------------------
Schemas == [Tables -> Shapes \cup {Absent}]
Checksums == Schemas \cup {NoChecksum}

(* The tables getTableList returns. *)
TableList == {tb \in Tables : schema[tb] # Absent}

(* A drift check reads the checksum (CHECKING) and compares it (COMPARING).   *)
(* A scan reads the list of tables (LISTING), the checksum (CHECKSUM), the    *)
(* tables left (TABLES) and posts its report (SUBMIT; ORPHAN once the daemon  *)
(* is gone).  A report is a function on the tables it lists.  A scan is       *)
(* disturbed when the schema changes between its first and its last query.    *)
Idle == [stage |-> "IDLE", initial |-> FALSE, left |-> {}, checksum |-> NoChecksum,
         report |-> [tb \in {} |-> Absent], disturbed |-> FALSE]

Reports == UNION {[S -> Shapes \cup {Absent}] : S \in SUBSET Tables}

Slot == [stage     : {"IDLE", "CHECKING", "COMPARING", "LISTING", "CHECKSUM",
                      "TABLES", "SUBMIT", "ORPHAN"},
         initial   : BOOLEAN,
         left      : SUBSET Tables,
         checksum  : Checksums,
         report    : Reports,
         disturbed : BOOLEAN]

At(s, stages) == slot[s].stage \in stages
Scanning == {"LISTING", "CHECKSUM", "TABLES"}
Posting == {"SUBMIT", "ORPHAN"}

Init ==
  /\ schema \in Schemas
  /\ phase = "DOWN"
  /\ status = "ACTIVE"
  /\ lastDdlChecksum = NoChecksum
  /\ slot = [s \in Slots |-> Idle]
  /\ dataMap = [tb \in {} |-> Absent]
  /\ hindered = FALSE
  /\ changes = 0
  /\ failures = 0

(* A fault of the given kind happens, if the environment has it left. *)
Fault(kind) ==
  /\ kind \in Faults
  /\ failures < MaxFaults
  /\ failures' = failures + 1

-----------------------------------------------------------------------------
(* The store.  Scans that have read the list of tables are disturbed.        *)

AlterSchema(tb, shape) ==
  /\ changes < MaxDdl
  /\ schema[tb] # shape
  /\ schema' = [schema EXCEPT ![tb] = shape]
  /\ changes' = changes + 1
  /\ slot' = [s \in Slots |->
                [slot[s] EXCEPT !.disturbed = @ \/ At(s, {"CHECKSUM", "TABLES"})]]
  /\ UNCHANGED <<daemonVars, dataMap, hindered, failures>>

-----------------------------------------------------------------------------
(* The daemon.                                                             *)

(* start: a new process listens; what it knows is gone. *)
AgentStart ==
  /\ phase = "DOWN"
  /\ phase' = "LISTENING"
  /\ status' = "ACTIVE"
  /\ lastDdlChecksum' = NoChecksum
  /\ UNCHANGED <<schema, slot, dataMap, hindered, changes, failures>>

(* runInitialScan, whoever calls it. *)
BeginScan(s, initial) ==
  /\ status' = "SCANNING"
  /\ slot' = [slot EXCEPT ![s] =
                [Idle EXCEPT !.stage = "LISTING", !.initial = initial]]

InitialScan(s) ==
  /\ phase = "LISTENING"
  /\ \A r \in Slots : ~slot[r].initial
  /\ At(s, {"IDLE"})
  /\ BeginScan(s, TRUE)
  /\ UNCHANGED <<schema, phase, lastDdlChecksum, dataMap, hindered, changes, failures>>

(* The route /discovery/trigger, or a task of the DPO. *)
TriggerScan(s) ==
  /\ phase # "DOWN"
  /\ At(s, {"IDLE"})
  /\ BeginScan(s, FALSE)
  /\ UNCHANGED <<schema, phase, lastDdlChecksum, dataMap, hindered, changes, failures>>

(* scan: the list of tables first, ... *)
GetTableList(s) ==
  /\ At(s, {"LISTING"})
  /\ slot' = [slot EXCEPT ![s].stage = "CHECKSUM", ![s].left = TableList]
  /\ UNCHANGED <<schema, daemonVars, dataMap, hindered, changes, failures>>

(* ... then the checksum, ... *)
GetDdlChecksum(s) ==
  /\ At(s, {"CHECKSUM"})
  /\ slot' = [slot EXCEPT ![s].stage = "TABLES", ![s].checksum = schema]
  /\ UNCHANGED <<schema, daemonVars, dataMap, hindered, changes, failures>>

(* The report with one more table.  A table dropped in the meantime has no  *)
(* columns, and the failure to sample its rows is caught.                   *)
ReportWith(r, tb) ==
  [x \in DOMAIN r \cup {tb} |-> IF x = tb THEN schema[tb] ELSE r[x]]

(* ... then the columns of each table of the list. *)
GetTableSchema(s, tb) ==
  /\ At(s, {"TABLES"})
  /\ tb \in slot[s].left
  /\ slot' = [slot EXCEPT ![s].left = @ \ {tb}, ![s].report = ReportWith(@, tb)]
  /\ UNCHANGED <<schema, daemonVars, dataMap, hindered, changes, failures>>

(* The scan ends: checksum and status are set, the report leaves. *)
ScanDone(s) ==
  /\ At(s, {"TABLES"})
  /\ slot[s].left = {}
  /\ lastDdlChecksum' = slot[s].checksum
  /\ status' = "DORMANT"
  /\ hindered' = slot[s].disturbed
  /\ slot' = [slot EXCEPT ![s].stage = "SUBMIT"]
  /\ UNCHANGED <<schema, phase, dataMap, changes, failures>>

(* What a dead process leaves: a report that is on its way. *)
LeftBehind ==
  [s \in Slots |-> IF At(s, Posting)
                   THEN [slot[s] EXCEPT !.stage = "ORPHAN", !.initial = FALSE]
                   ELSE Idle]

(* The status stays as it is when a scan fails. *)
StatusUnchanged == status

(* The daemon reports the status the control plane shows for silent agents. *)
StatusOffline == "OFFLINE"

StatusAfterFailure == "ERROR"

(* A query of the scan throws.  start rejects and the process exits if it was *)
(* the initial scan; otherwise the caller catches the error.                  *)
ScanFails(s) ==
  /\ Fault("db")
  /\ At(s, Scanning)
  /\ status' = StatusAfterFailure
  /\ IF slot[s].initial
     THEN phase' = "DOWN" /\ slot' = LeftBehind
     ELSE phase' = phase /\ slot' = [slot EXCEPT ![s] = Idle]
  /\ UNCHANGED <<schema, lastDdlChecksum, dataMap, hindered, changes>>

(* The timer of checkDdlDrift fires, whatever else is under way. *)
DriftTimer(s) ==
  /\ phase = "RUNNING"
  /\ At(s, {"IDLE"})
  /\ slot' = [slot EXCEPT ![s].stage = "CHECKING"]
  /\ UNCHANGED <<schema, daemonVars, dataMap, hindered, changes, failures>>

DriftChecksum(s) ==
  /\ At(s, {"CHECKING"})
  /\ slot' = [slot EXCEPT ![s].stage = "COMPARING", ![s].checksum = schema]
  /\ UNCHANGED <<schema, daemonVars, dataMap, hindered, changes, failures>>

(* The checksum is never found to differ. *)
NeverDrifted(s) == FALSE

Drifted(s) ==
  lastDdlChecksum # NoChecksum /\ slot[s].checksum # lastDdlChecksum

(* Only an agent that was not in error goes to sleep. *)
StatusUnlessError == IF status = "ERROR" THEN "ERROR" ELSE "DORMANT"

StatusWithoutDrift == "DORMANT"

(* Drift starts a scan; otherwise the daemon is DORMANT, scanning or not. *)
CheckDdlDrift(s) ==
  /\ At(s, {"COMPARING"})
  /\ IF Drifted(s)
     THEN BeginScan(s, FALSE)
     ELSE /\ status' = StatusWithoutDrift
          /\ slot' = [slot EXCEPT ![s] = Idle]
  /\ UNCHANGED <<schema, phase, lastDdlChecksum, dataMap, hindered, changes, failures>>

(* The query of a drift check throws and is logged. *)
DriftCheckFails(s) ==
  /\ Fault("db")
  /\ At(s, {"CHECKING"})
  /\ slot' = [slot EXCEPT ![s] = Idle]
  /\ UNCHANGED <<schema, daemonVars, dataMap, hindered, changes>>

AgentCrash ==
  /\ Fault("agentCrash")
  /\ phase # "DOWN"
  /\ phase' = "DOWN"
  /\ slot' = LeftBehind
  /\ UNCHANGED <<schema, status, lastDdlChecksum, dataMap, hindered, changes>>

-----------------------------------------------------------------------------
(* The report on its way and the control plane.                            *)

(* The POST is over: after the initial scan the daemon registers and starts *)
(* its loops, whether it reached the control plane or not.                  *)
PostOver(s) ==
  /\ phase' = IF slot[s].initial THEN "RUNNING" ELSE phase
  /\ slot' = [slot EXCEPT ![s] = Idle]

(* Rows that exist are kept as they are. *)
MapKept(S, r) ==
  [tb \in DOMAIN dataMap \cup S |->
     IF tb \in DOMAIN dataMap THEN dataMap[tb] ELSE r[tb]]

(* The rows of the map after the tables S of a report were upserted. *)
MapUpserted(S, r) ==
  [tb \in DOMAIN dataMap \cup S |-> IF tb \in S THEN r[tb] ELSE dataMap[tb]]

(* The report of a scan that was not disturbed and set the last checksum. *)
UpToDate(s) == slot[s].checksum = lastDdlChecksum /\ ~slot[s].disturbed

(* ingestDiscoveryReport.  A report that arrives late overwrites a newer one. *)
IngestDiscoveryReport(s) ==
  /\ At(s, Posting)
  /\ dataMap' = MapUpserted(DOMAIN slot[s].report, slot[s].report)
  /\ hindered' = ~UpToDate(s)
  /\ PostOver(s)
  /\ UNCHANGED <<schema, status, lastDdlChecksum, changes, failures>>

(* The control plane stops in the loop over the tables. *)
IngestInterrupted(s, S) ==
  /\ Fault("cpCrash")
  /\ At(s, Posting)
  /\ S \subseteq DOMAIN slot[s].report
  /\ dataMap' = MapUpserted(S, slot[s].report)
  /\ hindered' = TRUE
  /\ PostOver(s)
  /\ UNCHANGED <<schema, status, lastDdlChecksum, changes>>

(* submitDiscoveryReport catches the failed POST; nobody sends it again. *)
LoseReport(s) ==
  /\ Fault("loss")
  /\ At(s, Posting)
  /\ hindered' = TRUE
  /\ PostOver(s)
  /\ UNCHANGED <<schema, status, lastDdlChecksum, dataMap, changes>>

-----------------------------------------------------------------------------
ScanStep(s) ==
  \/ GetTableList(s)
  \/ GetDdlChecksum(s)
  \/ \E tb \in Tables : GetTableSchema(s, tb)
  \/ ScanDone(s)

DriftStep(s) == DriftChecksum(s) \/ CheckDdlDrift(s)

Next ==
  \/ \E tb \in Tables, shape \in Shapes \cup {Absent} : AlterSchema(tb, shape)
  \/ AgentStart
  \/ AgentCrash
  \/ \E s \in Slots :
       \/ InitialScan(s)
       \/ TriggerScan(s)
       \/ ScanStep(s)
       \/ ScanFails(s)
       \/ DriftTimer(s)
       \/ DriftStep(s)
       \/ DriftCheckFails(s)
       \/ IngestDiscoveryReport(s)
       \/ \E S \in SUBSET Tables : IngestInterrupted(s, S)
       \/ LoseReport(s)

Spec == Init /\ [][Next]_vars

(* The process is started again, its timers fire (a slot is a bound of the    *)
(* model, so having one free now and then is enough), its queries and its     *)
(* posts end one way or another.  Nobody has to trigger a scan.               *)
Fairness ==
  /\ WF_vars(AgentStart)
  /\ SF_vars(\E s \in Slots : InitialScan(s))
  /\ SF_vars(\E s \in Slots : DriftTimer(s))
  /\ \A s \in Slots :
       /\ WF_vars(ScanStep(s))
       /\ WF_vars(DriftStep(s))
       /\ WF_vars(IngestDiscoveryReport(s))

FairSpec == Spec /\ Fairness

-----------------------------------------------------------------------------
(* Properties.                                                             *)

(* The values the store, the daemon, its scans and the map can hold. *)
TypeOK ==
  /\ schema \in Schemas
  /\ phase \in {"DOWN", "LISTENING", "RUNNING"}
  /\ status \in {"ACTIVE", "DORMANT", "SCANNING", "ERROR"}
  /\ lastDdlChecksum \in Checksums
  /\ slot \in [Slots -> Slot]
  /\ dataMap \in Reports
  /\ hindered \in BOOLEAN
  /\ changes \in 0..MaxDdl
  /\ failures \in 0..MaxFaults

(* The fan-out of a withdrawal skips an agent that is SCANNING, so a daemon   *)
(* must not say so longer than it scans: whatever overlaps or fails, a        *)
(* running daemon that is SCANNING has a scan under way.                      *)
ScanningIsTrue ==
  phase # "DOWN" /\ status = "SCANNING" => \E s \in Slots : At(s, Scanning)

(* The drift check trusts that the map shows the schema of the last checksum. *)
(* It does, or the report that makes it so is on its way, unless there was a  *)
(* cause: the schema changed during the scan, a report was lost or cut short, *)
(* or it overtook the report of a later scan.                                 *)
MapFollowsChecksum ==
  (lastDdlChecksum # NoChecksum /\ ~hindered) =>
    \/ \A tb \in Tables :
         lastDdlChecksum[tb] # Absent =>
           tb \in DOMAIN dataMap /\ dataMap[tb] = lastDdlChecksum[tb]
    \/ \E s \in Slots : At(s, Posting) /\ UpToDate(s)

(* Once the schema stays as it is the daemon comes to know it and never again *)
(* takes an older one for it, however many old scans are still under way.     *)
DriftIsNoticed == <>[](lastDdlChecksum = schema)

(* A daemon never stays in a status in which no withdrawal reaches it: after  *)
(* every scan and every failure it is DORMANT again.                          *)
DormantAgain == []<>(phase = "RUNNING" /\ status = "DORMANT")
=============================================================================
