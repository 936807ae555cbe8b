-------------------------- MODULE DiscoveryProofs --------------------------
(***************************************************************************)
(* For any tables, any number of overlapping scans and any faults: a       *)
(* daemon that says SCANNING scans, and the data map follows the checksum  *)
(* the drift check compares with, unless one of the named causes occurred. *)
(* And for numbers and columns of any length: the checksums by which a     *)
(* scan recognises a number notice slips, and a column's report and its    *)
(* preview are what they should be.                                        *)
(***************************************************************************)
EXTENDS Discovery, PiiDigits, PiiColumn, TLAPS

(* What a scan knows at each stage, as long as nobody disturbed it. *)
ScanKnows(s) ==
  ~slot[s].disturbed =>
    /\ At(s, {"CHECKSUM"}) => slot[s].left = TableList /\ DOMAIN slot[s].report = {}
    /\ At(s, {"TABLES"}) =>
         /\ slot[s].checksum = schema
         /\ TableList \subseteq slot[s].left \cup DOMAIN slot[s].report
         /\ \A tb \in DOMAIN slot[s].report : slot[s].report[tb] = schema[tb]
    /\ At(s, Posting) =>
         \A tb \in Tables : slot[s].checksum[tb] # Absent =>
           /\ tb \in DOMAIN slot[s].report
           /\ slot[s].report[tb] = slot[s].checksum[tb]

(* A process that is gone leaves nothing but posts, and only the initial scan *)
(* of a process that is still starting can start its loops.                   *)
Alive ==
  \A s \in Slots : /\ phase = "DOWN" => At(s, {"IDLE", "ORPHAN"})
                   /\ slot[s].initial => phase = "LISTENING"
                   /\ At(s, {"LISTING"}) => DOMAIN slot[s].report = {}

(* A process scans its store once before it starts its loops. *)
OneInitial == \A s, r \in Slots : slot[s].initial /\ slot[r].initial => s = r

IInv ==
  /\ TypeOK
  /\ Alive
  /\ OneInitial
  /\ \A s \in Slots : ScanKnows(s)
  /\ ScanningIsTrue
  /\ MapFollowsChecksum

-----------------------------------------------------------------------------
(* Types.                                                                  *)

(* The reports a scan builds and the maps they are written into are reports. *)
LEMMA ReportTypes ==
  /\ \A r \in Reports : DOMAIN r \subseteq Tables
  /\ [tb \in {} |-> Absent] \in Reports
  /\ \A r \in Reports, tb \in Tables : schema \in Schemas => ReportWith(r, tb) \in Reports
  /\ \A r \in Reports : dataMap \in Reports =>
       \A S \in SUBSET DOMAIN r : MapUpserted(S, r) \in Reports
<1>1. \A r : r \in Reports <=> \E S \in SUBSET Tables : r \in [S -> Shapes \cup {Absent}]
  BY DEF Reports
<1>2. \A r \in Reports : /\ DOMAIN r \subseteq Tables
                         /\ \A tb \in DOMAIN r : r[tb] \in Shapes \cup {Absent}
  BY <1>1
<1>3. [tb \in {} |-> Absent] \in Reports
  <2>1. [tb \in {} |-> Absent] \in [{} -> Shapes \cup {Absent}]
    OBVIOUS
  <2> QED
    BY <1>1, <2>1
<1>4. ASSUME NEW r \in Reports, NEW tb \in Tables, schema \in Schemas
      PROVE  ReportWith(r, tb) \in Reports
  <2>1. ReportWith(r, tb) \in [DOMAIN r \cup {tb} -> Shapes \cup {Absent}]
    BY <1>2, <1>4 DEF ReportWith, Schemas
  <2>2. DOMAIN r \cup {tb} \in SUBSET Tables
    BY <1>2
  <2> QED
    BY <1>1, <2>1, <2>2
<1>5. ASSUME NEW r \in Reports, dataMap \in Reports, NEW S \in SUBSET DOMAIN r
      PROVE  MapUpserted(S, r) \in Reports
  <2>1. MapUpserted(S, r) \in [DOMAIN dataMap \cup S -> Shapes \cup {Absent}]
    BY <1>2, <1>5 DEF MapUpserted
  <2>2. DOMAIN dataMap \cup S \in SUBSET Tables
    BY <1>2, <1>5
  <2> QED
    BY <1>1, <2>1, <2>2
<1> QED
  BY <1>2, <1>3, <1>4, <1>5

(* The contents of a slot after each of the steps of a scan. *)
LEMMA SlotTypes ==
  /\ Idle \in Slot
  /\ \A b \in BOOLEAN : [Idle EXCEPT !.stage = "LISTING", !.initial = b] \in Slot
  /\ \A x \in Slot, b \in BOOLEAN : [x EXCEPT !.disturbed = b] \in Slot
  /\ \A x \in Slot, g \in {"CHECKING", "SUBMIT"} : [x EXCEPT !.stage = g] \in Slot
  /\ \A x \in Slot : [x EXCEPT !.stage = "ORPHAN", !.initial = FALSE] \in Slot
  /\ \A x \in Slot, S \in SUBSET Tables :
       [x EXCEPT !.stage = "CHECKSUM", !.left = S] \in Slot
  /\ \A x \in Slot, c \in Schemas, g \in {"TABLES", "COMPARING"} :
       [x EXCEPT !.stage = g, !.checksum = c] \in Slot
  /\ \A x \in Slot, S \in SUBSET Tables, r \in Reports :
       [x EXCEPT !.left = S, !.report = r] \in Slot
BY ReportTypes DEF Idle, Slot, Checksums

(* The initial state is well typed. *)
LEMMA InitType == Init => TypeOK
<1> SUFFICES ASSUME Init PROVE TypeOK
  OBVIOUS
<1>1. Idle \in Slot /\ [tb \in {} |-> Absent] \in Reports
  BY SlotTypes, ReportTypes
<1>2. slot \in [Slots -> Slot]
  BY <1>1 DEF Init
<1>3. changes \in 0..MaxDdl /\ failures \in 0..MaxFaults
  BY DiscoveryAssumption DEF Init
<1> QED
  BY <1>1, <1>2, <1>3 DEF Init, TypeOK, Checksums

(* A fault is counted and the count stays below its bound. *)
LEMMA FaultType ==
  ASSUME TypeOK, NEW kind, Fault(kind)
  PROVE  failures' \in 0..MaxFaults
BY DiscoveryAssumption DEF TypeOK, Fault

(* What a dead process leaves is well typed. *)
LEMMA LeftType == TypeOK => LeftBehind \in [Slots -> Slot]
BY SlotTypes DEF TypeOK, LeftBehind

(* Every step of the store keeps the types. *)
LEMMA StoreType ==
  ASSUME TypeOK, NEW tb \in Tables, NEW shape \in Shapes \cup {Absent},
         AlterSchema(tb, shape)
  PROVE  TypeOK'
<1>1. schema' \in Schemas
  BY DEF TypeOK, Schemas, AlterSchema
<1>2. slot' \in [Slots -> Slot]
  <2>1. \A s \in Slots :
          [slot[s] EXCEPT !.disturbed = slot[s].disturbed \/ At(s, {"CHECKSUM", "TABLES"})]
            \in Slot
    <3> TAKE s \in Slots
    <3>1. slot[s] \in Slot
      BY DEF TypeOK
    <3>2. (slot[s].disturbed \/ At(s, {"CHECKSUM", "TABLES"})) \in BOOLEAN
      OBVIOUS
    <3> QED
      BY <3>1, <3>2, SlotTypes
  <2> QED
    BY <2>1 DEF AlterSchema
<1>3. changes' \in 0..MaxDdl
  BY DiscoveryAssumption DEF TypeOK, AlterSchema
<1> QED
  BY <1>1, <1>2, <1>3 DEF TypeOK, AlterSchema, daemonVars

(* Every step of one slot that ends in a well typed slot, and sets the other  *)
(* variables to well typed values, keeps the types.                           *)
LEMMA SlotStepType ==
  ASSUME TypeOK, NEW s \in Slots, NEW x \in Slot, slot' = [slot EXCEPT ![s] = x],
         phase' \in {"DOWN", "LISTENING", "RUNNING"},
         status' \in {"ACTIVE", "DORMANT", "SCANNING", "ERROR"},
         lastDdlChecksum' \in Checksums, dataMap' \in Reports,
         hindered' \in BOOLEAN, failures' \in 0..MaxFaults,
         UNCHANGED <<schema, changes>>
  PROVE  TypeOK'
BY DEF TypeOK

(* Every step of a scan or a drift check keeps the types. *)
LEMMA ScanStepType ==
  ASSUME TypeOK, NEW s \in Slots,
         InitialScan(s) \/ TriggerScan(s) \/ ScanStep(s) \/ DriftTimer(s) \/ DriftStep(s)
  PROVE  TypeOK'
<1> USE DEF TypeOK
<1>1. slot[s] \in Slot /\ slot[s].left \in SUBSET Tables /\ slot[s].report \in Reports
      /\ slot[s].checksum \in Checksums /\ slot[s].disturbed \in BOOLEAN
  BY DEF Slot
<1>2. TableList \in SUBSET Tables /\ schema \in Schemas
  BY DEF TableList
<1>3. CASE InitialScan(s) \/ TriggerScan(s)
  BY <1>3, SlotTypes, SlotStepType DEF InitialScan, TriggerScan, BeginScan
<1>4. CASE GetTableList(s)
  BY <1>1, <1>2, <1>4, SlotTypes, SlotStepType DEF GetTableList, daemonVars
<1>5. CASE GetDdlChecksum(s)
  BY <1>1, <1>2, <1>5, SlotTypes, SlotStepType DEF GetDdlChecksum, daemonVars
<1>6. ASSUME NEW tb \in Tables, GetTableSchema(s, tb)
      PROVE  TypeOK'
  <2>1. ReportWith(slot[s].report, tb) \in Reports /\ slot[s].left \ {tb} \in SUBSET Tables
    BY <1>1, <1>2, ReportTypes
  <2>2. [slot[s] EXCEPT !.left = slot[s].left \ {tb},
                        !.report = ReportWith(slot[s].report, tb)] \in Slot
    BY <1>1, <2>1, SlotTypes
  <2> QED
    BY <1>6, <2>2, SlotStepType DEF GetTableSchema, daemonVars
<1>7. CASE ScanDone(s)
  BY <1>1, <1>7, SlotTypes, SlotStepType DEF ScanDone
<1>8. CASE DriftTimer(s)
  BY <1>1, <1>8, SlotTypes, SlotStepType DEF DriftTimer, daemonVars
<1>9. CASE DriftChecksum(s)
  BY <1>1, <1>2, <1>9, SlotTypes, SlotStepType DEF DriftChecksum, daemonVars
<1>10. CASE CheckDdlDrift(s)
  BY <1>1, <1>10, SlotTypes, SlotStepType
     DEF CheckDdlDrift, BeginScan, StatusWithoutDrift
<1> QED
  BY <1>3, <1>4, <1>5, <1>6, <1>7, <1>8, <1>9, <1>10 DEF ScanStep, DriftStep

(* Failures and the end of a post keep the types. *)
LEMMA EndStepType ==
  ASSUME TypeOK, NEW s \in Slots,
         \/ ScanFails(s) \/ DriftCheckFails(s) \/ IngestDiscoveryReport(s)
         \/ LoseReport(s) \/ \E S \in SUBSET Tables : IngestInterrupted(s, S)
  PROVE  TypeOK'
<1> USE DEF TypeOK
<1>1. slot[s] \in Slot /\ slot[s].report \in Reports
  BY DEF Slot
<1>2. CASE ScanFails(s)
  <2>1. failures' \in 0..MaxFaults
    BY <1>2, FaultType DEF ScanFails
  <2>2. slot' \in [Slots -> Slot]
    BY <1>2, SlotTypes, LeftType DEF ScanFails
  <2> QED
    BY <1>2, <2>1, <2>2 DEF ScanFails, StatusAfterFailure
<1>3. CASE DriftCheckFails(s)
  BY <1>3, FaultType, SlotTypes, SlotStepType DEF DriftCheckFails, daemonVars
<1>4. \A S \in SUBSET DOMAIN slot[s].report : MapUpserted(S, slot[s].report) \in Reports
  BY <1>1, ReportTypes
<1>5. CASE IngestDiscoveryReport(s)
  BY <1>4, <1>5, SlotTypes, SlotStepType
     DEF IngestDiscoveryReport, PostOver, UpToDate
<1>6. CASE LoseReport(s)
  BY <1>6, FaultType, SlotTypes, SlotStepType DEF LoseReport, PostOver
<1>7. ASSUME NEW S \in SUBSET Tables, IngestInterrupted(s, S)
      PROVE  TypeOK'
  BY <1>4, <1>7, FaultType, SlotTypes, SlotStepType DEF IngestInterrupted, PostOver
<1> QED
  BY <1>2, <1>3, <1>5, <1>6, <1>7

(* The death and the restart of the process keep the types. *)
LEMMA ProcessType ==
  ASSUME TypeOK, AgentStart \/ AgentCrash
  PROVE  TypeOK'
<1>1. CASE AgentStart
  BY <1>1 DEF TypeOK, AgentStart, Checksums
<1>2. CASE AgentCrash
  BY <1>2, FaultType, LeftType DEF TypeOK, AgentCrash
<1> QED
  BY <1>1, <1>2

(* Every step keeps the types. *)
LEMMA NextType == TypeOK /\ [Next]_vars => TypeOK'
<1> SUFFICES ASSUME TypeOK, [Next]_vars PROVE TypeOK'
  OBVIOUS
<1>1. CASE UNCHANGED vars
  BY <1>1 DEF TypeOK, vars
<1>2. CASE Next
  BY <1>2, StoreType, ScanStepType, EndStepType, ProcessType DEF Next
<1> QED
  BY <1>1, <1>2

(* The store, the daemon, its scans and the map hold what they are meant to. *)
THEOREM TypeCorrect == Spec => []TypeOK
<1>1. Init => TypeOK
  BY InitType
<1>2. TypeOK /\ [Next]_vars => TypeOK'
  BY NextType
<1> QED
  BY <1>1, <1>2, PTL DEF Spec

-----------------------------------------------------------------------------
(* The inductive invariant.                                                *)

(* At the start nothing scans and nothing is known. *)
LEMMA InitInv == Init => IInv
<1> SUFFICES ASSUME Init PROVE IInv
  OBVIOUS
<1>1. TypeOK
  BY InitType
<1>2. \A s \in Slots : slot[s] = Idle
  BY DEF Init
<1>3. \A s \in Slots : slot[s].stage = "IDLE" /\ slot[s].initial = FALSE
  BY <1>2 DEF Idle
<1>4. Alive /\ OneInitial /\ \A s \in Slots : ScanKnows(s)
  BY <1>3 DEF Alive, OneInitial, ScanKnows, At, Posting
<1>5. ScanningIsTrue /\ MapFollowsChecksum
  BY DEF Init, ScanningIsTrue, MapFollowsChecksum
<1> QED
  BY <1>1, <1>4, <1>5 DEF IInv

(* A step of one slot s that leaves the store alone and the process alive     *)
(* needs to be looked at only in s.                                           *)
LEMMA OneSlot ==
  ASSUME IInv, NEW s \in Slots, NEW x \in Slot, slot' = [slot EXCEPT ![s] = x],
         UNCHANGED schema, phase' = "DOWN" => phase = "DOWN"
  PROVE  /\ slot[s] \in Slot
         /\ slot'[s] = x
         /\ \A r \in Slots \ {s} :
              /\ slot'[r] = slot[r]
              /\ ScanKnows(r)'
              /\ phase = "DOWN" => At(r, {"IDLE", "ORPHAN"})'
              /\ slot'[r].initial => phase = "LISTENING"
              /\ At(r, {"LISTING"})' => DOMAIN slot'[r].report = {}
         /\ (x.initial => slot[s].initial) => OneInitial'
<1>1. slot \in [Slots -> Slot]
  BY DEF IInv, TypeOK
<1>2. \A r \in Slots \ {s} : slot'[r] = slot[r]
  BY <1>1
<1>3. \A r \in Slots \ {s} : ScanKnows(r)'
  BY <1>2 DEF IInv, ScanKnows, At, TableList
<1>4. \A r \in Slots \ {s} : /\ phase = "DOWN" => At(r, {"IDLE", "ORPHAN"})'
                             /\ slot'[r].initial => phase = "LISTENING"
                             /\ At(r, {"LISTING"})' => DOMAIN slot'[r].report = {}
  BY <1>2 DEF IInv, Alive, At
<1>5. (x.initial => slot[s].initial) => OneInitial'
  BY <1>1, <1>2 DEF IInv, OneInitial
<1> QED
  BY <1>1, <1>2, <1>3, <1>4, <1>5

(* The queries of a scan and of a drift check keep the invariant. *)
LEMMA QueryInv ==
  ASSUME IInv, TypeOK', NEW s \in Slots, NEW x \in Slot,
         slot' = [slot EXCEPT ![s] = x], ~At(s, Posting),
         x.initial => slot[s].initial,
         x.stage \in Scanning \cup {"CHECKING", "COMPARING"},
         At(s, Scanning) => x.stage \in Scanning,
         phase # "DOWN",
         x.stage # "LISTING", ScanKnows(s)',
         UNCHANGED <<schema, daemonVars, dataMap, hindered>>
  PROVE  IInv'
<1>1. Alive'
  BY OneSlot DEF IInv, Alive, daemonVars, At
<1>2. \A r \in Slots : ScanKnows(r)'
  BY OneSlot DEF daemonVars
<1>3. ScanningIsTrue'
  BY OneSlot DEF IInv, ScanningIsTrue, At, daemonVars
<1>4. MapFollowsChecksum'
  BY OneSlot DEF IInv, MapFollowsChecksum, UpToDate, At, daemonVars
<1>5. OneInitial'
  BY OneSlot DEF daemonVars
<1> QED
  BY <1>1, <1>2, <1>3, <1>4, <1>5 DEF IInv

(* The queries of a scan. *)
LEMMA ScanQueries ==
  ASSUME IInv, TypeOK', NEW s \in Slots,
         GetTableList(s) \/ GetDdlChecksum(s) \/ \E tb \in Tables : GetTableSchema(s, tb)
  PROVE  IInv'
<1>1. /\ slot[s] \in Slot /\ slot[s].left \in SUBSET Tables /\ slot[s].report \in Reports
      /\ slot \in [Slots -> Slot] /\ schema \in Schemas /\ TableList \in SUBSET Tables
      /\ slot'[s] \in Slot
  BY DEF IInv, TypeOK, Slot, TableList
<1>2. At(s, Scanning) /\ ~At(s, Posting) /\ phase # "DOWN"
  BY DEF IInv, Alive, At, Scanning, Posting, GetTableList, GetDdlChecksum, GetTableSchema
<1>3. CASE GetTableList(s)
  <2> DEFINE x == [slot[s] EXCEPT !.stage = "CHECKSUM", !.left = TableList]
  <2>1. slot' = [slot EXCEPT ![s] = x] /\ UNCHANGED <<schema, daemonVars, dataMap, hindered>>
    BY <1>1, <1>3 DEF GetTableList
  <2>2. x \in Slot /\ x.stage = "CHECKSUM" /\ x.initial = slot[s].initial
        /\ x.left = TableList /\ DOMAIN x.report = {}
    <3>1. DOMAIN slot[s].report = {}
      BY <1>3 DEF GetTableList, IInv, Alive
    <3>2. x \in Slot
      BY <1>1, SlotTypes
    <3> QED
      BY <1>1, <3>1, <3>2 DEF Slot
  <2>3. slot'[s] = x
    BY <1>1, <2>1
  <2> HIDE DEF x
  <2>4. ScanKnows(s)'
    BY <2>1, <2>2, <2>3 DEF ScanKnows, At, Posting, TableList
  <2> QED
    <3>1. x.stage \in Scanning /\ x.stage # "LISTING"
      BY <2>2 DEF Scanning
    <3> QED
      BY <1>2, <2>1, <2>2, <2>4, <3>1, QueryInv
<1>4. CASE GetDdlChecksum(s)
  <2> DEFINE x == [slot[s] EXCEPT !.stage = "TABLES", !.checksum = schema]
  <2>1. slot' = [slot EXCEPT ![s] = x] /\ UNCHANGED <<schema, daemonVars, dataMap, hindered>>
    BY <1>1, <1>4 DEF GetDdlChecksum
  <2>2. x \in Slot /\ x.stage = "TABLES" /\ x.initial = slot[s].initial
        /\ x.checksum = schema /\ x.disturbed = slot[s].disturbed
        /\ x.left = slot[s].left /\ x.report = slot[s].report
    <3>1. x \in Slot
      BY <1>1, SlotTypes
    <3> QED
      BY <1>1, <3>1 DEF Slot
  <2>3. slot'[s] = x
    BY <1>1, <2>1
  <2> HIDE DEF x
  <2>4. ScanKnows(s)'
    <3>1. ~x.disturbed => x.left = TableList /\ DOMAIN x.report = {}
      BY <1>4, <2>2 DEF GetDdlChecksum, IInv, ScanKnows, At
    <3> QED
      BY <2>1, <2>2, <2>3, <3>1 DEF ScanKnows, At, Posting, TableList
  <2> QED
    <3>1. x.stage \in Scanning /\ x.stage # "LISTING"
      BY <2>2 DEF Scanning
    <3> QED
      BY <1>2, <2>1, <2>2, <2>4, <3>1, QueryInv
<1>5. ASSUME NEW tb \in Tables, GetTableSchema(s, tb)
      PROVE  IInv'
  <2> DEFINE x == [slot[s] EXCEPT !.left = slot[s].left \ {tb},
                                  !.report = ReportWith(slot[s].report, tb)]
  <2>1. slot' = [slot EXCEPT ![s] = x] /\ UNCHANGED <<schema, daemonVars, dataMap, hindered>>
    BY <1>1, <1>5 DEF GetTableSchema
  <2>2. x \in Slot /\ x.stage = "TABLES" /\ x.initial = slot[s].initial
        /\ x.checksum = slot[s].checksum /\ x.disturbed = slot[s].disturbed
        /\ x.left = slot[s].left \ {tb} /\ x.report = ReportWith(slot[s].report, tb)
    <3>1. ReportWith(slot[s].report, tb) \in Reports /\ slot[s].left \ {tb} \in SUBSET Tables
      BY <1>1, ReportTypes
    <3>2. x \in Slot
      BY <1>1, <3>1, SlotTypes
    <3> QED
      BY <1>1, <1>5, <3>2 DEF Slot, GetTableSchema, At
  <2>3. slot'[s] = x
    BY <1>1, <2>1
  <2> HIDE DEF x
  <2>4. ScanKnows(s)'
    <3>1. ~x.disturbed =>
            /\ slot[s].checksum = schema
            /\ TableList \subseteq slot[s].left \cup DOMAIN slot[s].report
            /\ \A t \in DOMAIN slot[s].report : slot[s].report[t] = schema[t]
      BY <1>5, <2>2 DEF GetTableSchema, IInv, ScanKnows, At
    <3>2. ~x.disturbed =>
            /\ x.checksum = schema
            /\ TableList \subseteq x.left \cup DOMAIN x.report
            /\ \A t \in DOMAIN x.report : x.report[t] = schema[t]
      BY <2>2, <3>1 DEF ReportWith
    <3> QED
      BY <2>1, <2>2, <2>3, <3>2 DEF ScanKnows, At, Posting, TableList
  <2> QED
    <3>1. x.stage \in Scanning /\ x.stage # "LISTING"
      BY <2>2 DEF Scanning
    <3> QED
      BY <1>2, <2>1, <2>2, <2>4, <3>1, QueryInv
<1> QED
  BY <1>3, <1>4, <1>5

(* The queries of a drift check. *)
LEMMA DriftQueries ==
  ASSUME IInv, TypeOK', NEW s \in Slots, DriftTimer(s) \/ DriftChecksum(s)
  PROVE  IInv'
<1>1. slot[s] \in Slot /\ slot \in [Slots -> Slot] /\ schema \in Schemas
  BY DEF IInv, TypeOK
<1>2. At(s, {"IDLE", "CHECKING"}) /\ phase # "DOWN"
  BY DEF IInv, Alive, At, DriftTimer, DriftChecksum
<1>3. ~At(s, Posting) /\ ~At(s, Scanning)
  BY <1>2 DEF At, Posting, Scanning
<1>4. CASE DriftTimer(s)
  <2> DEFINE x == [slot[s] EXCEPT !.stage = "CHECKING"]
  <2>1. slot' = [slot EXCEPT ![s] = x] /\ UNCHANGED <<schema, daemonVars, dataMap, hindered>>
    BY <1>1, <1>4 DEF DriftTimer
  <2>2. x \in Slot /\ x.stage = "CHECKING" /\ x.initial = slot[s].initial
    <3>1. x \in Slot
      BY <1>1, SlotTypes
    <3> QED
      BY <1>1, <3>1 DEF Slot
  <2>3. slot'[s] = x
    BY <1>1, <2>1
  <2> HIDE DEF x
  <2>4. ScanKnows(s)'
    BY <2>2, <2>3 DEF ScanKnows, At, Posting
  <2> QED
    <3>1. x.stage \in {"CHECKING", "COMPARING"} /\ x.stage # "LISTING"
      BY <2>2
    <3> QED
      BY <1>2, <1>3, <2>1, <2>2, <2>4, <3>1, QueryInv
<1>5. CASE DriftChecksum(s)
  <2> DEFINE x == [slot[s] EXCEPT !.stage = "COMPARING", !.checksum = schema]
  <2>1. slot' = [slot EXCEPT ![s] = x] /\ UNCHANGED <<schema, daemonVars, dataMap, hindered>>
    BY <1>1, <1>5 DEF DriftChecksum
  <2>2. x \in Slot /\ x.stage = "COMPARING" /\ x.initial = slot[s].initial
    <3>1. x \in Slot
      BY <1>1, SlotTypes
    <3> QED
      BY <1>1, <3>1 DEF Slot
  <2>3. slot'[s] = x
    BY <1>1, <2>1
  <2> HIDE DEF x
  <2>4. ScanKnows(s)'
    BY <2>2, <2>3 DEF ScanKnows, At, Posting
  <2> QED
    <3>1. x.stage \in {"CHECKING", "COMPARING"} /\ x.stage # "LISTING"
      BY <2>2
    <3> QED
      BY <1>2, <1>3, <2>1, <2>2, <2>4, <3>1, QueryInv
<1> QED
  BY <1>4, <1>5

(* A scan begins. *)
LEMMA BeginInv ==
  ASSUME IInv, TypeOK', NEW s \in Slots, NEW b \in BOOLEAN, BeginScan(s, b),
         b => phase = "LISTENING" /\ \A r \in Slots : ~slot[r].initial,
         ~At(s, Posting), phase # "DOWN",
         UNCHANGED <<schema, phase, lastDdlChecksum, dataMap, hindered>>
  PROVE  IInv'
<1> DEFINE x == [Idle EXCEPT !.stage = "LISTING", !.initial = b]
<1>1. slot' = [slot EXCEPT ![s] = x] /\ status' = "SCANNING"
  BY DEF BeginScan
<1>2. x \in Slot /\ x.stage = "LISTING" /\ x.initial = b /\ DOMAIN x.report = {}
  BY SlotTypes DEF Idle
<1>3. slot'[s] = x
  BY <1>1 DEF IInv, TypeOK
<1> HIDE DEF x
<1>4. Alive'
  BY <1>1, <1>2, <1>3, OneSlot DEF Alive, At
<1>5. \A r \in Slots : ScanKnows(r)'
  <2>1. ScanKnows(s)'
    BY <1>2, <1>3 DEF ScanKnows, At, Posting
  <2> QED
    BY <1>1, <1>2, <2>1, OneSlot
<1>6. ScanningIsTrue'
  BY <1>2, <1>3 DEF ScanningIsTrue, At, Scanning
<1>7. MapFollowsChecksum'
  BY <1>1, <1>2, OneSlot DEF IInv, MapFollowsChecksum, UpToDate, At
<1>8. OneInitial'
  BY <1>1, <1>2, <1>3, OneSlot DEF OneInitial
<1> QED
  BY <1>4, <1>5, <1>6, <1>7, <1>8 DEF IInv

(* The schema changes: scans in the middle of their queries are disturbed. *)
LEMMA AlterInv ==
  ASSUME IInv, TypeOK', NEW tb \in Tables, NEW shape \in Shapes \cup {Absent},
         AlterSchema(tb, shape)
  PROVE  IInv'
<1>1. \A s \in Slots :
        slot'[s] = [slot[s] EXCEPT !.disturbed =
                      slot[s].disturbed \/ At(s, {"CHECKSUM", "TABLES"})]
  BY DEF AlterSchema
<1>2. \A s \in Slots :
        /\ slot'[s].stage = slot[s].stage /\ slot'[s].initial = slot[s].initial
        /\ slot'[s].checksum = slot[s].checksum /\ slot'[s].report = slot[s].report
        /\ slot'[s].disturbed = (slot[s].disturbed \/ At(s, {"CHECKSUM", "TABLES"}))
  <2> TAKE s \in Slots
  <2>1. slot[s] \in Slot
    BY DEF IInv, TypeOK
  <2> QED
    BY <1>1, <2>1 DEF Slot
<1>3. UNCHANGED <<phase, status, lastDdlChecksum, dataMap, hindered>>
  BY DEF AlterSchema, daemonVars
<1>4. Alive' /\ OneInitial'
  BY <1>2, <1>3 DEF IInv, Alive, OneInitial, At
<1>5. \A s \in Slots : ScanKnows(s)'
  <2> TAKE s \in Slots
  <2>1. CASE At(s, {"CHECKSUM", "TABLES"})
    BY <1>2, <2>1 DEF ScanKnows
  <2>2. CASE ~At(s, {"CHECKSUM", "TABLES"})
    <3>1. ~At(s, {"CHECKSUM"})' /\ ~At(s, {"TABLES"})'
      BY <1>2, <2>2 DEF At
    <3>2. At(s, Posting)' => At(s, Posting)
      BY <1>2 DEF At, Posting
    <3>3. ~slot'[s].disturbed => ~slot[s].disturbed
      BY <1>2
    <3> QED
      BY <1>2, <3>1, <3>2, <3>3 DEF IInv, ScanKnows
  <2> QED
    BY <2>1, <2>2
<1>6. ScanningIsTrue'
  BY <1>2, <1>3 DEF IInv, ScanningIsTrue, At
<1>7. MapFollowsChecksum'
  <2>1. \A s \in Slots : At(s, Posting) => ~At(s, {"CHECKSUM", "TABLES"})
    BY DEF At, Posting
  <2>2. ASSUME NEW s \in Slots, At(s, Posting), UpToDate(s)
        PROVE  At(s, Posting)' /\ UpToDate(s)'
    BY <1>2, <1>3, <2>1, <2>2 DEF At, UpToDate
  <2> QED
    BY <1>3, <2>2 DEF IInv, MapFollowsChecksum
<1> QED
  BY <1>4, <1>5, <1>6, <1>7 DEF IInv

(* A scan ends: if nobody disturbed it, its report agrees with its checksum. *)
LEMMA ScanDoneInv ==
  ASSUME IInv, TypeOK', NEW s \in Slots, ScanDone(s)
  PROVE  IInv'
<1> DEFINE x == [slot[s] EXCEPT !.stage = "SUBMIT"]
<1>1. slot' = [slot EXCEPT ![s] = x] /\ status' = "DORMANT"
      /\ lastDdlChecksum' = slot[s].checksum /\ hindered' = slot[s].disturbed
      /\ UNCHANGED <<schema, phase, dataMap>>
  BY DEF ScanDone
<1>2. x \in Slot /\ x.stage = "SUBMIT" /\ x.initial = slot[s].initial
      /\ x.checksum = slot[s].checksum /\ x.report = slot[s].report
      /\ x.disturbed = slot[s].disturbed
  <2>1. slot[s] \in Slot
    BY DEF IInv, TypeOK
  <2>2. x \in Slot
    BY <2>1, SlotTypes
  <2> QED
    BY <2>1, <2>2 DEF Slot
<1>3. slot'[s] = x
  BY <1>1 DEF IInv, TypeOK
<1> HIDE DEF x
<1>4. phase # "DOWN"
  BY DEF ScanDone, IInv, Alive, At
<1>5. Alive' /\ OneInitial'
  <2>1. Alive'
    BY <1>1, <1>2, <1>3, <1>4, OneSlot DEF IInv, Alive, At
  <2>2. OneInitial'
    BY <1>1, <1>2, OneSlot
  <2> QED
    BY <2>1, <2>2
<1>6. \A r \in Slots : ScanKnows(r)'
  <2>1. ~slot[s].disturbed =>
          \A tb \in Tables : slot[s].checksum[tb] # Absent =>
            tb \in DOMAIN slot[s].report /\ slot[s].report[tb] = slot[s].checksum[tb]
    BY DEF ScanDone, IInv, ScanKnows, At, TableList
  <2>2. ScanKnows(s)'
    BY <1>2, <1>3, <2>1 DEF ScanKnows, At
  <2> QED
    BY <1>1, <1>2, <2>2, OneSlot
<1>7. ScanningIsTrue' /\ MapFollowsChecksum'
  BY <1>1, <1>2, <1>3 DEF ScanningIsTrue, MapFollowsChecksum, At, Posting, UpToDate
<1> QED
  BY <1>5, <1>6, <1>7 DEF IInv

(* The comparison of a drift check begins a scan or puts the daemon to sleep. *)
LEMMA CompareInv ==
  ASSUME IInv, TypeOK', NEW s \in Slots, CheckDdlDrift(s)
  PROVE  IInv'
<1>1. ~At(s, Posting) /\ ~At(s, Scanning) /\ phase # "DOWN"
      /\ UNCHANGED <<schema, phase, lastDdlChecksum, dataMap, hindered>>
  BY DEF CheckDdlDrift, At, Posting, Scanning, IInv, Alive
<1>2. CASE Drifted(s)
  BY <1>1, <1>2, BeginInv DEF CheckDdlDrift
<1>3. CASE ~Drifted(s)
  <2>1. slot' = [slot EXCEPT ![s] = Idle] /\ status' = "DORMANT" /\ Idle \in Slot
    BY <1>3, SlotTypes DEF CheckDdlDrift, StatusWithoutDrift
  <2>2. slot'[s] = Idle
    BY <2>1 DEF IInv, TypeOK
  <2>3. Alive' /\ OneInitial' /\ \A r \in Slots : ScanKnows(r)'
    <3>1. slot'[s].stage = "IDLE" /\ slot'[s].initial = FALSE
      BY <2>2 DEF Idle
    <3>2. Alive'
      BY <1>1, <2>1, <3>1, OneSlot DEF Alive, At
    <3>3. ScanKnows(s)'
      BY <3>1 DEF ScanKnows, At, Posting
    <3>4. OneInitial'
      BY <1>1, <2>1, OneSlot DEF Idle
    <3> QED
      BY <1>1, <2>1, <3>2, <3>3, <3>4, OneSlot
  <2>4. ScanningIsTrue'
    BY <2>1 DEF ScanningIsTrue
  <2>5. MapFollowsChecksum'
    BY <1>1, <2>1, OneSlot DEF IInv, MapFollowsChecksum, UpToDate, At
  <2> QED
    BY <2>3, <2>4, <2>5 DEF IInv
<1> QED
  BY <1>2, <1>3

(* A slot becomes idle whose scan or post is over. *)
LEMMA IdleInv ==
  ASSUME IInv, TypeOK', NEW s \in Slots, slot' = [slot EXCEPT ![s] = Idle],
         phase' = "DOWN" => phase = "DOWN",
         \A r \in Slots \ {s} : slot[r].initial => phase' = "LISTENING",
         phase' # "DOWN" /\ status' = "SCANNING" =>
           phase # "DOWN" /\ status = "SCANNING" /\ ~At(s, Scanning),
         MapFollowsChecksum', UNCHANGED schema
  PROVE  IInv'
<1>1. Idle \in Slot
  BY SlotTypes
<1>2. slot'[s] = Idle
  BY DEF IInv, TypeOK
<1>3. slot'[s].stage = "IDLE" /\ slot'[s].initial = FALSE
  BY <1>2 DEF Idle
<1>4. Alive'
  BY <1>1, <1>3, OneSlot DEF Alive, At
<1>5. \A r \in Slots : ScanKnows(r)'
  <2>1. ScanKnows(s)'
    BY <1>3 DEF ScanKnows, At, Posting
  <2> QED
    BY <1>1, <2>1, OneSlot
<1>6. ScanningIsTrue'
  BY <1>1, OneSlot DEF IInv, ScanningIsTrue, At
<1>7. OneInitial'
  BY <1>1, OneSlot DEF Idle
<1> QED
  BY <1>4, <1>5, <1>6, <1>7 DEF IInv

(* What a dead process leaves satisfies the invariant. *)
LEMMA LeftInv ==
  ASSUME IInv, TypeOK', slot' = LeftBehind, phase' = "DOWN",
         UNCHANGED <<schema, lastDdlChecksum, dataMap, hindered>>
  PROVE  IInv'
<1>1. ASSUME NEW s \in Slots
      PROVE  /\ slot'[s].stage = IF At(s, Posting) THEN "ORPHAN" ELSE "IDLE"
             /\ slot'[s].initial = FALSE
             /\ At(s, Posting) => /\ slot'[s].checksum = slot[s].checksum
                                  /\ slot'[s].report = slot[s].report
                                  /\ slot'[s].disturbed = slot[s].disturbed
  <2>1. slot[s] \in Slot
    BY DEF IInv, TypeOK
  <2>2. slot'[s] = IF At(s, Posting)
                   THEN [slot[s] EXCEPT !.stage = "ORPHAN", !.initial = FALSE]
                   ELSE Idle
    BY DEF LeftBehind
  <2>3. CASE At(s, Posting)
    <3>1. slot'[s] = [slot[s] EXCEPT !.stage = "ORPHAN", !.initial = FALSE]
      BY <2>2, <2>3
    <3> QED
      BY <2>1, <2>3, <3>1 DEF Slot
  <2>4. CASE ~At(s, Posting)
    <3>1. slot'[s] = Idle
      BY <2>2, <2>4
    <3>2. Idle.stage = "IDLE" /\ Idle.initial = FALSE
      BY DEF Idle
    <3> QED
      BY <2>4, <3>1, <3>2
  <2> QED
    BY <2>3, <2>4
<1>2. Alive' /\ OneInitial'
  BY <1>1 DEF Alive, OneInitial, At
<1>3. \A s \in Slots : ScanKnows(s)'
  <2> TAKE s \in Slots
  <2>1. At(s, Posting)' => At(s, Posting)
    BY <1>1 DEF At, Posting
  <2>2. ~At(s, {"CHECKSUM"})' /\ ~At(s, {"TABLES"})'
    BY <1>1 DEF At
  <2> QED
    BY <1>1, <2>1, <2>2 DEF IInv, ScanKnows
<1>4. ScanningIsTrue'
  BY DEF ScanningIsTrue
<1>5. MapFollowsChecksum'
  <2>1. ASSUME NEW s \in Slots, At(s, Posting), UpToDate(s)
        PROVE  At(s, Posting)' /\ UpToDate(s)'
    BY <1>1, <2>1 DEF At, Posting, UpToDate
  <2> QED
    BY <2>1 DEF IInv, MapFollowsChecksum
<1> QED
  BY <1>2, <1>3, <1>4, <1>5 DEF IInv

(* A report that is up to date makes the map agree with the last checksum. *)
LEMMA IngestMap ==
  ASSUME IInv, NEW s \in Slots, IngestDiscoveryReport(s)
  PROVE  MapFollowsChecksum'
<1>1. CASE ~UpToDate(s)
  BY <1>1 DEF IngestDiscoveryReport, MapFollowsChecksum
<1>2. CASE UpToDate(s)
  <2>1. \A tb \in Tables : slot[s].checksum[tb] # Absent =>
          tb \in DOMAIN slot[s].report /\ slot[s].report[tb] = slot[s].checksum[tb]
    BY <1>2 DEF IngestDiscoveryReport, IInv, ScanKnows, UpToDate
  <2>2. \A tb \in DOMAIN slot[s].report :
          tb \in DOMAIN dataMap' /\ dataMap'[tb] = slot[s].report[tb]
    BY DEF IngestDiscoveryReport, MapUpserted
  <2>3. lastDdlChecksum' = slot[s].checksum
    BY <1>2 DEF UpToDate, IngestDiscoveryReport
  <2> QED
    BY <2>1, <2>2, <2>3 DEF MapFollowsChecksum
<1> QED
  BY <1>1, <1>2

(* The end of a post, whether the report arrived or not. *)
LEMMA PostInv ==
  ASSUME IInv, TypeOK', NEW s \in Slots,
         \/ IngestDiscoveryReport(s) \/ LoseReport(s)
         \/ \E S \in SUBSET Tables : IngestInterrupted(s, S)
  PROVE  IInv'
<1>1. /\ At(s, Posting) /\ PostOver(s) /\ status' = status /\ schema' = schema
      /\ slot' = [slot EXCEPT ![s] = Idle]
  BY DEF IngestDiscoveryReport, LoseReport, IngestInterrupted, PostOver
<1>2. MapFollowsChecksum'
  BY IngestMap DEF LoseReport, IngestInterrupted, MapFollowsChecksum
<1>3. /\ phase' = "DOWN" => phase = "DOWN"
      /\ phase' # "DOWN" => phase # "DOWN"
      /\ ~At(s, Scanning)
  BY <1>1 DEF PostOver, IInv, Alive, At, Posting, Scanning
<1>4. \A r \in Slots \ {s} : slot[r].initial => phase' = "LISTENING"
  <2>1. slot[s].initial => \A r \in Slots \ {s} : ~slot[r].initial
    BY DEF IInv, OneInitial
  <2> QED
    BY <1>1, <2>1 DEF PostOver, IInv, Alive
<1> QED
  BY <1>1, <1>2, <1>3, <1>4, IdleInv

(* A scan that is asked for. *)
LEMMA AskedInv ==
  ASSUME IInv, TypeOK', NEW s \in Slots, InitialScan(s) \/ TriggerScan(s)
  PROVE  IInv'
<1>1. ~At(s, Posting) /\ phase # "DOWN"
  BY DEF InitialScan, TriggerScan, At, Posting
<1>2. CASE InitialScan(s)
  BY <1>1, <1>2, BeginInv DEF InitialScan
<1>3. CASE TriggerScan(s)
  BY <1>1, <1>3, BeginInv DEF TriggerScan
<1> QED
  BY <1>2, <1>3

(* A query throws, in a scan or in a drift check. *)
LEMMA FailureInv ==
  ASSUME IInv, TypeOK', NEW s \in Slots, ScanFails(s) \/ DriftCheckFails(s)
  PROVE  IInv'
<1>1. ~At(s, Posting)
  BY DEF ScanFails, DriftCheckFails, At, Scanning, Posting
<1>2. slot' = [slot EXCEPT ![s] = Idle] /\ UNCHANGED <<lastDdlChecksum, dataMap, hindered>>
        => MapFollowsChecksum'
  <2> SUFFICES ASSUME slot' = [slot EXCEPT ![s] = Idle],
                      UNCHANGED <<lastDdlChecksum, dataMap, hindered>>
               PROVE  MapFollowsChecksum'
    OBVIOUS
  <2>1. \A r \in Slots \ {s} : slot'[r] = slot[r]
    BY DEF IInv, TypeOK
  <2> QED
    BY <1>1, <2>1 DEF IInv, MapFollowsChecksum, UpToDate, At
<1>3. CASE ScanFails(s)
  <2>1. UNCHANGED <<schema, lastDdlChecksum, dataMap, hindered>> /\ status' = "ERROR"
    BY <1>3 DEF ScanFails, StatusAfterFailure
  <2>2. CASE slot[s].initial
    BY <1>3, <2>1, <2>2, LeftInv DEF ScanFails
  <2>3. CASE ~slot[s].initial
    <3>1. phase' = phase /\ slot' = [slot EXCEPT ![s] = Idle]
      BY <1>3, <2>3 DEF ScanFails
    <3>2. \A r \in Slots \ {s} : slot[r].initial => phase' = "LISTENING"
      BY <3>1 DEF IInv, Alive
    <3> QED
      BY <1>2, <2>1, <3>1, <3>2, IdleInv
  <2> QED
    BY <2>2, <2>3
<1>4. CASE DriftCheckFails(s)
  <2>1. /\ UNCHANGED <<schema, phase, status, lastDdlChecksum, dataMap, hindered>>
        /\ slot' = [slot EXCEPT ![s] = Idle]
    BY <1>4 DEF DriftCheckFails, daemonVars
  <2>2. ~At(s, Scanning)
    BY <1>4 DEF DriftCheckFails, At, Scanning
  <2>3. \A r \in Slots \ {s} : slot[r].initial => phase' = "LISTENING"
    BY <2>1 DEF IInv, Alive
  <2> QED
    BY <1>2, <2>1, <2>2, <2>3, IdleInv
<1> QED
  BY <1>3, <1>4

(* The process dies or is started again. *)
LEMMA ProcessInv ==
  ASSUME IInv, TypeOK', AgentStart \/ AgentCrash
  PROVE  IInv'
<1>1. CASE AgentStart
  <2>1. UNCHANGED <<schema, slot>> /\ status' = "ACTIVE" /\ phase' = "LISTENING"
        /\ phase = "DOWN" /\ lastDdlChecksum' = NoChecksum
    BY <1>1 DEF AgentStart
  <2>2. Alive' /\ OneInitial'
    BY <2>1 DEF IInv, Alive, OneInitial, At
  <2>3. \A s \in Slots : ScanKnows(s)'
    BY <2>1 DEF IInv, ScanKnows, At, TableList
  <2>4. ScanningIsTrue' /\ MapFollowsChecksum'
    BY <2>1 DEF ScanningIsTrue, MapFollowsChecksum
  <2> QED
    BY <2>2, <2>3, <2>4 DEF IInv
<1>2. CASE AgentCrash
  BY <1>2, LeftInv DEF AgentCrash
<1> QED
  BY <1>1, <1>2

(* Every step keeps the invariant. *)
LEMMA NextInv == IInv /\ [Next]_vars => IInv'
<1> SUFFICES ASSUME IInv, [Next]_vars PROVE IInv'
  OBVIOUS
<1>1. TypeOK'
  BY NextType DEF IInv
<1>2. CASE UNCHANGED vars
  BY <1>1, <1>2
     DEF vars, IInv, Alive, OneInitial, ScanKnows, ScanningIsTrue,
         MapFollowsChecksum, UpToDate, At, TableList
<1>3. CASE AgentStart \/ AgentCrash
  BY <1>1, <1>3, ProcessInv
<1>4. ASSUME NEW tb \in Tables, NEW shape \in Shapes \cup {Absent}, AlterSchema(tb, shape)
      PROVE  IInv'
  BY <1>1, <1>4, AlterInv
<1>5. ASSUME NEW s \in Slots, InitialScan(s) \/ TriggerScan(s)
      PROVE  IInv'
  BY <1>1, <1>5, AskedInv
<1>6. ASSUME NEW s \in Slots, ScanStep(s)
      PROVE  IInv'
  BY <1>1, <1>6, ScanQueries, ScanDoneInv DEF ScanStep
<1>7. ASSUME NEW s \in Slots, DriftTimer(s) \/ DriftStep(s)
      PROVE  IInv'
  BY <1>1, <1>7, DriftQueries, CompareInv DEF DriftStep
<1>8. ASSUME NEW s \in Slots, ScanFails(s) \/ DriftCheckFails(s)
      PROVE  IInv'
  BY <1>1, <1>8, FailureInv
<1>9. ASSUME NEW s \in Slots,
             \/ IngestDiscoveryReport(s) \/ LoseReport(s)
             \/ \E S \in SUBSET Tables : IngestInterrupted(s, S)
      PROVE  IInv'
  BY <1>1, <1>9, PostInv
<1> QED
  BY <1>2, <1>3, <1>4, <1>5, <1>6, <1>7, <1>8, <1>9 DEF Next

(* The invariant holds always. *)
LEMMA Invariance == Spec => []IInv
<1>1. Init => IInv
  BY InitInv
<1>2. IInv /\ [Next]_vars => IInv'
  BY NextInv
<1> QED
  BY <1>1, <1>2, PTL DEF Spec

(* A running daemon that reports SCANNING, and so is skipped when consents    *)
(* are withdrawn, has a scan under way.                                       *)
THEOREM ScanningMeansScanning == Spec => []ScanningIsTrue
<1>1. IInv => ScanningIsTrue
  BY DEF IInv
<1> QED
  BY <1>1, Invariance, PTL

(* The data map shows the schema of the checksum the drift check trusts, or a *)
(* report that will is on its way, unless one of the causes occurred.         *)
THEOREM MapFollows == Spec => []MapFollowsChecksum
<1>1. IInv => MapFollowsChecksum
  BY DEF IInv
<1> QED
  BY <1>1, Invariance, PTL

-----------------------------------------------------------------------------
(* The checksums.  Their tables are arithmetic on digits. *)
LEMMA Digits == \A x : x \in Digit <=> x \in Nat /\ x < 10
BY DEF Digit

(* A cell of d without division. *)
Cell(a, b) ==
  IF a < 5 THEN IF b < 5 THEN IF a + b < 5 THEN a + b ELSE a + b - 5
                         ELSE IF a + b < 10 THEN a + b ELSE a + b - 5
           ELSE IF b < 5 THEN IF a - b < 5 THEN 5 + a - b ELSE a - b
                         ELSE IF a < b THEN 5 + a - b ELSE a - b

(* The table d has these cells. *)
LEMMA Table == \A a, b \in Digit : d[a][b] = Cell(a, b) /\ d[a][b] \in Digit
<1> TAKE a, b \in Digit
<1>1. d[a][b] = CASE a < 5 /\ b < 5   -> (a + b) % 5
                  [] a < 5 /\ b >= 5  -> 5 + ((a + b) % 5)
                  [] a >= 5 /\ b < 5  -> 5 + ((a - b) % 5)
                  [] a >= 5 /\ b >= 5 -> (5 + a - b) % 5
  BY DEF d
<1>2. a \in Nat /\ b \in Nat /\ a < 10 /\ b < 10
  BY Digits
<1>3. \A n \in Nat : n < 10 => n % 5 = IF n < 5 THEN n ELSE n - 5
  OBVIOUS
<1>4. CASE a < 5 /\ b < 5
  <2>1. (a + b) % 5 = IF a + b < 5 THEN a + b ELSE a + b - 5
    BY <1>2, <1>3, <1>4
  <2> QED
    BY <1>1, <1>2, <1>4, <2>1, Digits DEF Cell
<1>5. CASE a < 5 /\ b >= 5
  <2>1. (a + b) % 5 = IF a + b < 10 THEN a + b - 5 ELSE a + b - 10
    BY <1>2, <1>5
  <2> QED
    BY <1>1, <1>2, <1>5, <2>1, Digits DEF Cell
<1>6. CASE a >= 5 /\ b < 5
  <2>1. (a - b) % 5 = IF a - b < 5 THEN a - b ELSE a - b - 5
    BY <1>2, <1>3, <1>6
  <2> QED
    BY <1>1, <1>2, <1>6, <2>1, Digits DEF Cell
<1>7. CASE a >= 5 /\ b >= 5
  <2>1. (5 + a - b) % 5 = IF a < b THEN 5 + a - b ELSE a - b
    BY <1>2, <1>3, <1>7
  <2> QED
    BY <1>1, <1>2, <1>7, <2>1, Digits DEF Cell
<1> QED
  BY <1>2, <1>4, <1>5, <1>6, <1>7

(* d multiplies in a group: one may regroup, cancel and invert. *)
LEMMA Associative == \A a, b, c \in Digit : d[d[a][b]][c] = d[a][d[b][c]]
<1> TAKE a, b, c \in Digit
<1>1. \A k, l, m \in Nat : k < 10 /\ l < 10 /\ m < 10 =>
        Cell(Cell(k, l), m) = Cell(k, Cell(l, m))
  BY DEF Cell
<1>2. /\ d[a][b] = Cell(a, b) /\ d[d[a][b]][c] = Cell(d[a][b], c)
      /\ d[b][c] = Cell(b, c) /\ d[a][d[b][c]] = Cell(a, d[b][c])
  BY Table
<1> QED
  BY <1>1, <1>2, Digits

LEMMA Cancellative ==
  /\ \A a, b, c \in Digit : d[a][b] = d[a][c] => b = c
  /\ \A a, b, c \in Digit : d[b][a] = d[c][a] => b = c
<1>1. \A k, l, m \in Nat : k < 10 /\ l < 10 /\ m < 10 =>
        /\ Cell(k, l) = Cell(k, m) => l = m
        /\ Cell(l, k) = Cell(m, k) => l = m
  BY DEF Cell
<1> QED
  BY <1>1, Table, Digits

LEMMA Inverses == \A c, k \in Digit : d[k][c] = 0 <=> k = Inverted(c)
<1>1. \A k, l \in Nat : k < 10 /\ l < 10 =>
        (Cell(k, l) = 0 <=> k = IF l > 0 /\ l < 5 THEN 5 - l ELSE l)
  BY DEF Cell
<1>2. \A c \in Digit : Inverted(c) = IF c > 0 /\ c < 5 THEN 5 - c ELSE c
  BY DEF Inverted, inv, Digit
<1> QED
  BY <1>1, <1>2, Table, Digits

(* Every row of p is a permutation. *)
LEMMA Perm == \A i \in Nat, x, y \in Digit : p(i, x) \in Digit /\ (p(i, x) = p(i, y) => x = y)
<1> TAKE i \in Nat, x, y \in Digit
<1>1. PICK n \in 1..8 : n = (i % 8) + 1
  OBVIOUS
<1>2. \A k \in 1..8 : PRows[k][x + 1] \in Digit /\ (PRows[k][x + 1] = PRows[k][y + 1] => x = y)
  BY DEF PRows, Digit
<1> QED
  BY <1>1, <1>2 DEF p

(* Under neighbouring rows of p, neighbours that are swapped multiply to        *)
(* something else: for each of the eight pairs of rows, over all pairs of digits. *)
LEMMA Swapped ==
  \A i \in Nat, x, y \in Digit : x # y => d[p(i, x)][p(i + 1, y)] # d[p(i, y)][p(i + 1, x)]
<1> TAKE i \in Nat, x, y \in Digit
<1> DEFINE Weighs(k, l) ==
      x # y => Cell(PRows[k][x + 1], PRows[l][y + 1]) # Cell(PRows[k][y + 1], PRows[l][x + 1])
<1>1. Weighs(1, 2)
  BY DEF PRows, Digit, Cell
<1>2. Weighs(2, 3)
  BY DEF PRows, Digit, Cell
<1>3. Weighs(3, 4)
  BY DEF PRows, Digit, Cell
<1>4. Weighs(4, 5)
  BY DEF PRows, Digit, Cell
<1>5. Weighs(5, 6)
  BY DEF PRows, Digit, Cell
<1>6. Weighs(6, 7)
  BY DEF PRows, Digit, Cell
<1>7. Weighs(7, 8)
  BY DEF PRows, Digit, Cell
<1>8. Weighs(8, 1)
  BY DEF PRows, Digit, Cell
<1>9. \A n \in Nat : n < 8 => n = 0 \/ n = 1 \/ n = 2 \/ n = 3 \/ n = 4 \/ n = 5 \/ n = 6 \/ n = 7
  OBVIOUS
<1>10. PICK n \in Nat : n = i % 8
  OBVIOUS
<1>11. n < 8 /\ (i + 1) % 8 = IF n < 7 THEN n + 1 ELSE 0
  BY <1>10
<1> HIDE DEF Weighs
<1>12. Weighs((i % 8) + 1, ((i + 1) % 8) + 1)
  BY <1>1, <1>2, <1>3, <1>4, <1>5, <1>6, <1>7, <1>8, <1>9, <1>10, <1>11
<1> QED
  BY <1>12, Table, Perm DEF p, Weighs

(* The addition of Luhn, and the two digits it cannot tell the order of. *)
Plus(a, b) == (a + b) % 10
Zero9(x, y) == {x, y} = {0, 9}

(* Doubling keeps digits apart, and the order of neighbours with them. *)
LEMMA DoubledDigits ==
  \A i \in Nat, x, y \in Digit :
    /\ Doubled(i, x) \in Digit
    /\ Doubled(i, x) = Doubled(i, y) => x = y
    /\ x # y /\ ~Zero9(x, y) =>
         Plus(Doubled(i, x), Doubled(i + 1, y)) # Plus(Doubled(i, y), Doubled(i + 1, x))
BY DEF Doubled, Digit, Plus, Zero9

(* One may regroup and cancel in sums modulo 10 as well. *)
LEMMA Sums ==
  /\ \A a, k \in Digit : Plus(a, k) \in Digit
  /\ \A a, b, k \in Digit : /\ Plus(a, k) = Plus(b, k) => a = b
                            /\ Plus(k, a) = Plus(k, b) => a = b
  /\ \A a, k, l \in Digit : Plus(Plus(a, k), l) = Plus(a, Plus(k, l))
<1>1. \A n \in Nat : n < 20 => n % 10 = IF n < 10 THEN n ELSE n - 10
  OBVIOUS
<1>2. \A a, k \in Digit : Plus(a, k) = (IF a + k < 10 THEN a + k ELSE a + k - 10)
                          /\ Plus(a, k) \in Digit
  BY <1>1, Digits DEF Plus
<1>3. \A a, b, k \in Digit : /\ Plus(a, k) = Plus(b, k) => a = b
                             /\ Plus(k, a) = Plus(k, b) => a = b
  BY <1>2, Digits
<1>4. \A a, k, l \in Digit : Plus(Plus(a, k), l) = Plus(a, Plus(k, l))
  BY <1>2, Digits
<1> QED
  BY <1>2, <1>3, <1>4

(* What both rounds have in common: they tell sums apart, they tell digits    *)
(* apart, and two of them tell the order of neighbours.                       *)
LEMMA Rounds ==
  ASSUME scheme \in {"VERHOEFF", "LUHN"}
  PROVE  \A i \in Nat, c, e, x, y \in Digit :
           /\ Fed(c, i, x) \in Digit
           /\ Fed(c, i, x) = Fed(e, i, x) => c = e
           /\ Fed(c, i, x) = Fed(c, i, y) => x = y
           /\ x # y /\ (scheme = "LUHN" => ~Zero9(x, y)) =>
                Fed(Fed(c, i, x), i + 1, y) # Fed(Fed(c, i, y), i + 1, x)
<1> TAKE i \in Nat, c, e, x, y \in Digit
<1>1. CASE scheme = "VERHOEFF"
  <2> DEFINE px == p(i, x)  py == p(i, y)  qx == p(i + 1, x)  qy == p(i + 1, y)
  <2>1. /\ Fed(c, i, x) = d[c][px] /\ Fed(e, i, x) = d[e][px] /\ Fed(c, i, y) = d[c][py]
        /\ Fed(Fed(c, i, x), i + 1, y) = d[Fed(c, i, x)][qy]
        /\ Fed(Fed(c, i, y), i + 1, x) = d[Fed(c, i, y)][qx]
    BY <1>1 DEF Fed
  <2>2. /\ px \in Digit /\ py \in Digit /\ qx \in Digit /\ qy \in Digit
        /\ px = py => x = y
        /\ x # y => d[px][qy] # d[py][qx]
    BY Perm, Swapped
  <2> HIDE DEF px, py, qx, qy
  <2>3. /\ d[c][px] \in Digit
        /\ d[c][px] = d[e][px] => c = e
        /\ d[c][px] = d[c][py] => px = py
    BY <2>2, Table, Cancellative
  <2>4. d[d[c][px]][qy] = d[c][d[px][qy]] /\ d[d[c][py]][qx] = d[c][d[py][qx]]
    BY <2>2, Associative
  <2>5. d[px][qy] \in Digit /\ d[py][qx] \in Digit
    BY <2>2, Table
  <2>6. x # y => d[c][d[px][qy]] # d[c][d[py][qx]]
    BY <2>2, <2>5, Cancellative
  <2> QED
    BY <2>1, <2>2, <2>3, <2>4, <2>6
<1>2. CASE scheme = "LUHN"
  <2> DEFINE px == Doubled(i, x)      py == Doubled(i, y)
             qx == Doubled(i + 1, x)  qy == Doubled(i + 1, y)
  <2>1. /\ Fed(c, i, x) = Plus(c, px) /\ Fed(e, i, x) = Plus(e, px) /\ Fed(c, i, y) = Plus(c, py)
        /\ Fed(Fed(c, i, x), i + 1, y) = Plus(Fed(c, i, x), qy)
        /\ Fed(Fed(c, i, y), i + 1, x) = Plus(Fed(c, i, y), qx)
    BY <1>2 DEF Fed, Plus
  <2>2. /\ px \in Digit /\ py \in Digit /\ qx \in Digit /\ qy \in Digit
        /\ px = py => x = y
        /\ x # y /\ ~Zero9(x, y) => Plus(px, qy) # Plus(py, qx)
    BY DoubledDigits
  <2> HIDE DEF px, py, qx, qy
  <2>3. /\ Plus(c, px) \in Digit
        /\ Plus(c, px) = Plus(e, px) => c = e
        /\ Plus(c, px) = Plus(c, py) => px = py
    BY <2>2, Sums
  <2>4. /\ Plus(Plus(c, px), qy) = Plus(c, Plus(px, qy))
        /\ Plus(Plus(c, py), qx) = Plus(c, Plus(py, qx))
    BY <2>2, Sums
  <2>5. Plus(px, qy) \in Digit /\ Plus(py, qx) \in Digit
    BY <2>2, Sums
  <2>6. x # y /\ ~Zero9(x, y) => Plus(c, Plus(px, qy)) # Plus(c, Plus(py, qx))
    BY <2>2, <2>5, Sums
  <2> QED
    BY <1>2, <2>1, <2>2, <2>3, <2>4, <2>6
<1> QED
  BY <1>1, <1>2

-----------------------------------------------------------------------------
(* The three loops side by side.                                           *)

(* The values the loops work on. *)
DigitsType ==
  /\ scheme \in {"VERHOEFF", "LUHN"}
  /\ length \in Nat
  /\ sum \in Digit /\ typed \in Digit
  /\ key \in Digit /\ generated \in Digit
  /\ slip \in {"NONE", "DIGIT", "SWAP", "SWAP_09"}

(* The validation is ahead of the generation by the check digit. *)
OneKeyAhead ==
  scheme = "VERHOEFF" => sum = IF length = 0 THEN 0 ELSE d[key][generated]

(* The sums agree as long as the numbers do, and never again after a slip. *)
SlipParts ==
  /\ slip = "NONE" => typed = sum
  /\ slip # "NONE" /\ ~(scheme = "LUHN" /\ slip = "SWAP_09") => typed # sum

DigitsInv == DigitsType /\ OneKeyAhead /\ SlipParts

(* Nothing is read yet. *)
LEMMA DigitsStart == DigitsInit => DigitsInv
BY DEF DigitsInit, DigitsInv, DigitsType, OneKeyAhead, SlipParts, Digit

(* The first digit, the check digit itself, is not permuted. *)
LEMMA Neutral == \A x \in Digit : d[0][p(0, x)] = x /\ d[x][0] = x
<1>1. 0 \in Digit /\ \A x \in Digit : p(0, x) = x
  BY DEF p, PRows, Digit
<1>2. \A x \in Digit : Cell(0, x) = x /\ Cell(x, 0) = x
  BY Digits DEF Cell
<1> QED
  BY <1>1, <1>2, Table

(* The check digit and the generation once the next digit x is read. *)
KeyWith(x) == IF length = 0 THEN x ELSE key
GeneratedBefore(x) == IF length = 0 THEN 0 ELSE GeneratedWith(generated, length - 1, x)

(* A round of the validation keeps the lead over the generation. *)
LEMMA OneRound ==
  ASSUME DigitsInv, NEW x \in Digit
  PROVE  /\ KeyWith(x) \in Digit /\ GeneratedBefore(x) \in Digit
         /\ scheme = "VERHOEFF" => Fed(sum, length, x) = d[KeyWith(x)][GeneratedBefore(x)]
<1>1. length \in Nat /\ sum \in Digit /\ key \in Digit /\ generated \in Digit
  BY DEF DigitsInv, DigitsType
<1>2. CASE length = 0
  <2>1. KeyWith(x) = x /\ GeneratedBefore(x) = 0 /\ 0 \in Digit
    BY <1>2, Digits DEF KeyWith, GeneratedBefore
  <2>2. scheme = "VERHOEFF" => sum = 0
    BY <1>2 DEF DigitsInv, OneKeyAhead
  <2> QED
    BY <1>2, <2>1, <2>2, Neutral DEF Fed
<1>3. CASE length # 0
  <2>1. KeyWith(x) = key /\ GeneratedBefore(x) = d[generated][p(length, x)]
    BY <1>1, <1>3 DEF KeyWith, GeneratedBefore, GeneratedWith
  <2>2. p(length, x) \in Digit
    BY <1>1, Perm
  <2>3. scheme = "VERHOEFF" => sum = d[key][generated]
    BY <1>3 DEF DigitsInv, OneKeyAhead
  <2>4. d[d[key][generated]][p(length, x)] = d[key][d[generated][p(length, x)]]
    BY <1>1, <2>2, Associative
  <2>5. d[generated][p(length, x)] \in Digit
    BY <1>1, <2>2, Table
  <2> QED
    BY <1>1, <2>1, <2>3, <2>4, <2>5 DEF Fed
<1> QED
  BY <1>2, <1>3

(* Reading a digit, however it was typed. *)
LEMMA Reading ==
  ASSUME DigitsInv, NEW x \in Digit, NEW y \in Digit, Read(x, y),
         slip' \in {"NONE", "DIGIT", "SWAP", "SWAP_09"}
  PROVE  DigitsType' /\ OneKeyAhead'
<1>1. /\ length \in Nat /\ scheme \in {"VERHOEFF", "LUHN"} /\ scheme' = scheme
      /\ sum \in Digit /\ typed \in Digit
      /\ length' = length + 1
      /\ sum' = Fed(sum, length, x)
      /\ typed' = Fed(typed, length, y)
      /\ key' = KeyWith(x)
      /\ generated' = GeneratedBefore(x)
  BY DEF DigitsInv, DigitsType, Read, KeyWith, GeneratedBefore
<1>2. sum' \in Digit /\ typed' \in Digit
  BY <1>1, Rounds
<1>3. length' \in Nat /\ length' # 0
  BY <1>1
<1> QED
  BY <1>1, <1>2, <1>3, OneRound DEF DigitsType, OneKeyAhead

(* Reading two neighbours that were swapped. *)
LEMMA Swapping ==
  ASSUME DigitsInv, NEW x \in Digit, NEW y \in Digit, SwappedDigits(x, y)
  PROVE  DigitsInv'
<1> DEFINE k == KeyWith(x)  g == GeneratedBefore(x)
<1>1. /\ length \in Nat /\ scheme \in {"VERHOEFF", "LUHN"} /\ scheme' = scheme
      /\ sum \in Digit /\ typed \in Digit
      /\ slip = "NONE" /\ x # y
      /\ length' = length + 2
      /\ sum' = Fed(Fed(sum, length, x), length + 1, y)
      /\ typed' = Fed(Fed(typed, length, y), length + 1, x)
      /\ slip' = (IF {x, y} = {0, 9} THEN "SWAP_09" ELSE "SWAP")
      /\ key' = k
      /\ generated' = GeneratedWith(g, length, y)
  BY DEF DigitsInv, DigitsType, SwappedDigits, KeyWith, GeneratedBefore
<1>2. /\ length + 1 \in Nat /\ length' \in Nat /\ length' # 0
      /\ sum' \in Digit /\ typed' \in Digit
  BY <1>1, Rounds
<1>3. /\ k \in Digit /\ g \in Digit
      /\ scheme = "VERHOEFF" => Fed(sum, length, x) = d[k][g]
  BY OneRound
<1> HIDE DEF k, g
<1>4. p(length + 1, y) \in Digit
  BY <1>2, Perm
<1>5. generated' = d[g][p(length + 1, y)] /\ generated' \in Digit
  BY <1>1, <1>3, <1>4, Table DEF GeneratedWith
<1>6. d[d[k][g]][p(length + 1, y)] = d[k][d[g][p(length + 1, y)]]
  BY <1>3, <1>4, Associative
<1>7. scheme = "VERHOEFF" => sum' = d[k][generated']
  BY <1>1, <1>3, <1>5, <1>6 DEF Fed
<1>8. typed = sum
  BY <1>1 DEF DigitsInv, SlipParts
<1>9. (scheme = "LUHN" => ~Zero9(x, y)) => typed' # sum'
  <2>1. \A i \in Nat, c, z, w \in Digit :
          z # w /\ (scheme = "LUHN" => ~Zero9(z, w)) =>
            Fed(Fed(c, i, z), i + 1, w) # Fed(Fed(c, i, w), i + 1, z)
    BY <1>1, Rounds
  <2>2. length \in Nat /\ sum \in Digit
    BY <1>1
  <2> QED
    BY <1>1, <1>8, <2>1, <2>2
<1> QED
  <2>1. DigitsType'
    BY <1>1, <1>2, <1>3, <1>5 DEF DigitsType
  <2>2. OneKeyAhead'
    BY <1>1, <1>2, <1>7 DEF OneKeyAhead
  <2>3. SlipParts'
    BY <1>1, <1>9 DEF SlipParts, Zero9
  <2> QED
    BY <2>1, <2>2, <2>3 DEF DigitsInv

(* Each step keeps the invariant of the loops. *)
LEMMA DigitsStep == DigitsInv /\ [DigitsNext]_digitsVars => DigitsInv'
<1> SUFFICES ASSUME DigitsInv, [DigitsNext]_digitsVars
             PROVE  DigitsInv'
  OBVIOUS
<1>1. DigitsType /\ SlipParts
  BY DEF DigitsInv
<1>2. ASSUME NEW x \in Digit, ReadDigit(x)
      PROVE  DigitsInv'
  <2>1. Read(x, x) /\ slip' = slip /\ slip \in {"NONE", "DIGIT", "SWAP", "SWAP_09"}
    BY <1>1, <1>2 DEF ReadDigit, DigitsType
  <2>2. DigitsType' /\ OneKeyAhead'
    BY <2>1, Reading
  <2>3. scheme' = scheme /\ sum' = Fed(sum, length, x) /\ typed' = Fed(typed, length, x)
    BY <2>1 DEF Read
  <2>4. Fed(sum, length, x) = Fed(typed, length, x) => sum = typed
    BY <1>1, Rounds DEF DigitsType
  <2>5. SlipParts'
    BY <1>1, <2>1, <2>3, <2>4 DEF SlipParts
  <2> QED
    BY <2>2, <2>5 DEF DigitsInv
<1>3. ASSUME NEW x \in Digit, NEW y \in Digit, MistypedDigit(x, y)
      PROVE  DigitsInv'
  <2>1. Read(x, y) /\ slip' = "DIGIT" /\ slip = "NONE" /\ x # y
    BY <1>3 DEF MistypedDigit
  <2>2. DigitsType' /\ OneKeyAhead'
    BY <2>1, Reading
  <2>3. sum' = Fed(sum, length, x) /\ typed' = Fed(sum, length, y)
    BY <1>1, <2>1 DEF Read, SlipParts
  <2>4. Fed(sum, length, x) = Fed(sum, length, y) => x = y
    BY <1>1, Rounds DEF DigitsType
  <2>5. SlipParts'
    BY <2>1, <2>3, <2>4 DEF SlipParts
  <2> QED
    BY <2>2, <2>5 DEF DigitsInv
<1>4. ASSUME UNCHANGED digitsVars
      PROVE  DigitsInv'
  BY <1>4 DEF digitsVars, DigitsInv, DigitsType, OneKeyAhead, SlipParts
<1> QED
  BY <1>2, <1>3, <1>4, Swapping DEF DigitsNext

(* A number of any length validates under Verhoeff exactly if its last digit is *)
(* the one generateVerhoeffCheckDigit makes of the others.                      *)
THEOREM CheckDigitsValidate ==
  DigitsInit /\ [][DigitsNext]_digitsVars => []GeneratedValidates
<1>1. DigitsInv => GeneratedValidates
  <2> SUFFICES ASSUME DigitsInv, scheme = "VERHOEFF", length > 0
               PROVE  Validates(sum) <=> key = CheckDigit
    BY DEF GeneratedValidates
  <2>1. length # 0 /\ key \in Digit /\ generated \in Digit
    BY DEF DigitsInv, DigitsType
  <2>2. sum = d[key][generated]
    BY <2>1 DEF DigitsInv, OneKeyAhead
  <2>3. Validates(sum) <=> sum = 0
    BY DEF Validates
  <2>4. d[key][generated] = 0 <=> key = Inverted(generated)
    BY <2>1, Inverses
  <2> QED
    BY <2>2, <2>3, <2>4 DEF CheckDigit
<1> QED
  BY <1>1, DigitsStart, DigitsStep, PTL

(* One wrong digit or one swap of neighbours, at whatever place of a number of  *)
(* whatever length, is noticed by both checksums, 09 for 90 under Luhn excepted. *)
THEOREM OneSlipIsNoticed ==
  DigitsInit /\ [][DigitsNext]_digitsVars => []SlipsAreNoticed
<1>1. DigitsInv => SlipsAreNoticed
  BY DEF DigitsInv, SlipParts, SlipsAreNoticed, Validates
<1> QED
  BY <1>1, DigitsStart, DigitsStep, PTL

-----------------------------------------------------------------------------
(* The classification of a column.                                         *)

(* A mask hides as much as it shows and more than four characters are never *)
(* shown, but for values with an @ that are masked as e-mails: of them, what  *)
(* is before the @ is hidden but for two characters.                          *)
LEMMA MaskHides ==
  ASSUME NEW v \in Value \cup {NoValue}, NEW type
  PROVE  LET m == Masked(v, type)
             hidden == m.of - m.shown
         IN  \/ m.shown <= 4 /\ m.shown <= hidden
             \/ /\ type = "EMAIL" /\ OneAt(v)
                /\ hidden >= v.user - 2
                /\ hidden > 0 \/ v.user <= 1
<1>1. v.size \in Nat /\ v.user \in Nat
  BY DEF Value, NoValue
<1>2. CASE type = "EMAIL" /\ OneAt(v)
  <2>1. Masked(v, type) = SplitMask(v)
    BY <1>2 DEF Masked
  <2>2. PICK u \in Nat, n \in Nat : u = v.user /\ n = v.size
    BY <1>1
  <2>3. SplitMask(v) = [shown |-> LesserOf(u, IF u > 2 THEN 2 ELSE 1) + (n - u), of |-> n]
    BY <2>2 DEF SplitMask
  <2>4. CASE u > 2
    <3>1. LesserOf(u, IF u > 2 THEN 2 ELSE 1) = 2
      BY <2>2, <2>4 DEF LesserOf
    <3> QED
      BY <1>2, <2>1, <2>2, <2>3, <2>4, <3>1
  <2>5. CASE u \in {1, 2}
    <3>1. LesserOf(u, IF u > 2 THEN 2 ELSE 1) = 1
      BY <2>2, <2>5 DEF LesserOf
    <3> QED
      BY <1>2, <2>1, <2>2, <2>3, <2>5, <3>1
  <2>6. CASE u = 0
    <3>1. LesserOf(u, IF u > 2 THEN 2 ELSE 1) = 0
      BY <2>2, <2>6 DEF LesserOf
    <3> QED
      BY <1>2, <2>1, <2>2, <2>3, <2>6, <3>1
  <2> QED
    BY <2>2, <2>4, <2>5, <2>6
<1>3. CASE ~(type = "EMAIL" /\ OneAt(v))
  <2>1. PICK q \in Nat : q = v.size \div 4 /\ 4 * q <= v.size
    BY <1>1
  <2>2. Masked(v, type) = [shown |-> IF v.size <= 4 THEN 0 ELSE 2 * LesserOf(2, q), of |-> v.size]
    BY <1>3, <2>1 DEF Masked
  <2> QED
    BY <1>1, <2>1, <2>2 DEF LesserOf
<1> QED
  BY <1>2, <1>3

(* A value is taken for one of the types, or none. *)
LEMMA Classes == \A v : classifySingleValue(v) \in PiiType
<1> TAKE v
<1> DEFINE hold == {i \in DOMAIN Rules(v) : Rules(v)[i].holds}
<1>1. DOMAIN Rules(v) = 1..6 /\ \A i \in 1..6 : Rules(v)[i].type \in PiiType
  BY DEF Rules, PiiType, PiiTypes, ToSet
<1>2. ASSUME hold # {}
      PROVE  Min(hold) \in 1..6
  <2>1. hold \subseteq 1..6
    BY <1>1
  <2> HIDE DEF hold
  <2>2. \E i \in hold : \A j \in hold : i <= j
    <3>1. \A j \in hold : j = 1 \/ j = 2 \/ j = 3 \/ j = 4 \/ j = 5 \/ j = 6
      BY <2>1
    <3> QED
      BY <1>2, <3>1
  <2> QED
    BY <2>1, <2>2 DEF Min
<1> QED
  BY <1>1, <1>2 DEF classifySingleValue, PiiType

(* Every type has at most as many matches as there were samples, and what is    *)
(* previewed was a sample.                                                      *)
ColumnInv ==
  /\ suggested \in ColumnTypes
  /\ sampled \in Nat
  /\ counts \in [PiiType -> Nat]
  /\ \A t \in PiiType : counts[t] <= sampled
  /\ sampled > 0 => firstValue \in Values
  /\ firstMatch \in Values \cup {NoValue}

(* No sample was gone through. *)
LEMMA ColumnStart == ColumnInit => ColumnInv
BY DEF ColumnInit, ColumnInv

(* A sample keeps the invariant. *)
LEMMA ColumnStep == ColumnInv /\ [ColumnNext]_columnVars => ColumnInv'
<1> SUFFICES ASSUME ColumnInv, [ColumnNext]_columnVars
             PROVE  ColumnInv'
  OBVIOUS
<1>1. ASSUME NEW v \in Values, ClassifySample(v)
      PROVE  ColumnInv'
  <2>1. PICK t \in PiiType : t = classifySingleValue(v)
    BY Classes
  <2>2. counts' = [counts EXCEPT ![t] = @ + 1] /\ sampled' = sampled + 1
    BY <1>1, <2>1 DEF ClassifySample
  <2>3. counts' \in [PiiType -> Nat] /\ \A u \in PiiType : counts'[u] <= sampled'
    BY <2>2 DEF ColumnInv
  <2> QED
    BY <1>1, <2>2, <2>3 DEF ColumnInv, ClassifySample
<1>2. ASSUME UNCHANGED columnVars
      PROVE  ColumnInv'
  BY <1>2 DEF columnVars, ColumnInv
<1> QED
  BY <1>1, <1>2 DEF ColumnNext

(* What maskSensitiveValue leaves of a column's sample hides half of it or    *)
(* more, but for an e-mail or what is in a column of e-mails by its name: the  *)
(* domain is shown, and of what is before the @ no more than two characters.  *)
THEOREM PreviewsHide == ColumnInit /\ [][ColumnNext]_columnVars => []PreviewHides
<1>1. ColumnInv => PreviewHides
  <2> SUFFICES ASSUME ColumnInv
               PROVE  PreviewHides
    OBVIOUS
  <2>1. CASE firstMatch # NoValue
    <3>1. firstMatch \in Value \cup {NoValue}
      BY ColumnAssumption DEF ColumnInv
    <3>2. Preview = Masked(firstMatch, classifySingleValue(firstMatch)) /\ Previewed = firstMatch
      BY <2>1 DEF Preview, Previewed
    <3> QED
      BY <3>1, <3>2, MaskHides DEF PreviewHides
  <2>2. CASE firstMatch = NoValue /\ suggested # "NONE" /\ sampled > 0
    <3>1. firstValue \in Value \cup {NoValue}
      BY <2>2, ColumnAssumption DEF ColumnInv
    <3>2. Preview = Masked(firstValue, suggested) /\ Previewed = firstValue
      BY <2>2 DEF Preview, Previewed
    <3> QED
      BY <3>1, <3>2, MaskHides DEF PreviewHides
  <2>3. CASE firstMatch = NoValue /\ ~(suggested # "NONE" /\ sampled > 0)
    BY <2>3 DEF PreviewHides, Preview
  <2> QED
    BY <2>1, <2>2, <2>3
<1> QED
  BY <1>1, ColumnStart, ColumnStep, PTL

-----------------------------------------------------------------------------
(* The report on a column.                                                 *)

(* The types the counts are gone through in the order of. *)
LEMMA Types ==
  /\ Len(PiiTypes) = 9 /\ DOMAIN PiiTypes = 1..9
  /\ ToSet(PiiTypes) = {PiiTypes[i] : i \in 1..9}
  /\ \A i \in 1..9 : PiiTypes[i] \in PiiType /\ PiiTypes[i] # "UNKNOWN"
  /\ \A i, j \in 1..9 : PiiTypes[i] = PiiTypes[j] => i = j
<1>1. Len(PiiTypes) = 9 /\ DOMAIN PiiTypes = 1..9
  BY DEF PiiTypes
<1>2. ToSet(PiiTypes) = {PiiTypes[i] : i \in 1..9}
  BY <1>1 DEF ToSet
<1>3. \A i, j \in 1..9 : PiiTypes[i] # "UNKNOWN" /\ (PiiTypes[i] = PiiTypes[j] => i = j)
  BY DEF PiiTypes
<1> QED
  BY <1>1, <1>2, <1>3 DEF PiiType

(* One round of the pass over the counts. *)
Round(i, sofar) ==
  IF Displaces(counts[PiiTypes[i]], sofar)
  THEN [type |-> PiiTypes[i], count |-> counts[PiiTypes[i]]] ELSE sofar

(* The nine rounds of dominant. *)
LEMMA Unrolled ==
  \E best : /\ best[0] = [type |-> "UNKNOWN", count |-> 0]
           /\ \A i \in 1..9 : best[i] = Round(i, best[i - 1])
           /\ dominant = best[9]
<1> DEFINE Is(best) ==
      best = [i \in 0..Len(PiiTypes) |->
               IF i = 0 THEN [type |-> "UNKNOWN", count |-> 0]
               ELSE LET sofar == best[i - 1]
                        n == counts[PiiTypes[i]]
                    IN  IF Displaces(n, sofar) THEN [type |-> PiiTypes[i], count |-> n] ELSE sofar]
<1>1. dominant = (CHOOSE best : Is(best))[Len(PiiTypes)]
  BY DEF dominant
<1>2. \E best : Is(best)
  <2> DEFINE b0 == [type |-> "UNKNOWN", count |-> 0]
             b1 == Round(1, b0)  b2 == Round(2, b1)  b3 == Round(3, b2)
             b4 == Round(4, b3)  b5 == Round(5, b4)  b6 == Round(6, b5)
             b7 == Round(7, b6)  b8 == Round(8, b7)  b9 == Round(9, b8)
             f == [i \in 0..9 |-> CASE i = 0 -> b0 [] i = 1 -> b1 [] i = 2 -> b2 [] i = 3 -> b3
                                    [] i = 4 -> b4 [] i = 5 -> b5 [] i = 6 -> b6 [] i = 7 -> b7
                                    [] i = 8 -> b8 [] i = 9 -> b9]
  <2>1. b1 = Round(1, b0) /\ b2 = Round(2, b1) /\ b3 = Round(3, b2) /\ b4 = Round(4, b3)
        /\ b5 = Round(5, b4) /\ b6 = Round(6, b5) /\ b7 = Round(7, b6) /\ b8 = Round(8, b7)
        /\ b9 = Round(9, b8)
    OBVIOUS
  <2> HIDE DEF b1, b2, b3, b4, b5, b6, b7, b8, b9
  <2>2. f[0] = b0 /\ f[1] = b1 /\ f[2] = b2 /\ f[3] = b3 /\ f[4] = b4 /\ f[5] = b5
        /\ f[6] = b6 /\ f[7] = b7 /\ f[8] = b8 /\ f[9] = b9
    OBVIOUS
  <2>3. f = [i \in 0..9 |-> f[i]]
    OBVIOUS
  <2> HIDE DEF f
  <2>4. \A i \in 1..9 : f[i] = Round(i, f[i - 1])
    <3>1. \A i \in 1..9 : i = 1 \/ i = 2 \/ i = 3 \/ i = 4 \/ i = 5 \/ i = 6 \/ i = 7 \/ i = 8 \/ i = 9
      OBVIOUS
    <3> QED
      BY <2>1, <2>2, <3>1
  <2>5. f = [i \in 0..9 |-> IF i = 0 THEN b0 ELSE Round(i, f[i - 1])]
    <3>1. \A i \in 0..9 : f[i] = IF i = 0 THEN b0 ELSE Round(i, f[i - 1])
      BY <2>2, <2>4
    <3> QED
      BY <2>3, <3>1
  <2> HIDE DEF b0
  <2>6. Is(f)
    BY <2>5, Types DEF Round, b0
  <2> QED
    BY <2>6
<1>3. PICK best : Is(best) /\ best = CHOOSE b : Is(b)
  BY <1>2
<1>4. /\ best[0] = [type |-> "UNKNOWN", count |-> 0]
      /\ \A i \in 1..9 : best[i] = Round(i, best[i - 1])
  BY <1>3, Types DEF Round
<1> HIDE DEF Is
<1>5. dominant = best[9]
  BY <1>1, <1>3, Types
<1> QED
  BY <1>4, <1>5

(* What the pass knows after i types. *)
Leads(i, b) ==
  \/ /\ b.type = "UNKNOWN" /\ b.count = 0
     /\ \A j \in 1..i : counts[PiiTypes[j]] = 0
  \/ \E k \in 1..i :
       /\ b.type = PiiTypes[k] /\ b.count = counts[PiiTypes[k]] /\ b.count > 0
       /\ \A j \in 1..i : \/ counts[PiiTypes[j]] < b.count
                          \/ counts[PiiTypes[j]] = b.count /\ k <= j

(* The pass ends with a type that leads, or with none. *)
LEMMA DominantLeads == counts \in [PiiType -> Nat] => Leads(9, dominant)
<1> SUFFICES ASSUME counts \in [PiiType -> Nat]
             PROVE  Leads(9, dominant)
  OBVIOUS
<1> DEFINE n(i) == counts[PiiTypes[i]]
<1>1. \A i \in 1..9 : n(i) \in Nat
  BY Types
<1>2. PICK best : /\ best[0] = [type |-> "UNKNOWN", count |-> 0]
                  /\ \A i \in 1..9 : best[i] = Round(i, best[i - 1])
                  /\ dominant = best[9]
  BY Unrolled
<1>3. Leads(0, best[0])
  BY <1>2 DEF Leads
<1>4. ASSUME NEW i \in 1..9, Leads(i - 1, best[i - 1])
      PROVE  Leads(i, best[i])
  <2> DEFINE b == best[i - 1]
  <2>1. best[i] = IF n(i) > b.count THEN [type |-> PiiTypes[i], count |-> n(i)] ELSE b
    BY <1>2 DEF Round, Displaces
  <2>2. i - 1 \in Nat /\ 1..i = 1..(i - 1) \cup {i} /\ 1..i \subseteq 1..9 /\ i \notin 1..(i - 1)
    OBVIOUS
  <2> HIDE DEF b
  <2>3. CASE b.type = "UNKNOWN" /\ b.count = 0 /\ \A j \in 1..(i - 1) : n(j) = 0
    <3>1. CASE n(i) > 0
      BY <1>1, <2>1, <2>2, <2>3, <3>1 DEF Leads
    <3>2. CASE n(i) = 0
      BY <1>1, <2>1, <2>2, <2>3, <3>2 DEF Leads
    <3> QED
      BY <1>1, <3>1, <3>2
  <2>4. CASE \E k \in 1..(i - 1) :
               /\ b.type = PiiTypes[k] /\ b.count = n(k) /\ b.count > 0
               /\ \A j \in 1..(i - 1) : n(j) < b.count \/ (n(j) = b.count /\ k <= j)
    <3>1. PICK k \in 1..(i - 1) :
               /\ b.type = PiiTypes[k] /\ b.count = n(k) /\ b.count > 0
               /\ \A j \in 1..(i - 1) : n(j) < b.count \/ (n(j) = b.count /\ k <= j)
      BY <2>4
    <3>2. k \in 1..i /\ k \in 1..9 /\ i \in 1..i /\ k <= i
      BY <2>2
    <3>3. CASE n(i) > b.count
      <4>1. best[i].type = PiiTypes[i] /\ best[i].count = n(i)
        BY <2>1, <3>3
      <4>2. \A j \in 1..i : n(j) < n(i) \/ (n(j) = n(i) /\ i <= j)
        BY <1>1, <2>2, <3>1, <3>2, <3>3
      <4> QED
        BY <1>1, <3>1, <3>2, <3>3, <4>1, <4>2 DEF Leads
    <3>4. CASE ~(n(i) > b.count)
      <4>1. best[i] = b
        BY <2>1, <3>4
      <4>2. \A j \in 1..i : n(j) < b.count \/ (n(j) = b.count /\ k <= j)
        BY <1>1, <2>2, <3>1, <3>2, <3>4
      <4> QED
        BY <3>1, <3>2, <4>1, <4>2 DEF Leads
    <3> QED
      BY <3>3, <3>4
  <2> QED
    BY <1>4, <2>3, <2>4 DEF Leads, b
<1>5. Leads(1, best[1]) /\ Leads(2, best[2]) /\ Leads(3, best[3])
  BY <1>3, <1>4
<1>6. Leads(4, best[4]) /\ Leads(5, best[5]) /\ Leads(6, best[6])
  BY <1>4, <1>5
<1>7. Leads(7, best[7]) /\ Leads(8, best[8]) /\ Leads(9, best[9])
  BY <1>4, <1>6
<1> QED
  BY <1>2, <1>7

(* A quotient up to 100 has a nearest integer, which is zero only if it is a  *)
(* half at most.                                                              *)
LEMMA NearestOnes ==
  ASSUME NEW n \in Nat, NEW m \in Nat, m > 0, n <= 100 * m
  PROVE  Nearest(n, m) # {} /\ (0 \in Nearest(n, m) => 2 * n <= m)
<1>1. PICK q \in Nat, r \in Nat : n = q * m + r /\ r < m
  <2>1. n \div m \in Nat /\ n % m \in Nat /\ n % m < m /\ n = (n \div m) * m + (n % m)
    OBVIOUS
  <2> QED
    BY <2>1
<1>2. q \in 0..100 /\ (2 * r > m => q + 1 \in 0..100)
  <2>1. q > 100 => q * m >= 101 * m
    OBVIOUS
  <2>2. q = 100 => q * m = 100 * m
    OBVIOUS
  <2>3. q \in 0..100
    BY <1>1, <2>1
  <2>4. q = 100 => r = 0
    BY <1>1, <2>2
  <2> QED
    BY <2>3, <2>4
<1>3. ASSUME NEW k \in 0..100, -m <= 2 * (n - k * m) /\ 2 * (n - k * m) <= m
      PROVE  Nearest(n, m) # {}
  <2>1. k \in Nearest(n, m)
    BY <1>3, Zenon DEF Nearest
  <2> QED
    BY <2>1, Zenon
<1>4. ASSUME 2 * r <= m
      PROVE  Nearest(n, m) # {}
  <2>1. r = n - q * m
    BY <1>1
  <2>2. -m <= 2 * r /\ 2 * r <= m
    BY <1>4
  <2>3. -m <= 2 * (n - q * m) /\ 2 * (n - q * m) <= m
    BY <2>1, <2>2, Zenon
  <2> QED
    BY <2>3, <1>2, <1>3, Zenon
<1>5. ASSUME 2 * r > m
      PROVE  Nearest(n, m) # {}
  <2>1. (q + 1) * m = q * m + m
    OBVIOUS
  <2>2. r - m = n - (q + 1) * m
    BY <2>1, <1>1
  <2>3. -m <= 2 * (r - m) /\ 2 * (r - m) <= m
    BY <1>1, <1>5
  <2>4. -m <= 2 * (n - (q + 1) * m) /\ 2 * (n - (q + 1) * m) <= m
    BY <2>2, <2>3, Zenon
  <2>5. q + 1 \in 0..100
    BY <1>2, <1>5, Zenon
  <2> QED
    BY <2>4, <2>5, <1>3, Zenon
<1>6. Nearest(n, m) # {}
  BY <1>4, <1>5
<1>7. 0 \in Nearest(n, m) => 2 * n <= m
  <2>1. 0 * m = 0
    OBVIOUS
  <2> QED
    BY <2>1 DEF Nearest
<1> QED
  BY <1>6, <1>7

(* How sure a report on a match is. *)
LEMMA Confidences ==
  ASSUME sampled \in Nat, sampled > 0, NEW best, best.count \in Nat, best.count > 0,
         best.count <= sampled
  PROVE  /\ Confidence(best) # {} /\ Confidence(best) \subseteq 0..100
         /\ 0 \in Confidence(best) => best.type # suggested /\ 180 * best.count <= sampled
<1>1. PICK c \in Nat : c = Unrounded(best)
  BY DEF Unrounded, Boosted, LesserOf
<1>2. c <= 100 * sampled
  BY <1>1 DEF Unrounded, Boosted, LesserOf
<1>3. Confidence(best) = Nearest(c, sampled)
  BY <1>1 DEF Confidence
<1>4. Nearest(c, sampled) # {} /\ (0 \in Nearest(c, sampled) => 2 * c <= sampled)
  BY <1>2, NearestOnes
<1>5. ASSUME 2 * c <= sampled
      PROVE  best.type # suggested /\ 180 * best.count <= sampled
  <2>1. CASE suggested = best.type
    BY <1>1, <1>5, <2>1 DEF Unrounded, Boosted, LesserOf
  <2>2. CASE suggested # best.type
    BY <1>1, <1>5, <2>2 DEF Unrounded
  <2> QED
    BY <2>1, <2>2
<1>6. Nearest(c, sampled) \subseteq 0..100
  BY DEF Nearest
<1> QED
  BY <1>3, <1>4, <1>5, <1>6

(* The report of classifyColumnSample on a column of any number of samples is *)
(* the one its counts and its name justify.  Its confidence is at most 100,   *)
(* and zero for a type only if the name does not suggest it and at most one   *)
(* sample of 180 matched.                                                     *)
THEOREM ReportsAreJustified == ColumnInit /\ [][ColumnNext]_columnVars => []ReportIsJustified
<1>1. ColumnInv => ReportIsJustified
  <2> SUFFICES ASSUME ColumnInv
               PROVE  ReportIsJustified
    OBVIOUS
  <2> DEFINE Rank(t) == CHOOSE i \in DOMAIN PiiTypes : PiiTypes[i] = t
             found == {t \in ToSet(PiiTypes) : counts[t] > 0}
             First(t) == \A u \in found : counts[u] < counts[t]
                                 \/ (counts[u] = counts[t] /\ Rank(t) <= Rank(u))
             best == dominant
  <2>1. /\ sampled \in Nat /\ counts \in [PiiType -> Nat]
        /\ \A t \in PiiType : counts[t] <= sampled
    BY DEF ColumnInv
  <2>2. Leads(9, best)
    BY <2>1, DominantLeads
  <2>3. \A t : t \in found <=> \E i \in 1..9 : t = PiiTypes[i] /\ counts[PiiTypes[i]] > 0
    BY Types
  <2>4. \A i \in 1..9 : Rank(PiiTypes[i]) = i
    BY Types
  <2>5. \A i \in 1..9 : counts[PiiTypes[i]] \in Nat /\ counts[PiiTypes[i]] <= sampled
    BY <2>1, Types
  <2> HIDE DEF found, Rank, best
  <2>6. CASE found = {}
    <3>1. best.count = 0
      BY <2>2, <2>3, <2>6 DEF Leads
    <3>2. PICK c \in {60, 65} : ColumnReports = ByName(c)
      BY <3>1 DEF ColumnReports, best
    <3>3. ColumnReports # {}
      BY <3>2 DEF ByName
    <3>4. ASSUME NEW r \in ColumnReports
          PROVE  /\ r.piiType = IF suggested = "NONE" THEN "UNKNOWN" ELSE suggested
                 /\ r.confidence \in 0..100
                 /\ r.piiType # "UNKNOWN" => r.confidence # 0
      BY <3>2 DEF ByName
    <3> QED
      BY <2>6, <3>3, <3>4 DEF ReportIsJustified, found
  <2>7. CASE found # {}
    <3>1. PICK k \in 1..9 :
            /\ best.type = PiiTypes[k] /\ best.count = counts[PiiTypes[k]] /\ best.count > 0
            /\ \A j \in 1..9 : \/ counts[PiiTypes[j]] < best.count
                               \/ counts[PiiTypes[j]] = best.count /\ k <= j
      <4>1. ~ \A j \in 1..9 : counts[PiiTypes[j]] = 0
        BY <2>3, <2>7
      <4> QED
        BY <2>2, <4>1 DEF Leads
    <3>2. best.count \in Nat /\ best.count <= sampled /\ sampled > 0
      BY <2>1, <2>5, <3>1
    <3>3. ColumnReports = ByValues(best)
      BY <3>1, <3>2 DEF ColumnReports, best
    <3>4. \A r \in ColumnReports : /\ r.piiType = PiiTypes[k] /\ r.piiType = best.type
                              /\ r.confidence \in Confidence(best)
                              /\ r.matchCount = best.count
      BY <3>1, <3>3 DEF ByValues
    <3>5. PiiTypes[k] \in found /\ First(PiiTypes[k])
      BY <2>3, <2>4, <3>1
    <3>6. ASSUME NEW t \in found, First(t)
          PROVE  t = PiiTypes[k]
      <4>1. PICK i \in 1..9 : t = PiiTypes[i]
        BY <2>3
      <4>2. i <= k /\ k <= i
        BY <2>3, <2>4, <2>5, <3>1, <3>5, <3>6, <4>1
      <4> QED
        BY <4>1, <4>2
    <3>7. PiiTypes[k] = CHOOSE t \in found : First(t)
      BY <3>5, <3>6
    <3>8. /\ Confidence(best) # {} /\ Confidence(best) \subseteq 0..100
          /\ 0 \in Confidence(best) => best.type # suggested /\ 180 * best.count <= sampled
      BY <2>1, <3>1, <3>2, Confidences
    <3>9. ColumnReports # {}
      BY <3>3, <3>8 DEF ByValues
    <3>10. ASSUME NEW r \in ColumnReports
           PROVE  /\ r.piiType = CHOOSE t \in found : First(t)
                  /\ r.confidence \in 0..100
                  /\ r.confidence = 0 => /\ r.piiType # suggested
                                         /\ 0 < r.matchCount /\ 180 * r.matchCount <= sampled
      BY <3>1, <3>2, <3>4, <3>7, <3>8
    <3> QED
      BY <2>7, <3>9, <3>10 DEF ReportIsJustified, found, Rank
  <2> QED
    BY <2>6, <2>7
<1> QED
  BY <1>1, ColumnStart, ColumnStep, PTL
=============================================================================
