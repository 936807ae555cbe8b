------------------------------ MODULE Dashboard ------------------------------
(***************************************************************************)
(* The compliance report of services/compliance.service.ts, route 8 of     *)
(* server.ts that answers it, and the overview of public/app.js that polls *)
(* for it: every four seconds while its tab is open, without waiting for   *)
(* the polls before, whose answers may be lost or come late.               *)
(*                                                                         *)
(* Of the other services the report reads only whether there are agents,   *)
(* tables and consents, how many requests are open, and whether the ledger *)
(* verifies.                                                               *)
(***************************************************************************)
EXTENDS Integers

CONSTANTS
  Polls,    \* polls under way at once
  MaxOpen   \* bound on the open requests

ASSUME DashboardAssumption == MaxOpen \in Nat

VARIABLES
  up,       \* the control plane answers
  has,      \* which of "agents", "tables", "consents" there are
  open,     \* how many requests are IN_PROGRESS
  valid,    \* verifyIntegrity
  tab,      \* the tab that is open
  poll,     \* the report each poll brings back
  shown     \* the report on the page

estateVars == <<has, open, valid>>
pageVars == <<tab, poll, shown>>
dashboardVars == <<up, estateVars, pageVars>>

-----------------------------------------------------------------------------
(* getComplianceReport.                                                    *)

catalogScore == IF "tables" \notin has THEN 30 ELSE IF "agents" \in has THEN 100 ELSE 70
consentScore == IF "consents" \in has THEN 95 ELSE 60
dsrScore == IF open = 0 THEN 100 ELSE 85
ledgerScore == IF valid THEN 100 ELSE 0

(* Math.round of the mean of the four, half up. *)
overallScore == (catalogScore + consentScore + dsrScore + ledgerScore + 2) \div 4

(* A grade that goes by the score alone. *)
gradeByScore ==
  IF overallScore >= 95 THEN "A+"
  ELSE IF overallScore >= 85 THEN "A"
  ELSE IF overallScore >= 70 THEN "B"
  ELSE "C"

grade ==
  IF ~valid THEN "FAIL"
  ELSE IF overallScore >= 95 THEN "A+"
  ELSE IF overallScore >= 85 THEN "A"
  ELSE IF overallScore >= 70 THEN "B"
  ELSE "C"

(* The first of the recommendations, which is the one the page shows. *)
recommendation ==
  IF "agents" \notin has THEN "DEPLOY_AGENT"
  ELSE IF "tables" \notin has THEN "RUN_SCAN"
  ELSE IF ~valid THEN "TAMPERING"
  ELSE "ALL_COMPLIANT"

Report == [overallScore |-> overallScore, grade |-> grade, valid |-> valid,
           recommendation |-> recommendation]
Nothing == [overallScore |-> 0, grade |-> "none", valid |-> TRUE,
            recommendation |-> "none"]

-----------------------------------------------------------------------------
DashboardInit ==
  /\ up = TRUE
  /\ has = {}
  /\ open = 0
  /\ valid = TRUE
  /\ tab = "overview"
  /\ poll = [s \in Polls |-> Nothing]
  /\ shown = Nothing

(* What the rest of the control plane does to what the report reads.  Nothing *)
(* ever takes agents, tables or consents away; a table may come before its    *)
(* agent, which scans although it could not register.                         *)
Gain(what) ==
  /\ up
  /\ has' = has \cup {what}
  /\ UNCHANGED <<open, valid>>

OpenRequest == up /\ open < MaxOpen /\ open' = open + 1 /\ UNCHANGED <<has, valid>>
CompleteRequest == up /\ open > 0 /\ open' = open - 1 /\ UNCHANGED <<has, valid>>

(* A block is changed in the storage; nothing mends the chain. *)
Tamper == valid' = FALSE /\ UNCHANGED <<has, open>>

EstateStep ==
  /\ (\E what \in {"agents", "tables", "consents"} : Gain(what))
       \/ OpenRequest \/ CompleteRequest \/ Tamper
  /\ UNCHANGED <<up, pageVars>>

Stop == up /\ up' = FALSE /\ UNCHANGED <<estateVars, pageVars>>
Start == ~up /\ up' = TRUE /\ UNCHANGED <<estateVars, pageVars>>

-----------------------------------------------------------------------------
(* The page.                                                               *)

(* A page that does not poll: it fetches until it shows something. *)
FetchUntilShown(s) ==
  /\ tab = "overview" /\ up
  /\ shown = Nothing /\ poll[s] = Nothing
  /\ poll' = [poll EXCEPT ![s] = Report]
  /\ UNCHANGED <<up, estateVars, tab, shown>>

(* fetchOverview up to its first answer, which is a report of this moment;   *)
(* any other ends it.                                                        *)
FetchOverview(s) ==
  /\ tab = "overview" /\ up
  /\ poll[s] = Nothing
  /\ poll' = [poll EXCEPT ![s] = Report]
  /\ UNCHANGED <<up, estateVars, tab, shown>>

(* The answer of any poll under way replaces the page, an older one too. *)
RenderOverview(s) ==
  /\ poll[s] # Nothing
  /\ shown' = poll[s]
  /\ poll' = [poll EXCEPT ![s] = Nothing]
  /\ UNCHANGED <<up, estateVars, tab>>

LoseAnswer(s) ==
  /\ poll[s] # Nothing
  /\ poll' = [poll EXCEPT ![s] = Nothing]
  /\ UNCHANGED <<up, estateVars, tab, shown>>

(* switchTab hides the view and leaves what it shows. *)
SwitchTab(t) ==
  /\ tab' = t
  /\ UNCHANGED <<up, estateVars, poll, shown>>

DashboardNext ==
  \/ EstateStep
  \/ Stop
  \/ Start
  \/ \E s \in Polls : FetchOverview(s)
  \/ \E s \in Polls : RenderOverview(s)
  \/ \E s \in Polls : LoseAnswer(s)
  \/ \E t \in {"overview", "ledger"} : SwitchTab(t)

(* The timer of the page never stops, and the network does not lose every    *)
(* answer.                                                                   *)
DashboardFairness ==
  \A s \in Polls : SF_dashboardVars(FetchOverview(s)) /\ SF_dashboardVars(RenderOverview(s))

-----------------------------------------------------------------------------
(* Properties.                                                             *)

(* Two computations that agree: the advice that all is compliant is given     *)
(* only with one of the two best grades, and a ledger that does not verify    *)
(* fails whatever the score and is never called compliant.                    *)
CompliantIsEarned ==
  /\ Report.recommendation = "ALL_COMPLIANT" => Report.grade \in {"A+", "A"}
  /\ Report.grade = "FAIL" <=> ~valid

(* An officer who stays on the overview of a control plane that is up again   *)
(* and again comes to see that the ledger was tampered with, and goes on      *)
(* seeing it, although late answers of older polls overwrite newer ones.      *)
TamperingIsShown ==
  <>[](tab = "overview" /\ ~valid) /\ []<>up =>
    <>[](~shown.valid /\ shown.grade = "FAIL")
=============================================================================
